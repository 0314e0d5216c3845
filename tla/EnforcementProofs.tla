-------------------------- MODULE EnforcementProofs --------------------------
(***************************************************************************)
(* Proofs about Enforcement: what verify passes is enforced and lets sound *)
(* work through, the gates fail closed, and the user's edits survive.      *)
(***************************************************************************)
EXTENDS Enforcement, TLAPS

(***************************************************************************)
(* Types.                                                                  *)
(***************************************************************************)
AtHook == {"shim", "fill shim", "chmod"}
AtGit == {"signersFile"}
Late == {"policies", "ignore", "truncate ignore", "fill ignore"}
AtToggle == {"truncate config", "fill config"}
At == {"idle", "config", "default config", "discover", "hooksPath"}
      \cup AtHook \cup AtGit \cup Late \cup AtToggle

Run == [at : At, event : 0 .. 3, key : Controls \cup {"none"}, value : {"on", "off", "none"}]
History == [wish : Tables, rules : Nat, foreign : BOOLEAN, lost : SUBSET {"config", "ignore"},
            opened : SUBSET (Event \cup {"hooksPath", "signersFile", "config"}),
            complete : BOOLEAN]

RunTyped ==
    /\ run \in Run
    /\ run.event \in 0 .. Len(Events) /\ (run.at \in AtHook => run.event # 0)
    /\ run.at \in AtToggle => run.key \in Controls /\ run.value \in {"on", "off"}
    /\ read \in [set : Tables, ignore : IgnoreFiles]

StateTyped ==
    /\ config \in Configs /\ hook \in [Event -> Shims]
    /\ hooksPath \in HooksPaths /\ signersFile \in {"ours", "other"}
    /\ signers \in SignerPolicies /\ packages \in Baselines /\ ignore \in IgnoreFiles
    /\ tools \subseteq Scanners /\ cli \in BOOLEAN
    /\ told \in History
    /\ budget \in [acts : 0 .. MaxActs, deaths : 0 .. MaxDeaths]

Typed == StateTyped /\ RunTyped

(***************************************************************************)
(* The gates the user has not opened. Hooks are good from the moment an    *)
(* init is past them.                                                      *)
(***************************************************************************)
Live == {"ours", "edited live", "wrapper"}
Past(e) ==
    \/ told.complete
    \/ run.at \in {"hooksPath"} \cup AtGit \cup Late
    \/ run.at \in AtHook /\ \E i \in DOMAIN Events : i < run.event /\ Events[i] = e

HooksStand ==
    /\ \A e \in Event \ told.opened :
          Past(e) => hook[e].exec /\ hook[e].body \in Live \cup {"empty"}
    /\ run.at \in {"fill shim", "chmod"} /\ Events[run.event] \notin told.opened =>
          hook[Events[run.event]].body \in Live \cup {"empty"}

GitStands ==
    /\ told.complete \/ run.at \in AtGit \cup Late =>
          "hooksPath" \in told.opened \/ hooksPath \in {"ours", "spelled"}
    /\ told.complete \/ run.at \in Late => "signersFile" \in told.opened \/ signersFile = "ours"

\* No setting opens a gate, in the configuration or in what a toggle has read.
ConfigStands ==
    "config" \notin told.opened =>
        /\ told.complete \/ run.at \notin {"idle", "config"} => config.is # "absent"
        /\ \A s \in AllSettings : ~Opens(s, config.set[s])
        /\ run.at \in AtToggle => \A s \in AllSettings : ~Opens(s, read.set[s])

ClosedInv == HooksStand /\ GitStands /\ ConfigStands

(***************************************************************************)
(* The user's edits.                                                       *)
(***************************************************************************)
ConfigKept ==
    "config" \notin told.lost =>
        /\ run.at = "fill config" \/ config.set = told.wish
        /\ run.at \in AtToggle => read.set = told.wish
        /\ run.at = "default config" => told.wish = Unset

IgnoreKept ==
    /\ ~ignore.utf8 => told.foreign
    /\ run.at \in {"truncate ignore", "fill ignore"} => read.ignore.utf8
    /\ "ignore" \notin told.lost /\ ~told.foreign =>
          /\ run.at = "fill ignore" \/ ignore.rules = told.rules
          /\ run.at \in {"truncate ignore", "fill ignore"} => read.ignore.rules = told.rules

EditsInv == ConfigKept /\ IgnoreKept

-----------------------------------------------------------------------------
(***************************************************************************)
(* Types are kept.                                                         *)
(***************************************************************************)
LEMMA EventsAre ==
    /\ Len(Events) = 3 /\ DOMAIN Events = 1 .. 3
    /\ Events[1] = "pre-commit" /\ Events[2] = "commit-msg" /\ Events[3] = "pre-push"
    /\ Event = {"pre-commit", "commit-msg", "pre-push"}
<1>1. /\ Len(Events) = 3 /\ DOMAIN Events = 1 .. 3
      /\ Events[1] = "pre-commit" /\ Events[2] = "commit-msg" /\ Events[3] = "pre-push"
  BY DEF Events
<1>2. \A i \in 1 .. 3 : i = 1 \/ i = 2 \/ i = 3
  OBVIOUS
<1>3. QED
  BY <1>1, <1>2 DEF Event

LEMMA EventTyped == ASSUME NEW i \in 1 .. 3 PROVE Events[i] \in Event
<1>1. i = 1 \/ i = 2 \/ i = 3
  OBVIOUS
<1>2. QED
  BY <1>1, EventsAre

LEMMA UnsetTyped == Unset \in Tables /\ \A s \in AllSettings : Unset[s] = "unset"
BY DEF Unset, Tables, AnyValue

LEMMA TableTyped ==
    ASSUME NEW t \in Tables, NEW s \in AllSettings, NEW v \in Values(s) \cup {"unset", "wrong"}
    PROVE  [t EXCEPT ![s] = v] \in Tables
<1>1. v \in AnyValue
  BY DEF Values, AnyValue
<1>2. [t EXCEPT ![s] = v] \in [AllSettings -> AnyValue]
  BY <1>1 DEF Tables
<1>3. \A r \in AllSettings : [t EXCEPT ![s] = v][r] \in Values(r) \cup {"unset", "wrong"}
  BY DEF Tables
<1>4. QED
  BY <1>2, <1>3 DEF Tables

LEMMA FileTyped == ASSUME NEW t \in Tables PROVE [is |-> "file", set |-> t] \in Configs
BY DEF Configs

LEMMA ConfigTyped ==
    ASSUME NEW c \in Configs
    PROVE  /\ c.set \in Tables /\ c.is \in {"absent", "torn", "file"}
           /\ c.is = "absent" => c.set = Unset
BY DEF Configs

LEMMA IdleTyped == Idle \in Run /\ Idle.at = "idle" /\ Nothing \in [set : Tables, ignore : IgnoreFiles]
BY UnsetTyped DEF Idle, Run, At, Nothing, NoIgnore, IgnoreFiles

LEMMA TypeFollows == Typed => TypeOK
<1>1. \A h \in History : h.opened \subseteq Event \cup {"hooksPath", "signersFile", "config"}
  BY DEF History
<1>2. QED
  BY <1>1 DEF Typed, TypeOK, StateTyped, RunTyped, AtHook

LEMMA EndTyped == ASSUME End PROVE RunTyped' /\ run'.at = "idle"
<1>1. 0 \in 0 .. Len(Events)
  BY EventsAre
<1>2. QED
  BY <1>1, IdleTyped DEF End, RunTyped, Idle, AtHook, AtToggle

LEMMA GotoTyped ==
    ASSUME RunTyped, NEW pc \in At, Goto(pc), UNCHANGED read,
           pc \in AtHook => run.at \in AtHook, pc \in AtToggle => run.at \in AtToggle
    PROVE  RunTyped' /\ run'.at = pc /\ run'.event = run.event
BY DEF RunTyped, Run, Goto

LEMMA RunKept == ASSUME RunTyped, UNCHANGED <<run, read>> PROVE RunTyped'
BY DEF RunTyped

LEMMA OpenedTyped ==
    ASSUME told \in History, NEW o, o \in SUBSET (Event \cup {"hooksPath", "signersFile", "config"}),
           told' = [told EXCEPT !.opened = o]
    PROVE  /\ told' \in History /\ told'.opened = o /\ told'.wish = told.wish
           /\ told'.rules = told.rules /\ told'.foreign = told.foreign /\ told'.lost = told.lost
           /\ told'.complete = told.complete
BY DEF History

LEMMA RestoredTyped ==
    ASSUME told \in History, NEW what, Restored(what)
    PROVE  /\ told' \in History /\ told'.opened = told.opened \ {what} /\ told'.wish = told.wish
           /\ told'.rules = told.rules /\ told'.foreign = told.foreign /\ told'.lost = told.lost
           /\ told'.complete = told.complete
<1>1. told.opened \ {what} \in SUBSET (Event \cup {"hooksPath", "signersFile", "config"})
  BY DEF History
<1>2. told' = [told EXCEPT !.opened = told.opened \ {what}]
  BY DEF Restored
<1>3. QED
  BY <1>1, <1>2, OpenedTyped

LEMMA CompleteTyped ==
    ASSUME told \in History, told' = [told EXCEPT !.complete = TRUE]
    PROVE  /\ told' \in History /\ told'.opened = told.opened /\ told'.wish = told.wish
           /\ told'.rules = told.rules /\ told'.foreign = told.foreign /\ told'.lost = told.lost
           /\ told'.complete
BY DEF History

LEMMA AskedTyped ==
    ASSUME told \in History, NEW s \in AllSettings, NEW v \in Values(s) \cup {"unset", "wrong"}
    PROVE  /\ Asked(s, v) \in History
           /\ Asked(s, v).opened = IF Opens(s, v) THEN told.opened \cup {"config"} ELSE told.opened
           /\ Asked(s, v).wish = [told.wish EXCEPT ![s] = v]
           /\ Asked(s, v).rules = told.rules /\ Asked(s, v).foreign = told.foreign
           /\ Asked(s, v).lost = told.lost /\ Asked(s, v).complete = told.complete
<1> DEFINE w == [told.wish EXCEPT ![s] = v]
           o == IF Opens(s, v) THEN told.opened \cup {"config"} ELSE told.opened
<1>1. w \in Tables
  BY TableTyped DEF History
<1>2. o \in SUBSET (Event \cup {"hooksPath", "signersFile", "config"})
  BY DEF History
<1>3. Asked(s, v) = [told EXCEPT !.wish = w, !.opened = o]
  BY DEF Asked, History
<1> HIDE DEF w, o
<1>4. /\ Asked(s, v) \in History /\ Asked(s, v).opened = o /\ Asked(s, v).wish = w
      /\ Asked(s, v).rules = told.rules /\ Asked(s, v).foreign = told.foreign
      /\ Asked(s, v).lost = told.lost /\ Asked(s, v).complete = told.complete
  BY <1>1, <1>2, <1>3 DEF History
<1>5. QED
  BY <1>4 DEF w, o

LEMMA OverlapTyped ==
    ASSUME NEW t \in History, NEW busy \in BOOLEAN, NEW what \in {"config", "ignore"}
    PROVE  /\ Overlap(t, busy, what) \in History
           /\ Overlap(t, busy, what).opened = t.opened /\ Overlap(t, busy, what).wish = t.wish
           /\ Overlap(t, busy, what).rules = t.rules /\ Overlap(t, busy, what).foreign = t.foreign
           /\ Overlap(t, busy, what).complete = t.complete
           /\ Overlap(t, busy, what).lost = IF busy THEN t.lost \cup {what} ELSE t.lost
BY DEF Overlap, History

LEMMA SpendTyped ==
    ASSUME budget \in [acts : 0 .. MaxActs, deaths : 0 .. MaxDeaths], Spend
    PROVE  budget' \in [acts : 0 .. MaxActs, deaths : 0 .. MaxDeaths]
<1>1. budget.acts + 1 \in 0 .. MaxActs
  BY EnforcementAssumption DEF Spend
<1>2. budget' = [budget EXCEPT !.acts = budget.acts + 1]
  BY DEF Spend
<1>3. QED
  BY <1>1, <1>2

LEMMA InitTyped == Init => Typed
<1> SUFFICES ASSUME Init PROVE StateTyped /\ RunTyped
  BY DEF Typed
<1>1. PICK start \in Starts :
          /\ config = start.config /\ hook = start.hook /\ hooksPath = start.hooksPath
          /\ signers = start.signers /\ packages = start.packages /\ ignore = start.ignore
          /\ told = [wish |-> start.config.set, rules |-> start.ignore.rules,
                     foreign |-> ~start.ignore.utf8, lost |-> {},
                     opened |-> IF \E s \in AllSettings : Opens(s, start.config.set[s])
                                THEN {"config"} ELSE {},
                     complete |-> FALSE]
  BY DEF Init
<1>2. /\ config \in Configs /\ hook \in [Event -> Shims] /\ hooksPath \in HooksPaths
      /\ signers \in SignerPolicies /\ packages \in Baselines /\ ignore \in IgnoreFiles
  BY <1>1, StartsAssumption
<1>3. start.config.set \in Tables
  BY <1>1, <1>2, ConfigTyped
<1>4. start.ignore.rules \in Nat /\ (~start.ignore.utf8) \in BOOLEAN
  BY <1>1, <1>2 DEF IgnoreFiles
<1>5. told \in History
  BY <1>1, <1>3, <1>4 DEF History
<1>6. RunTyped
  <2>1. 0 \in 0 .. Len(Events)
    BY EventsAre
  <2>2. QED
    BY <2>1, IdleTyped DEF Init, RunTyped, Idle, AtHook, AtToggle
<1>7. budget \in [acts : 0 .. MaxActs, deaths : 0 .. MaxDeaths]
  BY EnforcementAssumption DEF Init
<1>8. QED
  BY <1>2, <1>5, <1>6, <1>7 DEF Init, StateTyped

LEMMA InitStepTyped == Typed /\ (StartInit \/ InitStep) => Typed'
<1> SUFFICES ASSUME StateTyped, RunTyped, StartInit \/ InitStep PROVE StateTyped' /\ RunTyped'
  BY DEF Typed
<1>1. CASE StartInit
  <2>1. RunTyped'
    BY <1>1, GotoTyped DEF StartInit, At, AtHook, AtToggle
  <2>2. QED
    BY <1>1, <2>1 DEF StartInit, StateTyped, policies, machine
<1>2. CASE CreateConfig
  <2>1. RunTyped'
    BY <1>2, GotoTyped DEF CreateConfig, At, AtHook, AtToggle
  <2>2. config' \in Configs
    BY <1>2, UnsetTyped, FileTyped DEF CreateConfig, StateTyped
  <2>3. QED
    BY <1>2, <2>1, <2>2 DEF CreateConfig, StateTyped, policies, machine
<1>3. CASE WriteDefaults
  <2>1. RunTyped'
    BY <1>3, GotoTyped DEF WriteDefaults, At, AtHook, AtToggle
  <2>2. config' \in Configs /\ told' \in History
    BY <1>3, UnsetTyped, FileTyped, RestoredTyped DEF WriteDefaults, StateTyped
  <2>3. QED
    BY <1>3, <2>1, <2>2 DEF WriteDefaults, StateTyped, policies, machine
<1>4. CASE Discover
  <2>1. CASE Loads
    <3>1. run' = [run EXCEPT !.at = "shim", !.event = 1] /\ read' = read
      BY <1>4, <2>1 DEF Discover
    <3>2. 1 \in 0 .. Len(Events) /\ 1 \in 0 .. 3
      BY EventsAre
    <3>3. run \in Run /\ "shim" \in At
      BY DEF RunTyped, At, AtHook
    <3>4. run'.at = "shim" /\ run'.event = 1 /\ run' \in Run
      BY <3>1, <3>2, <3>3 DEF Run
    <3>5. run'.event \in 0 .. Len(Events) /\ run'.event # 0 /\ run'.at \notin AtToggle
      BY <3>2, <3>4 DEF AtToggle
    <3>6. RunTyped'
      BY <3>1, <3>4, <3>5 DEF RunTyped
    <3>7. QED
      BY <1>4, <3>6 DEF Discover, StateTyped, policies, machine
  <2>2. CASE ~Loads
    BY <1>4, <2>2, EndTyped DEF Discover, StateTyped, policies, machine
  <2>3. QED
    BY <2>1, <2>2
<1>5. ASSUME run.at \in AtHook PROVE run.event \in 1 .. 3 /\ Events[run.event] \in Event
  <2>1. run.event \in 1 .. 3
    BY <1>5, EventsAre DEF RunTyped
  <2>2. QED
    BY <2>1, EventTyped
<1>6. CASE TruncateShim
  <2>1. Events[run.event] \in Event
    BY <1>5, <1>6 DEF TruncateShim, AtHook
  <2>2. hook[Events[run.event]] \in Shims
    BY <2>1 DEF StateTyped
  <2>3. hook' \in [Event -> Shims]
    BY <1>6, <2>1, <2>2 DEF TruncateShim, StateTyped, Shims
  <2>4. RunTyped'
    BY <1>6, GotoTyped DEF TruncateShim, At, AtHook, AtToggle
  <2>5. QED
    BY <1>6, <2>3, <2>4 DEF TruncateShim, StateTyped, policies, machine
<1>7. CASE FillShim
  <2>1. Events[run.event] \in Event
    BY <1>5, <1>7 DEF FillShim, AtHook
  <2>2. hook[Events[run.event]] \in Shims
    BY <2>1 DEF StateTyped
  <2>3. [hook[Events[run.event]] EXCEPT !.body = IF @ = "absent" THEN @ ELSE "ours"] \in Shims
    BY <2>2 DEF Shims
  <2>4. hook' = [hook EXCEPT ![Events[run.event]] =
                    [hook[Events[run.event]] EXCEPT !.body = IF @ = "absent" THEN @ ELSE "ours"]]
    BY <1>7, <2>1, <2>2 DEF FillShim, StateTyped
  <2>5. hook' \in [Event -> Shims]
    BY <2>1, <2>3, <2>4 DEF StateTyped
  <2>6. RunTyped'
    BY <1>7, GotoTyped DEF FillShim, At, AtHook, AtToggle
  <2>7. QED
    BY <1>7, <2>5, <2>6 DEF FillShim, StateTyped, policies, machine
<1>8. CASE Chmod
  <2> DEFINE e == Events[run.event]
  <2>1. run.event \in 1 .. 3 /\ e \in Event
    BY <1>5, <1>8 DEF Chmod, AtHook
  <2>2. CASE hook[e].body = "absent"
    BY <1>8, <2>2, EndTyped DEF Chmod, StateTyped, policies, machine
  <2>3. CASE hook[e].body # "absent"
    <3>1. /\ hook' = [hook EXCEPT ![e].exec = TRUE] /\ read' = read
          /\ told' = [told EXCEPT !.opened = IF hook[e].body = "ours" THEN @ \ {e} ELSE @]
          /\ run' = IF run.event < Len(Events)
                    THEN [run EXCEPT !.at = "shim", !.event = @ + 1]
                    ELSE [run EXCEPT !.at = "hooksPath"]
      BY <1>8, <2>3 DEF Chmod
    <3>2. hook[e] \in Shims
      BY <2>1 DEF StateTyped
    <3>3. [hook[e] EXCEPT !.exec = TRUE] \in Shims
      BY <2>3, <3>2 DEF Shims
    <3>4. hook' \in [Event -> Shims]
      BY <2>1, <3>1, <3>3 DEF StateTyped
    <3>5. told.opened \ {e} \in SUBSET (Event \cup {"hooksPath", "signersFile", "config"})
      BY DEF StateTyped, History
    <3>6. told' \in History
      BY <3>1, <3>5 DEF StateTyped, History
    <3>7. RunTyped'
      <4>1. CASE run.event < Len(Events)
        <5>1. /\ run' = [run EXCEPT !.at = "shim", !.event = run.event + 1]
              /\ run.event + 1 \in 1 .. 3 /\ run.event + 1 \in 0 .. 3
          BY <2>1, <3>1, <4>1, EventsAre
        <5>2. run.event + 1 # 0 /\ run.event + 1 \in 0 .. Len(Events)
          BY <5>1, EventsAre
        <5>3. QED
          BY <3>1, <5>1, <5>2 DEF RunTyped, Run, At, AtHook, AtToggle
      <4>2. CASE ~(run.event < Len(Events))
        BY <3>1, <4>2 DEF RunTyped, Run, At, AtHook, AtToggle
      <4>3. QED
        BY <4>1, <4>2
    <3>8. QED
      BY <1>8, <3>4, <3>6, <3>7 DEF Chmod, StateTyped, policies, machine
  <2>4. QED
    BY <2>2, <2>3
<1>9. CASE SetHooksPath
  <2>1. RunTyped'
    BY <1>9, GotoTyped DEF SetHooksPath, At, AtGit, AtHook, AtToggle
  <2>2. told' \in History
    BY <1>9, RestoredTyped DEF SetHooksPath, StateTyped
  <2>3. QED
    BY <1>9, <2>1, <2>2 DEF SetHooksPath, StateTyped, HooksPaths, policies, machine
<1>10. CASE SetSignersFile
  <2>1. RunTyped'
    BY <1>10, GotoTyped DEF SetSignersFile, At, Late, AtHook, AtToggle
  <2>2. told' \in History
    BY <1>10, RestoredTyped DEF SetSignersFile, StateTyped
  <2>3. QED
    BY <1>10, <2>1, <2>2 DEF SetSignersFile, StateTyped, policies, machine
<1>11. CASE WritePolicies
  <2>1. RunTyped'
    BY <1>11, EndTyped, GotoTyped DEF WritePolicies, At, Late, AtHook, AtToggle
  <2>2. signers' \in SignerPolicies /\ packages' \in Baselines
    BY <1>11 DEF WritePolicies, StateTyped, SignerPolicies, Baselines
  <2>3. QED
    BY <1>11, <2>1, <2>2 DEF WritePolicies, StateTyped, machine
<1>12. CASE ReadIgnore
  <2>1. CASE ignore.ours
    <3>1. told' \in History
      BY <1>12, <2>1, CompleteTyped DEF ReadIgnore, StateTyped
    <3>2. QED
      BY <1>12, <2>1, <3>1, EndTyped DEF ReadIgnore, StateTyped, policies, machine
  <2>2. CASE ~ignore.ours
    <3>1. /\ read' = [read EXCEPT !.ignore = IF ignore.utf8 THEN ignore ELSE NoIgnore]
          /\ Goto("truncate ignore") /\ UNCHANGED told
      BY <1>12, <2>2 DEF ReadIgnore
    <3>2. NoIgnore \in IgnoreFiles
      BY DEF NoIgnore, IgnoreFiles
    <3>3. RunTyped'
      BY <3>1, <3>2 DEF Goto, RunTyped, Run, At, Late, AtHook, AtToggle, StateTyped
    <3>4. QED
      BY <1>12, <3>1, <3>3 DEF ReadIgnore, StateTyped, policies, machine
  <2>3. QED
    BY <2>1, <2>2
<1>13. CASE TruncateIgnore
  <2>1. RunTyped'
    BY <1>13, GotoTyped DEF TruncateIgnore, At, Late, AtHook, AtToggle
  <2>2. QED
    BY <1>13, <2>1 DEF TruncateIgnore, StateTyped, NoIgnore, IgnoreFiles, policies, machine
<1>14. CASE AppendIgnore
  <2>1. told' \in History
    BY <1>14, CompleteTyped DEF AppendIgnore, StateTyped
  <2>2. ignore' \in IgnoreFiles
    BY <1>14 DEF AppendIgnore, RunTyped, IgnoreFiles
  <2>3. QED
    BY <1>14, <2>1, <2>2, EndTyped DEF AppendIgnore, StateTyped, policies, machine
<1>15. QED
  BY <1>1, <1>2, <1>3, <1>4, <1>6, <1>7, <1>8, <1>9, <1>10, <1>11, <1>12, <1>13, <1>14 DEF InitStep

LEMMA ToggleKey ==
    ASSUME NEW c \in Controls, NEW v \in {"on", "off"}
    PROVE  c \in AllSettings /\ v \in Values(c) \cup {"unset", "wrong"}
BY DEF AllSettings, Controls, Values

LEMMA ToggleTyped == Typed /\ (ToggleStep \/ Die) => Typed'
<1> SUFFICES ASSUME StateTyped, RunTyped, ToggleStep \/ Die PROVE StateTyped' /\ RunTyped'
  BY DEF Typed
<1>1. CASE TruncateConfig
  <2>1. RunTyped'
    BY <1>1, GotoTyped DEF TruncateConfig, At, AtHook, AtToggle
  <2>2. QED
    BY <1>1, <2>1, UnsetTyped, FileTyped DEF TruncateConfig, StateTyped, policies, machine
<1>2. CASE FillConfig
  <2>1. run.key \in Controls /\ run.value \in {"on", "off"} /\ read.set \in Tables
    BY <1>2 DEF FillConfig, RunTyped, AtToggle
  <2>2. run.key \in AllSettings /\ run.value \in Values(run.key) \cup {"unset", "wrong"}
    BY <2>1, ToggleKey
  <2>3. config' \in Configs
    BY <1>2, <2>1, <2>2, TableTyped, FileTyped DEF FillConfig
  <2>4. told' \in History
    BY <1>2, <2>2, AskedTyped DEF FillConfig, StateTyped
  <2>5. QED
    BY <1>2, <2>3, <2>4, EndTyped DEF FillConfig, StateTyped, policies, machine
<1>3. CASE Die
  <2>1. budget.deaths + 1 \in 0 .. MaxDeaths
    <3>1. budget.deaths \in 0 .. MaxDeaths /\ budget.deaths < MaxDeaths /\ MaxDeaths \in Nat
      BY <1>3, EnforcementAssumption DEF Die, StateTyped
    <3>2. QED
      BY <3>1
  <2>2. budget' = [budget EXCEPT !.deaths = budget.deaths + 1]
    BY <1>3 DEF Die
  <2>3. budget' \in [acts : 0 .. MaxActs, deaths : 0 .. MaxDeaths]
    BY <2>1, <2>2 DEF StateTyped
  <2>4. PICK what \in SUBSET {"config", "ignore"} : told' = [told EXCEPT !.lost = @ \cup what]
    <3>1. CASE run.at = "fill config"
      BY <1>3, <3>1 DEF Die
    <3>2. CASE run.at = "fill ignore"
      BY <1>3, <3>2 DEF Die
    <3>3. CASE run.at \notin {"fill config", "fill ignore"}
      BY <1>3, <3>3 DEF Die
    <3>4. QED
      BY <3>1, <3>2, <3>3
  <2>5. told' \in History
    BY <2>4 DEF StateTyped, History
  <2>6. QED
    BY <1>3, <2>3, <2>5, EndTyped DEF Die, StateTyped, policies, machine
<1>4. QED
  BY <1>1, <1>2, <1>3 DEF ToggleStep

LEMMA BusyTyped == WritingConfig \in BOOLEAN /\ WritingIgnore \in BOOLEAN
BY DEF WritingConfig, WritingIgnore

LEMMA UserTyped == Typed /\ User => Typed'
<1> SUFFICES ASSUME StateTyped, RunTyped, User PROVE StateTyped' /\ RunTyped'
  BY DEF Typed
<1>1. Spend
  BY DEF User, SaveSetting, StartToggle, EditHook, DeleteConfig, GarbleConfig, PointElsewhere,
         EditPolicies, EditIgnore, ChangeMachine
<1>2. budget' \in [acts : 0 .. MaxActs, deaths : 0 .. MaxDeaths]
  BY <1>1, SpendTyped DEF StateTyped
<1>3. ASSUME NEW s \in Settings, NEW v \in Values(s) \cup {"unset", "wrong"}, SaveSetting(s, v)
      PROVE  StateTyped' /\ RunTyped'
  <2>1. s \in AllSettings
    BY EnforcementAssumption
  <2>2. config.set \in Tables
    BY ConfigTyped DEF StateTyped
  <2>3. config' \in Configs
    BY <1>3, <2>1, <2>2, TableTyped, FileTyped DEF SaveSetting
  <2>4. told' \in History
    BY <1>3, <2>1, AskedTyped, OverlapTyped, BusyTyped DEF SaveSetting, StateTyped
  <2>5. QED
    BY <1>2, <1>3, <2>3, <2>4, RunKept DEF SaveSetting, StateTyped, policies, machine
<1>4. ASSUME NEW c \in Controls, NEW v \in {"on", "off"}, StartToggle(c, v)
      PROVE  StateTyped' /\ RunTyped'
  <2>1. config.set \in Tables
    BY ConfigTyped DEF StateTyped
  <2>2. /\ read' = [read EXCEPT !.set = config.set]
        /\ run' = [run EXCEPT !.at = "truncate config", !.key = c, !.value = v]
    BY <1>4 DEF StartToggle
  <2>3. run' \in Run /\ run'.at = "truncate config" /\ run'.key = c /\ run'.value = v
        /\ run'.event = run.event
    BY <2>2 DEF RunTyped, Run, At, AtToggle
  <2>4. read' \in [set : Tables, ignore : IgnoreFiles]
    BY <2>1, <2>2 DEF RunTyped
  <2>5. RunTyped'
    BY <2>3, <2>4 DEF RunTyped, AtHook
  <2>6. QED
    BY <1>2, <1>4, <2>5 DEF StartToggle, StateTyped, policies, machine
<1>5. ASSUME NEW e \in Edited, EditHook(e) PROVE StateTyped' /\ RunTyped'
  <2>1. e \in Event /\ hook[e] \in Shims
    BY EnforcementAssumption DEF StateTyped
  <2>2. PICK new \in [body : {"edited live", "edited dead", "wrapper", "replaced"}, exec : {hook[e].exec}]
                     \cup {[body |-> "absent", exec |-> FALSE], [hook[e] EXCEPT !.exec = FALSE]} :
            /\ hook' = [hook EXCEPT ![e] = new]
            /\ told' = [told EXCEPT !.opened =
                  IF new.exec /\ new.body \in {"ours", "edited live", "wrapper"} THEN @ ELSE @ \cup {e}]
    BY <1>5 DEF EditHook
  <2>3. new \in Shims
    <3>1. CASE new \in [body : {"edited live", "edited dead", "wrapper", "replaced"},
                        exec : {hook[e].exec}]
      BY <2>1, <3>1 DEF Shims
    <3>2. CASE new = [body |-> "absent", exec |-> FALSE]
      BY <3>2 DEF Shims
    <3>3. CASE new = [hook[e] EXCEPT !.exec = FALSE]
      BY <2>1, <3>3 DEF Shims
    <3>4. QED
      BY <3>1, <3>2, <3>3
  <2>4. hook' \in [Event -> Shims]
    BY <2>1, <2>2, <2>3 DEF StateTyped
  <2>5. told.opened \cup {e} \in SUBSET (Event \cup {"hooksPath", "signersFile", "config"})
    BY <2>1 DEF StateTyped, History
  <2>6. told' \in History
    BY <2>2, <2>5 DEF StateTyped, History
  <2>7. QED
    BY <1>2, <1>5, <2>4, <2>6, RunKept DEF EditHook, StateTyped, policies, machine
<1>6. CASE DeleteConfig
  <2> DEFINE t == [told EXCEPT !.wish = Unset, !.opened = @ \cup {"config"}]
  <2>1. t \in History
    BY UnsetTyped DEF StateTyped, History
  <2>2. told' \in History
    BY <1>6, <2>1, OverlapTyped, BusyTyped DEF DeleteConfig
  <2>3. config' \in Configs
    BY <1>6, UnsetTyped DEF DeleteConfig, Configs
  <2>4. QED
    BY <1>2, <1>6, <2>2, <2>3, RunKept DEF DeleteConfig, StateTyped, policies, machine
<1>7. CASE GarbleConfig
  <2>1. told' \in History
    BY <1>7, OverlapTyped, BusyTyped DEF GarbleConfig, StateTyped
  <2>2. config' \in Configs
    BY <1>7 DEF GarbleConfig, StateTyped, Configs
  <2>3. QED
    BY <1>2, <1>7, <2>1, <2>2, RunKept DEF GarbleConfig, StateTyped, policies, machine
<1>8. CASE PointElsewhere
  <2>1. PICK o \in {told.opened, told.opened \cup {"hooksPath"}, told.opened \cup {"signersFile"}} :
            told' = [told EXCEPT !.opened = o]
    BY <1>8 DEF PointElsewhere, StateTyped, History
  <2>2. o \in SUBSET (Event \cup {"hooksPath", "signersFile", "config"})
    BY DEF StateTyped, History
  <2>3. told' \in History
    BY <2>1, <2>2 DEF StateTyped, History
  <2>4. QED
    BY <1>2, <1>8, <2>3, RunKept DEF PointElsewhere, StateTyped, HooksPaths, policies, machine
<1>9. CASE EditPolicies
  BY <1>2, <1>9, RunKept DEF EditPolicies, StateTyped, SignerPolicies, Baselines, machine
<1>10. CASE EditIgnore
  <2>1. PICK utf8 \in BOOLEAN :
            /\ ignore' = [ignore EXCEPT !.rules = told.rules + 1, !.utf8 = utf8]
            /\ told' = Overlap([told EXCEPT !.rules = @ + 1, !.foreign = @ \/ ~utf8],
                               WritingIgnore, "ignore")
    BY <1>10 DEF EditIgnore
  <2>2. told.rules + 1 \in Nat /\ (told.foreign \/ ~utf8) \in BOOLEAN
    BY DEF StateTyped, History
  <2>3. [told EXCEPT !.rules = @ + 1, !.foreign = @ \/ ~utf8] \in History
    BY <2>2 DEF StateTyped, History
  <2>4. told' \in History
    BY <2>1, <2>3, OverlapTyped, BusyTyped
  <2>5. ignore' \in IgnoreFiles
    BY <2>1, <2>2 DEF StateTyped, IgnoreFiles
  <2>6. QED
    BY <1>2, <1>10, <2>4, <2>5, RunKept DEF EditIgnore, StateTyped, policies, machine
<1>11. CASE ChangeMachine
  BY <1>2, <1>11, RunKept DEF ChangeMachine, StateTyped, policies
<1>12. QED
  BY <1>3, <1>4, <1>5, <1>6, <1>7, <1>8, <1>9, <1>10, <1>11 DEF User

LEMMA NextTyped == Typed /\ [Next]_vars => Typed'
<1>1. Typed /\ UNCHANGED vars => Typed'
  BY DEF Typed, StateTyped, RunTyped, vars, policies, machine
<1>2. QED
  BY <1>1, InitStepTyped, ToggleTyped, UserTyped DEF Next

LEMMA SpecSteps == Spec => Init /\ [][Next]_vars
BY PTL DEF Spec

LEMMA AlwaysTyped == Spec => []Typed
<1>1. Init => Typed
  BY InitTyped
<1>2. Typed /\ [Next]_vars => Typed'
  BY NextTyped
<1>3. QED
  BY <1>1, <1>2, SpecSteps, PTL

\* Every variable of Enforcement has its type, for any settings, repositories
\* and numbers of acts and deaths.
THEOREM TypeCorrect == Spec => []TypeOK
BY AlwaysTyped, TypeFollows, PTL

-----------------------------------------------------------------------------
(***************************************************************************)
(* verify.                                                                 *)
(***************************************************************************)
\* With sound hooks each event asks the gates, of a configuration that loads.
LEMMA SoundHooks ==
    ASSUME Typed, Integrity = "PASS", Loads, NEW e \in Event, NEW gates \in BOOLEAN
    PROVE  Allows(e, gates) <=> cli /\ gates
<1>1. hook[e] \in Shims
  BY DEF Typed, StateTyped
<1>2. hooksPath = "ours" /\ ~Broken(e) /\ ~Drifted(e)
  BY DEF Integrity
<1>3. hook[e].exec /\ hook[e].body = "ours"
  BY <1>1, <1>2 DEF Broken, Drifted, Shims
<1>4. Reaches(e)
  BY <1>2, <1>3 DEF Reaches
<1>5. config.is = "file"
  BY DEF Loads
<1>6. QED
  BY <1>4, <1>5 DEF Allows, Engine

LEMMA VerdictPass ==
    ASSUME NEW c, Verdict(c) = "PASS"
    PROVE  On(c) /\ Integrity = "PASS" /\ Evidence(c) = "PASS"
<1>1. On(c)
  BY DEF Verdict
<1>2. Weakest({Integrity, Evidence(c)}) = "PASS"
  BY <1>1 DEF Verdict
<1>3. Integrity \in {"PASS", "DEGRADED", "FAIL"} /\ Evidence(c) \in {"PASS", "DEGRADED", "FAIL"}
  BY DEF Integrity, Evidence
<1>4. QED
  BY <1>1, <1>2, <1>3 DEF Weakest

LEMMA PassBlocks == Typed => PassEnforces
<1> SUFFICES ASSUME Typed, NEW v \in Violations, Loads, Verdict(ControlOf(v)) = "PASS", ~Unspoken(v)
             PROVE  ~Lands(v)
  BY DEF PassEnforces
<1> DEFINE c == ControlOf(v)
<1>1. On(c) /\ Integrity = "PASS" /\ Evidence(c) = "PASS"
  BY VerdictPass
<1>2. \A e \in Event : \A gates \in BOOLEAN : Allows(e, gates) => gates
  BY <1>1, SoundHooks
<1>3. {"pre-commit", "commit-msg", "pre-push"} = Event
  BY EventsAre
<1>4. CASE v = "secret committed"
  <2>1. c = "secrets"
    BY <1>4 DEF ControlOf
  <2>2. Wanted \subseteq tools
    BY <1>1, <2>1 DEF Evidence
  <2>3. ~PreCommit({"secret"})
    BY <1>1, <1>4, <2>1, <2>2 DEF PreCommit, Scan, Unspoken
  <2>4. ~CommitLands({"secret"})
    BY <1>2, <1>3, <2>3 DEF CommitLands, PreCommit
  <2>5. QED
    BY <1>4, <2>4 DEF Lands
<1>5. CASE v = "secret pushed"
  <2>1. c = "secrets"
    BY <1>5 DEF ControlOf
  <2>2. Wanted \subseteq tools
    BY <1>1, <2>1 DEF Evidence
  <2>3. ~PrePush("topic", "human", {"secret"})
    BY <1>1, <1>5, <2>1, <2>2 DEF PrePush, Scan, Unspoken
  <2>4. ~PushLands("topic", "human", {"secret"})
    BY <1>2, <1>3, <2>3 DEF PushLands, PrePush
  <2>5. QED
    BY <1>5, <2>4 DEF Lands
<1>6. ASSUME NEW fault, ~CommitMsg({fault}) PROVE ~CommitLands({fault})
  BY <1>2, <1>3, <1>6 DEF CommitLands, CommitMsg
<1>7. CASE v = "trailers missing"
  <2>1. c = "ai-trailers"
    BY <1>7 DEF ControlOf
  <2>2. ~CommitMsg({"trailers"})
    BY <1>1, <2>1 DEF CommitMsg
  <2>3. QED
    BY <1>6, <1>7, <2>2 DEF Lands
<1>8. CASE v = "manifest unreviewed"
  <2>1. c = "ai-dep-gate"
    BY <1>8 DEF ControlOf
  <2>2. ~CommitMsg({"manifest"})
    BY <1>1, <2>1 DEF CommitMsg
  <2>3. QED
    BY <1>6, <1>8, <2>2 DEF Lands
<1>9. CASE v = "package unapproved"
  <2>1. c = "package-trust"
    BY <1>9 DEF ControlOf
  <2>2. packages = "good"
    BY <1>1, <2>1 DEF Evidence
  <2>3. ~CommitMsg({"package"})
    BY <1>1, <2>1, <2>2 DEF CommitMsg, PackageTrust
  <2>4. QED
    BY <1>6, <1>9, <2>3 DEF Lands
<1>10. ASSUME NEW branch, NEW by, Protected(branch), On("commit-signing"), ~KnownToGit(by)
       PROVE  ~PushLands(branch, by, {})
  BY <1>2, <1>3, <1>10 DEF PushLands, PrePush, SigningCheck
<1>11. CASE v \in {"unsigned on main", "stranger on main", "unsigned on release"}
  <2>1. c = "commit-signing"
    BY <1>11 DEF ControlOf
  <2>2. CASE v = "unsigned on main"
    BY <1>1, <1>10, <2>1, <2>2 DEF Unspoken, KnownToGit, Lands
  <2>3. CASE v = "stranger on main"
    BY <1>1, <1>10, <2>1, <2>3 DEF Unspoken, KnownToGit, Lands
  <2>4. CASE v = "unsigned on release"
    BY <1>1, <1>10, <2>1, <2>4 DEF Unspoken, KnownToGit, Lands
  <2>5. QED
    BY <1>11, <2>2, <2>3, <2>4
<1>12. QED
  BY <1>4, <1>5, <1>7, <1>8, <1>9, <1>11 DEF Violations

\* A control that verify passes is enforced, in every state the repository can
\* come to (hooks.rs hook_integrity and the verifiers against the hooks).
THEOREM VerdictsEnforce == Spec => []PassEnforces
BY AlwaysTyped, PassBlocks, PTL

LEMMA StrictLands == Typed => CleanLands
<1> SUFFICES ASSUME Typed, StrictSuccess, ~WorkBlocked
             PROVE  CommitLands({}) /\ PushLands("main", "human", {})
  BY DEF CleanLands
<1>1. cli /\ Loads
  BY DEF StrictSuccess, WorkBlocked
<1>2. ASSUME NEW c \in Controls, On(c) PROVE Integrity = "PASS" /\ Evidence(c) = "PASS"
  <2>1. Verdict(c) = Weakest({Integrity, Evidence(c)})
    BY <1>2 DEF Verdict
  <2>2. Verdict(c) = "PASS"
    BY <2>1 DEF StrictSuccess, Weakest
  <2>3. QED
    BY <2>2, VerdictPass
<1>3. ASSUME NEW e \in Event, NEW gates, gates PROVE Allows(e, gates)
  BY <1>1, <1>3 DEF Allows, Engine
<1>4. On("secrets") => Wanted \subseteq tools /\ (Wanted = {} => On("fail_open"))
  BY <1>2 DEF Controls, Evidence, WorkBlocked
<1>5. On("package-trust") => packages = "good"
  BY <1>2 DEF Controls, Evidence
<1>6. PreCommit({})
  BY <1>4 DEF PreCommit, Scan
<1>7. CommitMsg({})
  BY <1>5 DEF CommitMsg, PackageTrust
<1>8. PrePush("main", "human", {})
  BY <1>4 DEF PrePush, Scan, SigningCheck, KnownToGit, WorkBlocked
<1>9. QED
  BY <1>3, <1>6, <1>7, <1>8, EventsAre DEF CommitLands, PushLands

\* After `verify --strict` succeeds sound work gets through, in every state the
\* repository can come to (the hooks against cmd_verify), unless it is one of
\* those verify does not see.
THEOREM StrictLetsThrough == Spec => []CleanLands
BY AlwaysTyped, StrictLands, PTL

-----------------------------------------------------------------------------
(***************************************************************************)
(* The user's edits.                                                       *)
(***************************************************************************)
LEMMA EditsAside ==
    ASSUME EditsInv, UNCHANGED <<config, ignore>>,
           told'.wish = told.wish, told'.rules = told.rules, told'.foreign = told.foreign,
           told.lost \subseteq told'.lost,
           \/ /\ run.at \notin {"fill config", "fill ignore"}
              /\ run'.at \notin {"default config", "truncate ignore", "fill ignore"} \cup AtToggle
           \/ UNCHANGED <<run, read>>
    PROVE  EditsInv'
BY DEF EditsInv, ConfigKept, IgnoreKept, AtToggle

LEMMA InitEdits == Init => EditsInv
<1> SUFFICES ASSUME Init PROVE EditsInv
  OBVIOUS
<1>1. PICK start \in Starts :
          /\ config = start.config /\ ignore = start.ignore
          /\ told = [wish |-> start.config.set, rules |-> start.ignore.rules,
                     foreign |-> ~start.ignore.utf8, lost |-> {},
                     opened |-> IF \E s \in AllSettings : Opens(s, start.config.set[s])
                                THEN {"config"} ELSE {},
                     complete |-> FALSE]
  BY DEF Init
<1>2. told.wish = config.set /\ told.rules = ignore.rules /\ told.foreign = ~ignore.utf8
  BY <1>1
<1>3. run.at = "idle"
  BY IdleTyped DEF Init
<1>4. QED
  BY <1>2, <1>3 DEF EditsInv, ConfigKept, IgnoreKept, AtToggle

LEMMA EditsByInit == Typed /\ EditsInv /\ (StartInit \/ InitStep) => EditsInv'
<1> SUFFICES ASSUME RunTyped, told \in History, config \in Configs, ignore \in IgnoreFiles, EditsInv,
                    StartInit \/ InitStep
             PROVE  EditsInv'
  BY DEF Typed, StateTyped
<1>1. CASE StartInit
  <2>1. run'.at = "config" /\ run.at = "idle" /\ UNCHANGED <<config, ignore, told>>
    BY <1>1, GotoTyped DEF StartInit, At, AtHook, AtToggle
  <2>2. QED
    BY <2>1, EditsAside DEF AtToggle
<1>2. CASE CreateConfig
  <2>1. CASE config.is = "absent"
    <3>1. /\ run.at = "config" /\ Goto("default config") /\ UNCHANGED <<ignore, told, read>>
          /\ config' = [is |-> "file", set |-> Unset]
      BY <1>2, <2>1 DEF CreateConfig
    <3>2. run'.at = "default config"
      BY <3>1, GotoTyped DEF At, AtHook, AtToggle
    <3>3. config.set = Unset /\ config'.set = Unset
      BY <2>1, <3>1, ConfigTyped
    <3>4. QED
      BY <3>1, <3>2, <3>3 DEF EditsInv, ConfigKept, IgnoreKept, AtToggle
  <2>2. CASE config.is # "absent"
    <3>1. run.at = "config" /\ Goto("discover") /\ UNCHANGED <<config, ignore, told, read>>
      BY <1>2, <2>2 DEF CreateConfig
    <3>2. run'.at = "discover"
      BY <3>1, GotoTyped DEF At, AtHook, AtToggle
    <3>3. QED
      BY <3>1, <3>2, EditsAside DEF AtToggle
  <2>3. QED
    BY <2>1, <2>2
<1>3. CASE WriteDefaults
  <2>1. run'.at = "discover" /\ run.at = "default config"
    BY <1>3, GotoTyped DEF WriteDefaults, At, AtHook, AtToggle
  <2>2. config'.set = Unset /\ UNCHANGED <<ignore, read>>
    BY <1>3 DEF WriteDefaults
  <2>3. /\ told'.wish = told.wish /\ told'.rules = told.rules /\ told'.foreign = told.foreign
        /\ told'.lost = told.lost
    BY <1>3, RestoredTyped DEF WriteDefaults
  <2>4. QED
    BY <2>1, <2>2, <2>3 DEF EditsInv, ConfigKept, IgnoreKept, AtToggle
<1>4. CASE Discover
  <2>1. run'.at \in {"shim", "idle"} /\ run.at = "discover" /\ UNCHANGED <<config, ignore, told>>
    BY <1>4, EndTyped DEF Discover, RunTyped, Run
  <2>2. QED
    BY <2>1, EditsAside DEF AtToggle
<1>5. CASE TruncateShim \/ FillShim
  <2>1. /\ run'.at \in {"fill shim", "chmod"} /\ run.at \in AtHook
        /\ UNCHANGED <<config, ignore, told>>
    BY <1>5, GotoTyped DEF TruncateShim, FillShim, At, AtHook, AtToggle
  <2>2. QED
    BY <2>1, EditsAside DEF AtToggle, AtHook
<1>6. CASE Chmod
  <2>1. run'.at \in {"shim", "hooksPath", "idle"} /\ run.at = "chmod" /\ UNCHANGED <<config, ignore>>
    BY <1>6, EndTyped DEF Chmod, RunTyped, Run
  <2>2. /\ told'.wish = told.wish /\ told'.rules = told.rules /\ told'.foreign = told.foreign
        /\ told'.lost = told.lost
    BY <1>6 DEF Chmod, History
  <2>3. QED
    BY <2>1, <2>2, EditsAside DEF AtToggle
<1>7. CASE SetHooksPath \/ SetSignersFile
  <2>1. run'.at \in {"signersFile", "policies"} /\ run.at \in {"hooksPath", "signersFile"}
    BY <1>7, GotoTyped DEF SetHooksPath, SetSignersFile, At, AtGit, Late, AtHook, AtToggle
  <2>2. /\ told'.wish = told.wish /\ told'.rules = told.rules /\ told'.foreign = told.foreign
        /\ told'.lost = told.lost
    BY <1>7, RestoredTyped DEF SetHooksPath, SetSignersFile
  <2>3. QED
    BY <1>7, <2>1, <2>2, EditsAside DEF SetHooksPath, SetSignersFile, AtToggle
<1>8. CASE WritePolicies
  <2>1. run'.at \in {"ignore", "idle"} /\ run.at = "policies" /\ UNCHANGED <<config, ignore, told>>
    BY <1>8, GotoTyped, EndTyped DEF WritePolicies, At, Late, AtHook, AtToggle
  <2>2. QED
    BY <2>1, EditsAside DEF AtToggle
<1>9. CASE ReadIgnore
  <2>1. CASE ignore.ours
    <3>1. run'.at = "idle" /\ run.at = "ignore" /\ UNCHANGED <<config, ignore>>
      BY <1>9, <2>1, EndTyped DEF ReadIgnore
    <3>2. /\ told'.wish = told.wish /\ told'.rules = told.rules /\ told'.foreign = told.foreign
          /\ told'.lost = told.lost
      BY <1>9, <2>1, CompleteTyped DEF ReadIgnore
    <3>3. QED
      BY <3>1, <3>2, EditsAside DEF AtToggle
  <2>2. CASE ~ignore.ours
    <3>1. /\ run'.at = "truncate ignore" /\ run.at = "ignore" /\ UNCHANGED <<config, ignore, told>>
          /\ read'.ignore = IF ignore.utf8 THEN ignore ELSE NoIgnore
      BY <1>9, <2>2 DEF ReadIgnore, Goto, RunTyped, Run
    <3>2. read'.ignore.utf8
      <4>1. CASE ignore.utf8
        BY <3>1, <4>1
      <4>2. CASE ~ignore.utf8
        <5>1. read'.ignore = NoIgnore
          BY <3>1, <4>2
        <5>2. QED
          BY <5>1 DEF NoIgnore
      <4>3. QED
        BY <4>1, <4>2
    <3>3. QED
      BY <3>1, <3>2 DEF EditsInv, ConfigKept, IgnoreKept, AtToggle
  <2>3. QED
    BY <2>1, <2>2
<1>10. CASE TruncateIgnore
  <2>1. /\ run'.at = "fill ignore" /\ run.at = "truncate ignore" /\ UNCHANGED <<config, told, read>>
        /\ ignore'.utf8
    BY <1>10, GotoTyped DEF TruncateIgnore, NoIgnore, At, Late, AtHook, AtToggle
  <2>2. QED
    BY <2>1 DEF EditsInv, ConfigKept, IgnoreKept, AtToggle
<1>11. CASE AppendIgnore
  <2>1. run'.at = "idle" /\ run.at = "fill ignore" /\ UNCHANGED config
    BY <1>11, EndTyped DEF AppendIgnore
  <2>2. /\ told'.wish = told.wish /\ told'.rules = told.rules /\ told'.foreign = told.foreign
        /\ told'.lost = told.lost
    BY <1>11, CompleteTyped DEF AppendIgnore
  <2>3. read.ignore \in IgnoreFiles /\ ignore' = [read.ignore EXCEPT !.ours = TRUE]
    BY <1>11 DEF AppendIgnore, RunTyped
  <2>4. ignore'.rules = read.ignore.rules /\ ignore'.utf8 = read.ignore.utf8
    BY <2>3 DEF IgnoreFiles
  <2>5. QED
    BY <2>1, <2>2, <2>3, <2>4 DEF EditsInv, ConfigKept, IgnoreKept, AtToggle
<1>12. QED
  BY <1>1, <1>2, <1>3, <1>4, <1>5, <1>6, <1>7, <1>8, <1>9, <1>10, <1>11 DEF InitStep

LEMMA EditsByToggle == Typed /\ EditsInv /\ (ToggleStep \/ Die) => EditsInv'
<1> SUFFICES ASSUME RunTyped, told \in History, config \in Configs, ignore \in IgnoreFiles, EditsInv,
                    ToggleStep \/ Die
             PROVE  EditsInv'
  BY DEF Typed, StateTyped
<1>1. CASE TruncateConfig
  <2>1. /\ run'.at = "fill config" /\ run.at = "truncate config" /\ UNCHANGED <<ignore, told, read>>
    BY <1>1, GotoTyped DEF TruncateConfig, At, AtHook, AtToggle
  <2>2. QED
    BY <2>1 DEF EditsInv, ConfigKept, IgnoreKept, AtToggle
<1>2. CASE FillConfig
  <2>1. run.key \in Controls /\ run.value \in {"on", "off"}
    BY <1>2 DEF FillConfig, RunTyped, AtToggle
  <2>2. run.key \in AllSettings /\ run.value \in Values(run.key) \cup {"unset", "wrong"}
    BY <2>1, ToggleKey
  <2>3. /\ told'.wish = [told.wish EXCEPT ![run.key] = run.value] /\ told'.rules = told.rules
        /\ told'.foreign = told.foreign /\ told'.lost = told.lost
    BY <1>2, <2>2, AskedTyped DEF FillConfig
  <2>4. /\ config'.set = [read.set EXCEPT ![run.key] = run.value] /\ run.at = "fill config"
        /\ run'.at = "idle" /\ UNCHANGED ignore
    BY <1>2, EndTyped DEF FillConfig
  <2>5. QED
    BY <2>3, <2>4 DEF EditsInv, ConfigKept, IgnoreKept, AtToggle
<1>3. CASE Die
  <2>1. run'.at = "idle" /\ UNCHANGED <<config, ignore>>
    BY <1>3, EndTyped DEF Die
  <2>2. PICK what \in SUBSET {"config", "ignore"} :
            /\ told' = [told EXCEPT !.lost = @ \cup what]
            /\ run.at = "fill config" => "config" \in what
            /\ run.at = "fill ignore" => "ignore" \in what
    <3>1. CASE run.at = "fill config"
      <4>1. told' = [told EXCEPT !.lost = @ \cup {"config"}]
        BY <1>3, <3>1 DEF Die
      <4>2. QED
        BY <3>1, <4>1
    <3>2. CASE run.at = "fill ignore"
      <4>1. told' = [told EXCEPT !.lost = @ \cup {"ignore"}]
        BY <1>3, <3>2 DEF Die
      <4>2. QED
        BY <3>2, <4>1
    <3>3. CASE run.at \notin {"fill config", "fill ignore"}
      <4>1. told' = [told EXCEPT !.lost = @ \cup {}]
        BY <1>3, <3>3 DEF Die
      <4>2. {} \in SUBSET {"config", "ignore"}
        OBVIOUS
      <4>3. QED
        BY <3>3, <4>1, <4>2
    <3>4. QED
      BY <3>1, <3>2, <3>3
  <2>3. /\ told'.wish = told.wish /\ told'.rules = told.rules /\ told'.foreign = told.foreign
        /\ told'.lost = told.lost \cup what
    BY <2>2 DEF History
  <2>4. QED
    BY <2>1, <2>2, <2>3 DEF EditsInv, ConfigKept, IgnoreKept, AtToggle
<1>4. QED
  BY <1>1, <1>2, <1>3 DEF ToggleStep

LEMMA EditsByUser == Typed /\ EditsInv /\ User => EditsInv'
<1> SUFFICES ASSUME RunTyped, told \in History, config \in Configs, ignore \in IgnoreFiles, EditsInv,
                    User
             PROVE  EditsInv'
  BY DEF Typed, StateTyped
\* What is saved while a command writes is lost without blame.
<1>1. ASSUME NEW t \in History, told' = Overlap(t, WritingConfig, "config"),
             t.wish = config'.set \/ (t.wish = told.wish /\ config'.set = config.set),
             t.rules = told.rules, t.foreign = told.foreign, t.lost = told.lost,
             UNCHANGED <<ignore, run, read>>
      PROVE  EditsInv'
  <2>1. /\ told'.wish = t.wish /\ told'.rules = told.rules /\ told'.foreign = told.foreign
        /\ told'.lost = IF WritingConfig THEN told.lost \cup {"config"} ELSE told.lost
    BY <1>1, OverlapTyped, BusyTyped
  <2>2. ~WritingConfig => run.at \notin AtToggle \cup {"default config"}
    BY DEF WritingConfig, AtToggle
  <2>3. IgnoreKept'
    BY <1>1, <2>1 DEF EditsInv, IgnoreKept
  <2>4. ConfigKept'
    BY <1>1, <2>1, <2>2 DEF EditsInv, ConfigKept, AtToggle
  <2>5. QED
    BY <2>3, <2>4 DEF EditsInv
<1>2. ASSUME NEW s \in Settings, NEW v \in Values(s) \cup {"unset", "wrong"}, SaveSetting(s, v)
      PROVE  EditsInv'
  <2>1. s \in AllSettings
    BY EnforcementAssumption
  <2>2. /\ Asked(s, v) \in History /\ Asked(s, v).wish = [told.wish EXCEPT ![s] = v]
        /\ Asked(s, v).rules = told.rules /\ Asked(s, v).foreign = told.foreign
        /\ Asked(s, v).lost = told.lost
    BY <2>1, AskedTyped
  <2>3. /\ config'.set = [config.set EXCEPT ![s] = v] /\ UNCHANGED <<ignore, run, read>>
        /\ told' = Overlap(Asked(s, v), WritingConfig, "config")
    BY <1>2 DEF SaveSetting
  <2>4. CASE config.set = told.wish
    BY <1>1, <2>2, <2>3, <2>4
  <2>5. CASE config.set # told.wish
    <3>1. run.at = "fill config" \/ "config" \in told.lost
      BY <2>5 DEF EditsInv, ConfigKept
    <3>2. /\ told'.rules = told.rules /\ told'.foreign = told.foreign
          /\ told'.lost = IF WritingConfig THEN told.lost \cup {"config"} ELSE told.lost
      BY <2>2, <2>3, OverlapTyped, BusyTyped
    <3>3. "config" \in told'.lost
      BY <3>1, <3>2 DEF WritingConfig
    <3>4. QED
      BY <2>3, <3>2, <3>3 DEF EditsInv, ConfigKept, IgnoreKept
  <2>6. QED
    BY <2>4, <2>5
<1>3. ASSUME NEW c \in Controls, NEW v \in {"on", "off"}, StartToggle(c, v) PROVE EditsInv'
  <2>1. /\ run'.at = "truncate config" /\ run.at = "idle" /\ read'.set = config.set
        /\ UNCHANGED <<config, ignore, told>>
    BY <1>3 DEF StartToggle, RunTyped, Run
  <2>2. QED
    BY <2>1 DEF EditsInv, ConfigKept, IgnoreKept, AtToggle
<1>4. ASSUME NEW o, told' = [told EXCEPT !.opened = o], UNCHANGED <<config, ignore, run, read>>
      PROVE  EditsInv'
  <2>1. /\ told'.wish = told.wish /\ told'.rules = told.rules /\ told'.foreign = told.foreign
        /\ told'.lost = told.lost
    BY <1>4 DEF History
  <2>2. QED
    BY <1>4, <2>1, EditsAside
<1>5. ASSUME NEW e \in Edited, EditHook(e) PROVE EditsInv'
  <2>1. PICK new \in [body : {"edited live", "edited dead", "wrapper", "replaced"}, exec : {hook[e].exec}]
                     \cup {[body |-> "absent", exec |-> FALSE], [hook[e] EXCEPT !.exec = FALSE]} :
            told' = [told EXCEPT !.opened =
                IF new.exec /\ new.body \in {"ours", "edited live", "wrapper"} THEN @ ELSE @ \cup {e}]
    BY <1>5 DEF EditHook
  <2>2. QED
    BY <1>4, <1>5, <2>1 DEF EditHook
<1>6. CASE DeleteConfig
  <2> DEFINE t == [told EXCEPT !.wish = Unset, !.opened = @ \cup {"config"}]
  <2>1. /\ t \in History /\ t.wish = Unset /\ t.rules = told.rules /\ t.foreign = told.foreign
        /\ t.lost = told.lost
    BY UnsetTyped DEF History
  <2>2. /\ told' = Overlap(t, WritingConfig, "config") /\ config'.set = Unset
        /\ UNCHANGED <<ignore, run, read>>
    BY <1>6 DEF DeleteConfig
  <2> HIDE DEF t
  <2>3. QED
    BY <1>1, <2>1, <2>2
<1>7. CASE GarbleConfig
  <2>1. /\ told' = Overlap(told, WritingConfig, "config") /\ config'.set = config.set
        /\ UNCHANGED <<ignore, run, read>>
    BY <1>7 DEF GarbleConfig, Configs
  <2>2. QED
    BY <1>1, <2>1
<1>8. CASE PointElsewhere
  <2>1. PICK o \in {told.opened, told.opened \cup {"hooksPath"}, told.opened \cup {"signersFile"}} :
            told' = [told EXCEPT !.opened = o]
    BY <1>8 DEF PointElsewhere, History
  <2>2. QED
    BY <1>4, <1>8, <2>1 DEF PointElsewhere
<1>9. CASE EditPolicies \/ ChangeMachine
  BY <1>9, EditsAside DEF EditPolicies, ChangeMachine
<1>10. CASE EditIgnore
  <2>1. PICK utf8 \in BOOLEAN :
            /\ ignore' = [ignore EXCEPT !.rules = told.rules + 1, !.utf8 = utf8]
            /\ told' = Overlap([told EXCEPT !.rules = @ + 1, !.foreign = @ \/ ~utf8],
                               WritingIgnore, "ignore")
    BY <1>10 DEF EditIgnore
  <2> DEFINE t == [told EXCEPT !.rules = @ + 1, !.foreign = @ \/ ~utf8]
  <2>2. told.rules + 1 \in Nat /\ (told.foreign \/ ~utf8) \in BOOLEAN
    BY DEF History
  <2>3. /\ t \in History /\ t.wish = told.wish /\ t.rules = told.rules + 1
        /\ t.foreign = (told.foreign \/ ~utf8) /\ t.lost = told.lost
    BY <2>2 DEF History
  <2>4. told' = Overlap(t, WritingIgnore, "ignore")
    BY <2>1
  <2> HIDE DEF t
  <2>5. /\ told'.wish = told.wish /\ told'.rules = told.rules + 1
        /\ told'.foreign = (told.foreign \/ ~utf8)
        /\ told'.lost = IF WritingIgnore THEN told.lost \cup {"ignore"} ELSE told.lost
    BY <2>3, <2>4, OverlapTyped, BusyTyped
  <2>6. ignore'.rules = told.rules + 1 /\ ignore'.utf8 = utf8
    BY <2>1 DEF IgnoreFiles
  <2>7. UNCHANGED <<config, run, read>>
    BY <1>10 DEF EditIgnore
  <2>8. ~WritingIgnore => run.at \notin {"truncate ignore", "fill ignore"}
    BY DEF WritingIgnore
  <2>9. QED
    BY <2>5, <2>6, <2>7, <2>8 DEF EditsInv, ConfigKept, IgnoreKept
<1>11. QED
  BY <1>2, <1>3, <1>5, <1>6, <1>7, <1>8, <1>9, <1>10 DEF User

LEMMA AlwaysEdits == Spec => [](Typed /\ EditsInv)
<1>1. Init => Typed /\ EditsInv
  BY InitTyped, InitEdits
<1>2. (Typed /\ EditsInv) /\ [Next]_vars => (Typed /\ EditsInv)'
  <2>1. EditsInv /\ UNCHANGED vars => EditsInv'
    BY DEF vars, EditsInv, ConfigKept, IgnoreKept
  <2>2. QED
    BY <2>1, NextTyped, EditsByInit, EditsByToggle, EditsByUser DEF Next
<1>3. QED
  BY <1>1, <1>2, SpecSteps, PTL

\* What the user set and what .gitignore said survive every command, for any
\* settings, acts and deaths, but for the losses named ("Enable/disable edits
\* preserve user comments", config.rs; "Appended, never rewritten", init.rs).
THEOREM UserEditsSurvive == Spec => []EditsSurvive
<1>1. Typed /\ EditsInv => EditsSurvive
  BY DEF EditsInv, ConfigKept, IgnoreKept, EditsSurvive
<1>2. QED
  BY <1>1, AlwaysEdits, PTL

-----------------------------------------------------------------------------
(***************************************************************************)
(* The gates fail closed: the hooks.                                       *)
(***************************************************************************)
LEMMA HookAt == ASSUME RunTyped, run.at \in AtHook
                PROVE  run.event \in 1 .. 3 /\ Events[run.event] \in Event
<1>1. run.event \in 1 .. 3
  BY EventsAre DEF RunTyped
<1>2. QED
  BY <1>1, EventTyped

LEMMA HooksAside ==
    ASSUME RunTyped, HooksStand, UNCHANGED hook, \A e \in Event : e \in told.opened => e \in told'.opened,
           \/ /\ told'.complete => told.complete
              /\ run'.at \in {"idle", "config", "default config", "discover"} \cup AtToggle
           \/ /\ run.at \in {"hooksPath"} \cup AtGit \cup Late
              /\ run'.at \notin {"fill shim", "chmod"}
           \/ UNCHANGED run /\ (told'.complete => told.complete)
    PROVE  HooksStand'
<1>1. ASSUME NEW e \in Event, e \notin told'.opened, Past(e)'
      PROVE  hook'[e].exec /\ hook'[e].body \in Live \cup {"empty"}
  <2>1. Past(e)
    BY <1>1 DEF Past, AtHook, AtGit, Late, AtToggle
  <2>2. QED
    BY <1>1, <2>1 DEF HooksStand
<1>2. run'.at \in {"fill shim", "chmod"} => UNCHANGED run
  BY DEF AtToggle
<1>3. run'.at \in {"fill shim", "chmod"} /\ Events[run'.event] \notin told'.opened =>
          hook'[Events[run'.event]].body \in Live \cup {"empty"}
  <2>1. SUFFICES ASSUME run'.at \in {"fill shim", "chmod"}, Events[run'.event] \notin told'.opened
                 PROVE  hook'[Events[run'.event]].body \in Live \cup {"empty"}
    OBVIOUS
  <2>2. UNCHANGED run
    BY <1>2, <2>1
  <2>3. Events[run.event] \in Event
    BY <2>1, <2>2, HookAt DEF AtHook
  <2>4. QED
    BY <2>1, <2>2, <2>3 DEF HooksStand
<1>4. QED
  BY <1>1, <1>3 DEF HooksStand

\* While a shim is written the events before it are past, and it may be itself.
LEMMA HooksByShims ==
    ASSUME Typed, HooksStand, TruncateShim \/ FillShim \/ Chmod PROVE HooksStand'
<1> DEFINE e == Events[run.event]
<1>0. run.at \in AtHook /\ RunTyped /\ hook \in [Event -> Shims] /\ told \in History /\ run \in Run
  BY DEF Typed, StateTyped, RunTyped, TruncateShim, FillShim, Chmod, AtHook
<1>1. run.event \in 1 .. 3 /\ e \in Event
  BY <1>0, HookAt
<1>2. hook[e] \in Shims
  BY <1>0, <1>1
<1>3. ASSUME TruncateShim \/ FillShim PROVE HooksStand'
  <2>1. run'.event = run.event /\ run'.at \in {"fill shim", "chmod"} /\ UNCHANGED told
    BY <1>0, <1>3 DEF TruncateShim, FillShim, Goto, Run
  <2>2. \A d \in Event : Past(d)' => Past(d)
    BY <1>0, <2>1 DEF Past, AtHook, AtGit, Late
  <2>3. \A d \in Event : d # e => hook'[d] = hook[d]
    BY <1>0, <1>1, <1>3 DEF TruncateShim, FillShim
  <2>4. e \notin told.opened => hook'[e].body \in {"empty", "ours"}
    <3>1. CASE TruncateShim
      BY <1>0, <1>1, <3>1 DEF TruncateShim
    <3>2. CASE FillShim
      <4>1. e \notin told.opened => hook[e].body # "absent"
        BY <3>2 DEF FillShim, HooksStand, Live
      <4>2. hook'[e].body = IF hook[e].body = "absent" THEN hook[e].body ELSE "ours"
        BY <1>0, <1>1, <1>2, <3>2 DEF FillShim, Shims
      <4>3. QED
        BY <4>1, <4>2
    <3>3. QED
      BY <1>3, <3>1, <3>2
  <2>5. e \notin told.opened /\ Past(e) => hook'[e].exec
    <3>1. e \notin told.opened /\ Past(e) => hook[e].exec /\ hook[e].body # "absent"
      BY <1>1 DEF HooksStand, Live
    <3>2. hook[e].exec /\ hook[e].body # "absent" => hook'[e].exec
      <4>1. CASE TruncateShim
        BY <1>0, <1>1, <4>1 DEF TruncateShim
      <4>2. CASE FillShim
        BY <1>0, <1>1, <1>2, <4>2 DEF FillShim, Shims
      <4>3. QED
        BY <1>3, <4>1, <4>2
    <3>3. QED
      BY <3>1, <3>2
  <2>6. ASSUME NEW d \in Event, d \notin told'.opened, Past(d)'
        PROVE  hook'[d].exec /\ hook'[d].body \in Live \cup {"empty"}
    <3>1. CASE d = e
      BY <2>1, <2>2, <2>4, <2>5, <2>6, <3>1 DEF Live
    <3>2. CASE d # e
      BY <2>1, <2>2, <2>3, <2>6, <3>2 DEF HooksStand
    <3>3. QED
      BY <3>1, <3>2
  <2>7. Events[run'.event] \notin told'.opened =>
            hook'[Events[run'.event]].body \in Live \cup {"empty"}
    BY <2>1, <2>4 DEF Live
  <2>8. QED
    BY <2>6, <2>7 DEF HooksStand
<1>4. ASSUME Chmod, hook[e].body = "absent" PROVE HooksStand'
  <2>1. run'.at = "idle" /\ UNCHANGED <<hook, told>>
    BY <1>4, EndTyped DEF Chmod
  <2>2. QED
    BY <1>0, <2>1, HooksAside
<1>5. ASSUME Chmod, hook[e].body # "absent" PROVE HooksStand'
  <2>1. /\ hook' = [hook EXCEPT ![e].exec = TRUE]
        /\ told' = [told EXCEPT !.opened = IF hook[e].body = "ours" THEN @ \ {e} ELSE @]
        /\ run' = IF run.event < Len(Events) THEN [run EXCEPT !.at = "shim", !.event = @ + 1]
                                             ELSE [run EXCEPT !.at = "hooksPath"]
        /\ run.at = "chmod"
    BY <1>5 DEF Chmod
  <2>2. /\ told'.opened = IF hook[e].body = "ours" THEN told.opened \ {e} ELSE told.opened
        /\ told'.complete = told.complete
    BY <1>0, <2>1 DEF History
  <2>3. hook'[e].exec /\ hook'[e].body = hook[e].body /\ \A d \in Event : d # e => hook'[d] = hook[d]
    BY <1>0, <1>1, <1>2, <2>1 DEF Shims
  <2>4. e \notin told'.opened => hook[e].body \in Live \cup {"empty"}
    BY <2>1, <2>2 DEF HooksStand, Live
  <2>5. ASSUME NEW d \in Event, d # e, Past(d)' PROVE Past(d)
    <3>1. PICK i \in 1 .. 3 : Events[i] = d
      BY EventsAre
    <3>2. i # run.event
      BY <2>5, <3>1
    <3>3. CASE run.event < 3
      <4>1. run' = [run EXCEPT !.at = "shim", !.event = run.event + 1]
        BY <2>1, <3>3, EventsAre
      <4>2. run'.at = "shim" /\ run'.event = run.event + 1
        BY <1>0, <4>1 DEF Run
      <4>3. told.complete \/ \E j \in DOMAIN Events : j < run.event + 1 /\ Events[j] = d
        BY <2>2, <2>5, <4>2 DEF Past, AtHook, AtGit, Late
      <4>4. CASE told.complete
        BY <4>4 DEF Past
      <4>5. ASSUME NEW j \in DOMAIN Events, j < run.event + 1, Events[j] = d PROVE Past(d)
        <5>1. j \in 1 .. 3 /\ j # run.event
          BY <2>5, <4>5, EventsAre
        <5>2. j < run.event
          BY <1>1, <4>5, <5>1
        <5>3. QED
          BY <1>0, <4>5, <5>2 DEF Past
      <4>6. QED
        BY <4>3, <4>4, <4>5
    <3>4. CASE ~(run.event < 3)
      <4>1. i < run.event /\ i \in DOMAIN Events
        BY <1>1, <3>1, <3>2, <3>4, EventsAre
      <4>2. QED
        BY <1>0, <3>1, <4>1 DEF Past
    <3>5. QED
      BY <3>3, <3>4
  <2>6. ASSUME NEW d \in Event, d \notin told'.opened, Past(d)'
        PROVE  hook'[d].exec /\ hook'[d].body \in Live \cup {"empty"}
    <3>1. CASE d = e
      BY <2>3, <2>4, <2>6, <3>1
    <3>2. CASE d # e
      <4>1. Past(d) /\ d \notin told.opened
        BY <2>2, <2>5, <2>6, <3>2
      <4>2. QED
        BY <2>3, <3>2, <4>1 DEF HooksStand
    <3>3. QED
      BY <3>1, <3>2
  <2>7. run'.at \notin {"fill shim", "chmod"}
    BY <1>0, <2>1 DEF Run
  <2>8. QED
    BY <2>6, <2>7 DEF HooksStand
<1>6. QED
  BY <1>3, <1>4, <1>5

LEMMA HooksByInit == Typed /\ HooksStand /\ (StartInit \/ InitStep) => HooksStand'
<1> SUFFICES ASSUME Typed, HooksStand, StartInit \/ InitStep PROVE HooksStand'
  OBVIOUS
<1>1. RunTyped /\ run \in Run /\ told \in History
  BY DEF Typed, StateTyped, RunTyped
<1>2. CASE StartInit
  <2>1. run'.at = "config" /\ UNCHANGED <<hook, told>>
    BY <1>1, <1>2 DEF StartInit, Goto, Run
  <2>2. QED
    BY <1>1, <2>1, HooksAside
<1>3. CASE CreateConfig
  <2>1. run'.at \in {"default config", "discover"} /\ UNCHANGED <<hook, told>>
    BY <1>1, <1>3 DEF CreateConfig, Goto, Run
  <2>2. QED
    BY <1>1, <2>1, HooksAside
<1>4. CASE WriteDefaults
  <2>1. run'.at = "discover" /\ UNCHANGED hook
    BY <1>1, <1>4 DEF WriteDefaults, Goto, Run
  <2>2. told'.opened = told.opened \ {"config"} /\ told'.complete = told.complete
    BY <1>1, <1>4, RestoredTyped DEF WriteDefaults
  <2>3. "config" \notin Event
    BY EventsAre
  <2>4. QED
    BY <1>1, <2>1, <2>2, <2>3, HooksAside
<1>5. CASE Discover
  <2>1. CASE Loads
    <3>1. run'.at = "shim" /\ run'.event = 1 /\ UNCHANGED <<hook, told>>
      BY <1>1, <1>5, <2>1 DEF Discover, Run
    <3>2. \A i \in DOMAIN Events : ~(i < 1)
      BY EventsAre
    <3>3. \A e \in Event : Past(e)' => Past(e)
      BY <3>1, <3>2 DEF Past, AtHook, AtGit, Late
    <3>4. QED
      BY <3>1, <3>3 DEF HooksStand
  <2>2. CASE ~Loads
    <3>1. run'.at = "idle" /\ UNCHANGED <<hook, told>>
      BY <1>5, <2>2, EndTyped DEF Discover
    <3>2. QED
      BY <1>1, <3>1, HooksAside
  <2>3. QED
    BY <2>1, <2>2
<1>6. CASE SetHooksPath \/ SetSignersFile
  <2>1. /\ run.at \in {"hooksPath"} \cup AtGit /\ run'.at \in AtGit \cup {"policies"}
        /\ UNCHANGED hook
    BY <1>1, <1>6 DEF SetHooksPath, SetSignersFile, Goto, Run, AtGit
  <2>2. /\ told'.opened \in {told.opened \ {"hooksPath"}, told.opened \ {"signersFile"}}
        /\ told'.complete = told.complete
    BY <1>1, <1>6, RestoredTyped DEF SetHooksPath, SetSignersFile
  <2>3. "hooksPath" \notin Event /\ "signersFile" \notin Event
    BY EventsAre
  <2>4. \A e \in Event : e \in told.opened => e \in told'.opened
    BY <2>2, <2>3
  <2>5. run'.at \notin {"fill shim", "chmod"}
    BY <2>1 DEF AtGit
  <2>6. QED
    BY <1>1, <2>1, <2>4, <2>5, HooksAside
<1>7. CASE WritePolicies \/ TruncateIgnore
  <2>1. run.at \in Late /\ run'.at \notin {"fill shim", "chmod"} /\ UNCHANGED <<hook, told>>
    BY <1>1, <1>7, EndTyped DEF WritePolicies, TruncateIgnore, Goto, Run, Late
  <2>2. QED
    BY <1>1, <2>1, HooksAside
<1>8. CASE ReadIgnore \/ AppendIgnore
  <2>1. run.at \in Late /\ run'.at \notin {"fill shim", "chmod"} /\ UNCHANGED hook
    BY <1>1, <1>8, EndTyped DEF ReadIgnore, AppendIgnore, Goto, Run, Late
  <2>2. told'.opened = told.opened
    BY <1>1, <1>8, CompleteTyped DEF ReadIgnore, AppendIgnore
  <2>3. QED
    BY <1>1, <2>1, <2>2, HooksAside
<1>9. QED
  BY <1>2, <1>3, <1>4, <1>5, <1>6, <1>7, <1>8, HooksByShims DEF InitStep

LEMMA HooksByToggle == Typed /\ HooksStand /\ (ToggleStep \/ Die) => HooksStand'
<1> SUFFICES ASSUME Typed, HooksStand, ToggleStep \/ Die PROVE HooksStand'
  OBVIOUS
<1>1. RunTyped /\ run \in Run /\ told \in History
  BY DEF Typed, StateTyped, RunTyped
<1>2. CASE TruncateConfig
  <2>1. run'.at = "fill config" /\ UNCHANGED <<hook, told>>
    BY <1>1, <1>2 DEF TruncateConfig, Goto, Run
  <2>2. QED
    BY <1>1, <2>1, HooksAside DEF AtToggle
<1>3. CASE FillConfig
  <2>1. run'.at = "idle" /\ UNCHANGED hook
    BY <1>3, EndTyped DEF FillConfig
  <2>2. run.key \in AllSettings /\ run.value \in Values(run.key) \cup {"unset", "wrong"}
    BY <1>1, <1>3, ToggleKey DEF FillConfig, RunTyped, AtToggle
  <2>3. told.opened \subseteq told'.opened /\ told'.complete = told.complete
    BY <1>1, <1>3, <2>2, AskedTyped DEF FillConfig
  <2>4. QED
    BY <1>1, <2>1, <2>3, HooksAside
<1>4. CASE Die
  <2>1. run'.at = "idle" /\ UNCHANGED hook
    BY <1>4, EndTyped DEF Die
  <2>2. told'.opened = told.opened /\ told'.complete = told.complete
    BY <1>1, <1>4 DEF Die, History
  <2>3. QED
    BY <1>1, <2>1, <2>2, HooksAside
<1>5. QED
  BY <1>2, <1>3, <1>4 DEF ToggleStep

\* What the user does to the gates it opens, but for spelling our directory otherwise.
LEMMA UserOpens ==
    ASSUME Typed, User, \A e \in Edited : ~EditHook(e)
    PROVE  /\ UNCHANGED hook /\ told.opened \subseteq told'.opened /\ told'.complete = told.complete
           /\ UNCHANGED run \/ (run.at = "idle" /\ run'.at = "truncate config")
           /\ hooksPath' \in {hooksPath, "spelled"} \/ "hooksPath" \in told'.opened
           /\ signersFile' = signersFile \/ "signersFile" \in told'.opened
<1>1. run \in Run /\ told \in History
  BY DEF Typed, StateTyped, RunTyped
<1>2. ASSUME NEW s \in Settings, NEW v \in Values(s) \cup {"unset", "wrong"}, SaveSetting(s, v)
      PROVE  /\ UNCHANGED <<hook, hooksPath, signersFile, run>>
             /\ told.opened \subseteq told'.opened /\ told'.complete = told.complete
  <2>1. s \in AllSettings
    BY EnforcementAssumption
  <2>2. /\ Asked(s, v) \in History /\ told.opened \subseteq Asked(s, v).opened
        /\ Asked(s, v).complete = told.complete
    BY <1>1, <2>1, AskedTyped
  <2>3. told' = Overlap(Asked(s, v), WritingConfig, "config")
    BY <1>2 DEF SaveSetting
  <2>4. told'.opened = Asked(s, v).opened /\ told'.complete = Asked(s, v).complete
    BY <2>2, <2>3, OverlapTyped, BusyTyped
  <2>5. QED
    BY <1>2, <2>2, <2>4 DEF SaveSetting
<1>3. ASSUME NEW c \in Controls, NEW v \in {"on", "off"}, StartToggle(c, v)
      PROVE  /\ UNCHANGED <<hook, hooksPath, signersFile, told>>
             /\ run.at = "idle" /\ run'.at = "truncate config"
  BY <1>1, <1>3 DEF StartToggle, Run
<1>4. CASE DeleteConfig
  <2> DEFINE t == [told EXCEPT !.wish = Unset, !.opened = @ \cup {"config"}]
  <2>1. t \in History /\ t.opened = told.opened \cup {"config"} /\ t.complete = told.complete
    BY <1>1, UnsetTyped DEF History
  <2>2. told' = Overlap(t, WritingConfig, "config")
    BY <1>4 DEF DeleteConfig
  <2> HIDE DEF t
  <2>3. told.opened \subseteq told'.opened /\ told'.complete = told.complete
    BY <2>1, <2>2, OverlapTyped, BusyTyped
  <2>4. QED
    BY <1>4, <2>3 DEF DeleteConfig
<1>5. CASE GarbleConfig
  BY <1>1, <1>5, OverlapTyped, BusyTyped DEF GarbleConfig
<1>6. CASE PointElsewhere
  <2>1. CASE \E path \in {"unset", "other", "spelled"} :
                /\ hooksPath' = path
                /\ told' = [told EXCEPT !.opened = IF path = "spelled" THEN @ ELSE @ \cup {"hooksPath"}]
                /\ UNCHANGED signersFile
    <3>1. PICK path \in {"unset", "other", "spelled"} :
                /\ hooksPath' = path
                /\ told' = [told EXCEPT !.opened = IF path = "spelled" THEN @ ELSE @ \cup {"hooksPath"}]
                /\ UNCHANGED signersFile
      BY <2>1
    <3>2. /\ told'.complete = told.complete
          /\ told'.opened = IF path = "spelled" THEN told.opened ELSE told.opened \cup {"hooksPath"}
      BY <1>1, <3>1 DEF History
    <3>3. QED
      BY <1>6, <3>1, <3>2 DEF PointElsewhere
  <2>2. CASE /\ signersFile' = "other" /\ UNCHANGED hooksPath
             /\ told' = [told EXCEPT !.opened = @ \cup {"signersFile"}]
    <3>1. told'.complete = told.complete /\ told'.opened = told.opened \cup {"signersFile"}
      BY <1>1, <2>2 DEF History
    <3>2. QED
      BY <1>6, <2>2, <3>1 DEF PointElsewhere
  <2>3. QED
    BY <1>6, <2>1, <2>2 DEF PointElsewhere
<1>7. CASE EditPolicies \/ ChangeMachine
  BY <1>7 DEF EditPolicies, ChangeMachine
<1>8. CASE EditIgnore
  <2>1. PICK utf8 \in BOOLEAN :
            told' = Overlap([told EXCEPT !.rules = @ + 1, !.foreign = @ \/ ~utf8],
                            WritingIgnore, "ignore")
    BY <1>8 DEF EditIgnore
  <2> DEFINE t == [told EXCEPT !.rules = @ + 1, !.foreign = @ \/ ~utf8]
  <2>2. told.rules + 1 \in Nat /\ (told.foreign \/ ~utf8) \in BOOLEAN
    BY <1>1 DEF History
  <2>3. t \in History /\ t.opened = told.opened /\ t.complete = told.complete
    BY <1>1, <2>2 DEF History
  <2>4. told' = Overlap(t, WritingIgnore, "ignore")
    BY <2>1
  <2> HIDE DEF t
  <2>5. told'.opened = told.opened /\ told'.complete = told.complete
    BY <2>3, <2>4, OverlapTyped, BusyTyped
  <2>6. QED
    BY <1>8, <2>5 DEF EditIgnore
<1>9. QED
  BY <1>2, <1>3, <1>4, <1>5, <1>6, <1>7, <1>8 DEF User

LEMMA HookEdit ==
    ASSUME Typed, NEW e \in Edited, EditHook(e)
    PROVE  /\ told'.opened = told.opened \cup {e}
              \/ (told'.opened = told.opened /\ hook'[e].exec /\ hook'[e].body \in Live)
           /\ \A d \in Event : d # e => hook'[d] = hook[d]
           /\ told'.complete = told.complete /\ e \in Event
           /\ UNCHANGED <<config, hooksPath, signersFile, run, read>>
<1>1. e \in Event /\ hook \in [Event -> Shims] /\ told \in History
  BY EnforcementAssumption DEF Typed, StateTyped
<1>2. PICK new \in [body : {"edited live", "edited dead", "wrapper", "replaced"}, exec : {hook[e].exec}]
                   \cup {[body |-> "absent", exec |-> FALSE], [hook[e] EXCEPT !.exec = FALSE]} :
          /\ hook' = [hook EXCEPT ![e] = new]
          /\ told' = [told EXCEPT !.opened =
                IF new.exec /\ new.body \in {"ours", "edited live", "wrapper"} THEN @ ELSE @ \cup {e}]
  BY DEF EditHook
<1>3. hook'[e] = new /\ \A d \in Event : d # e => hook'[d] = hook[d]
  BY <1>1, <1>2
<1>4. /\ told'.complete = told.complete
      /\ told'.opened = IF new.exec /\ new.body \in Live THEN told.opened ELSE told.opened \cup {e}
  BY <1>1, <1>2 DEF History, Live
<1>5. QED
  BY <1>1, <1>3, <1>4 DEF EditHook

LEMMA HooksByUser == Typed /\ HooksStand /\ User => HooksStand'
<1> SUFFICES ASSUME Typed, HooksStand, User PROVE HooksStand'
  OBVIOUS
<1>1. RunTyped
  BY DEF Typed
<1>2. ASSUME NEW e \in Edited, EditHook(e) PROVE HooksStand'
  <2>1. /\ told'.opened = told.opened \cup {e}
           \/ (told'.opened = told.opened /\ hook'[e].exec /\ hook'[e].body \in Live)
        /\ \A d \in Event : d # e => hook'[d] = hook[d]
        /\ told'.complete = told.complete /\ UNCHANGED run
    BY <1>2, HookEdit
  <2>2. \A d \in Event : Past(d)' => Past(d)
    BY <2>1 DEF Past
  <2>3. ASSUME NEW d \in Event, d \notin told'.opened, Past(d)'
        PROVE  hook'[d].exec /\ hook'[d].body \in Live \cup {"empty"}
    BY <2>1, <2>2, <2>3 DEF HooksStand
  <2>4. ASSUME run'.at \in {"fill shim", "chmod"}, Events[run'.event] \notin told'.opened
        PROVE  hook'[Events[run'.event]].body \in Live \cup {"empty"}
    <3>1. Events[run.event] \in Event
      BY <1>1, <2>1, <2>4, HookAt DEF AtHook
    <3>2. QED
      BY <2>1, <2>4, <3>1 DEF HooksStand
  <2>5. QED
    BY <2>3, <2>4 DEF HooksStand
<1>3. CASE \A e \in Edited : ~EditHook(e)
  BY <1>1, <1>3, UserOpens, HooksAside DEF AtToggle
<1>4. QED
  BY <1>2, <1>3

(***************************************************************************)
(* The gates fail closed: where git looks, and the configuration.          *)
(***************************************************************************)
LEMMA GitAside ==
    ASSUME GitStands, UNCHANGED <<hooksPath, signersFile>>,
           \A what \in {"hooksPath", "signersFile"} : what \in told.opened => what \in told'.opened,
           \/ run.at \in Late
           \/ (told'.complete => told.complete) /\ run'.at \notin AtGit \cup Late
    PROVE  GitStands'
BY DEF GitStands

LEMMA GitByCommands == Typed /\ GitStands /\ (StartInit \/ InitStep \/ ToggleStep \/ Die) => GitStands'
<1> SUFFICES ASSUME Typed, GitStands, StartInit \/ InitStep \/ ToggleStep \/ Die PROVE GitStands'
  OBVIOUS
<1>1. RunTyped /\ run \in Run /\ told \in History
  BY DEF Typed, StateTyped, RunTyped
<1>2. CASE StartInit \/ CreateConfig \/ Discover \/ TruncateShim \/ FillShim \/ TruncateConfig
  <2>1. UNCHANGED <<hooksPath, signersFile, told>>
    BY <1>2 DEF StartInit, CreateConfig, Discover, TruncateShim, FillShim, TruncateConfig
  <2>2. run'.at \in {"idle", "config", "default config", "discover"} \cup AtHook \cup AtToggle
    BY <1>1, <1>2, EndTyped DEF StartInit, CreateConfig, Discover, TruncateShim, FillShim,
       TruncateConfig, Goto, Run, AtHook, AtToggle
  <2>3. run'.at \notin AtGit \cup Late
    BY <2>2 DEF AtHook, AtGit, Late, AtToggle
  <2>4. QED
    BY <2>1, <2>3, GitAside
<1>3. CASE WriteDefaults
  <2>1. run'.at = "discover" /\ UNCHANGED <<hooksPath, signersFile>>
    BY <1>1, <1>3 DEF WriteDefaults, Goto, Run
  <2>2. told'.opened = told.opened \ {"config"} /\ told'.complete = told.complete
    BY <1>1, <1>3, RestoredTyped DEF WriteDefaults
  <2>3. QED
    BY <2>1, <2>2, GitAside DEF AtGit, Late
<1>4. CASE Chmod
  <2>1. run'.at \in {"idle", "shim", "hooksPath"} /\ UNCHANGED <<hooksPath, signersFile>>
    BY <1>1, <1>4, EndTyped DEF Chmod, Run
  <2>2. Events[run.event] \in Event
    BY <1>1, <1>4, HookAt DEF Chmod, AtHook
  <2>3. "hooksPath" \notin Event /\ "signersFile" \notin Event
    BY EventsAre
  <2>4. /\ told'.opened \in {told.opened, told.opened \ {Events[run.event]}}
        /\ told'.complete = told.complete
    BY <1>1, <1>4 DEF Chmod, History
  <2>5. \A what \in {"hooksPath", "signersFile"} : what \in told.opened => what \in told'.opened
    BY <2>2, <2>3, <2>4
  <2>6. QED
    BY <2>1, <2>4, <2>5, GitAside DEF AtGit, Late
<1>5. CASE SetHooksPath
  <2>1. /\ run'.at = "signersFile" /\ run.at = "hooksPath" /\ hooksPath' = "ours"
        /\ UNCHANGED signersFile
    BY <1>1, <1>5 DEF SetHooksPath, Goto, Run
  <2>2. told'.opened = told.opened \ {"hooksPath"} /\ told'.complete = told.complete
    BY <1>1, <1>5, RestoredTyped DEF SetHooksPath
  <2>3. QED
    BY <2>1, <2>2 DEF GitStands, AtGit, Late
<1>6. CASE SetSignersFile
  <2>1. /\ run'.at = "policies" /\ run.at = "signersFile" /\ signersFile' = "ours"
        /\ UNCHANGED hooksPath
    BY <1>1, <1>6 DEF SetSignersFile, Goto, Run
  <2>2. told'.opened = told.opened \ {"signersFile"} /\ told'.complete = told.complete
    BY <1>1, <1>6, RestoredTyped DEF SetSignersFile
  <2>3. QED
    BY <2>1, <2>2 DEF GitStands, AtGit, Late
<1>7. CASE WritePolicies \/ TruncateIgnore
  BY <1>7, GitAside DEF WritePolicies, TruncateIgnore, Late
<1>8. CASE ReadIgnore \/ AppendIgnore
  <2>1. run.at \in Late /\ UNCHANGED <<hooksPath, signersFile>>
    BY <1>8 DEF ReadIgnore, AppendIgnore, Late
  <2>2. told'.opened = told.opened
    BY <1>1, <1>8, CompleteTyped DEF ReadIgnore, AppendIgnore
  <2>3. QED
    BY <2>1, <2>2, GitAside
<1>9. CASE FillConfig
  <2>1. run'.at = "idle" /\ UNCHANGED <<hooksPath, signersFile>>
    BY <1>9, EndTyped DEF FillConfig
  <2>2. run.key \in AllSettings /\ run.value \in Values(run.key) \cup {"unset", "wrong"}
    BY <1>1, <1>9, ToggleKey DEF FillConfig, RunTyped, AtToggle
  <2>3. told.opened \subseteq told'.opened /\ told'.complete = told.complete
    BY <1>1, <1>9, <2>2, AskedTyped DEF FillConfig
  <2>4. QED
    BY <2>1, <2>3, GitAside DEF AtGit, Late
<1>10. CASE Die
  <2>1. run'.at = "idle" /\ UNCHANGED <<hooksPath, signersFile>>
    BY <1>10, EndTyped DEF Die
  <2>2. told'.opened = told.opened /\ told'.complete = told.complete
    BY <1>1, <1>10 DEF Die, History
  <2>3. QED
    BY <2>1, <2>2, GitAside DEF AtGit, Late
<1>11. QED
  BY <1>2, <1>3, <1>4, <1>5, <1>6, <1>7, <1>8, <1>9, <1>10 DEF InitStep, ToggleStep

LEMMA GitByUser == Typed /\ GitStands /\ User => GitStands'
<1> SUFFICES ASSUME Typed, GitStands, User PROVE GitStands'
  OBVIOUS
<1>1. CASE \E e \in Edited : EditHook(e)
  <2>1. PICK e \in Edited : EditHook(e)
    BY <1>1
  <2>2. /\ told.opened \subseteq told'.opened /\ told'.complete = told.complete
        /\ UNCHANGED <<hooksPath, signersFile, run>>
    BY <2>1, HookEdit
  <2>3. QED
    BY <2>2 DEF GitStands
<1>2. CASE \A e \in Edited : ~EditHook(e)
  <2>1. /\ told.opened \subseteq told'.opened /\ told'.complete = told.complete
        /\ UNCHANGED run \/ (run.at = "idle" /\ run'.at = "truncate config")
        /\ hooksPath' \in {hooksPath, "spelled"} \/ "hooksPath" \in told'.opened
        /\ signersFile' = signersFile \/ "signersFile" \in told'.opened
    BY <1>2, UserOpens
  <2>2. run'.at \in AtGit \cup Late => run'.at = run.at
    BY <2>1 DEF AtGit, Late
  <2>3. QED
    BY <2>1, <2>2 DEF GitStands, AtGit, Late
<1>3. QED
  BY <1>1, <1>2

LEMMA UnsetShut == \A s \in AllSettings : ~Opens(s, Unset[s])
BY UnsetTyped DEF Opens

LEMMA ConfigAside ==
    ASSUME ConfigStands, UNCHANGED config, "config" \in told.opened => "config" \in told'.opened,
           \/ UNCHANGED <<run, read>> /\ (told'.complete => told.complete)
           \/ /\ run'.at \in {"idle", "config"} /\ (told'.complete => told.complete)
           \/ /\ run.at \notin {"idle", "config"} /\ run'.at \notin AtToggle
    PROVE  ConfigStands'
BY DEF ConfigStands, AtToggle

LEMMA ConfigByInit == Typed /\ ConfigStands /\ (StartInit \/ InitStep) => ConfigStands'
<1> SUFFICES ASSUME Typed, ConfigStands, StartInit \/ InitStep PROVE ConfigStands'
  OBVIOUS
<1>1. RunTyped /\ run \in Run /\ told \in History
  BY DEF Typed, StateTyped, RunTyped
<1>2. CASE StartInit
  <2>1. run'.at = "config" /\ UNCHANGED <<config, told>>
    BY <1>1, <1>2 DEF StartInit, Goto, Run
  <2>2. QED
    BY <2>1, ConfigAside
<1>3. CASE CreateConfig
  <2>1. run.at = "config" /\ run'.at \in {"default config", "discover"} /\ UNCHANGED told
    BY <1>1, <1>3 DEF CreateConfig, Goto, Run
  <2>2. CASE config.is = "absent"
    <3>1. config' = [is |-> "file", set |-> Unset]
      BY <1>3, <2>2 DEF CreateConfig
    <3>2. config'.is # "absent" /\ config'.set = Unset
      BY <3>1
    <3>3. QED
      BY <2>1, <3>2, UnsetShut DEF ConfigStands, AtToggle
  <2>3. CASE config.is # "absent"
    <3>1. UNCHANGED config
      BY <1>3, <2>3 DEF CreateConfig
    <3>2. QED
      BY <2>1, <2>3, <3>1 DEF ConfigStands, AtToggle
  <2>4. QED
    BY <2>2, <2>3
<1>4. CASE WriteDefaults
  <2>1. run'.at = "discover" /\ config'.is # "absent" /\ config'.set = Unset
    BY <1>1, <1>4 DEF WriteDefaults, Goto, Run
  <2>2. QED
    BY <2>1, UnsetShut DEF ConfigStands, AtToggle
<1>5. ASSUME UNCHANGED config, told'.opened = told.opened,
             run.at \notin {"idle", "config"}, run'.at \notin AtToggle
      PROVE  ConfigStands'
  BY <1>5, ConfigAside
<1>6. CASE Discover \/ TruncateShim \/ FillShim \/ WritePolicies \/ TruncateIgnore
  <2>1. /\ run.at \in {"discover", "shim", "fill shim", "policies", "truncate ignore"}
        /\ UNCHANGED <<config, told>>
    BY <1>6 DEF Discover, TruncateShim, FillShim, WritePolicies, TruncateIgnore
  <2>2. run'.at \in {"idle", "shim", "fill shim", "chmod", "ignore", "fill ignore"}
    BY <1>1, <1>6, EndTyped DEF Discover, TruncateShim, FillShim, WritePolicies, TruncateIgnore,
       Goto, Run
  <2>3. QED
    BY <1>5, <2>1, <2>2 DEF AtToggle
<1>7. CASE Chmod
  <2>1. run.at = "chmod" /\ run'.at \in {"idle", "shim", "hooksPath"} /\ UNCHANGED config
    BY <1>1, <1>7, EndTyped DEF Chmod, Run
  <2>2. Events[run.event] \in Event
    BY <1>1, <1>7, HookAt DEF Chmod, AtHook
  <2>3. "config" \notin Event
    BY EventsAre
  <2>4. told'.opened \in {told.opened, told.opened \ {Events[run.event]}}
    BY <1>1, <1>7 DEF Chmod, History
  <2>5. QED
    BY <2>1, <2>2, <2>3, <2>4, ConfigAside DEF AtToggle
<1>8. CASE SetHooksPath \/ SetSignersFile
  <2>1. /\ run.at \in {"hooksPath", "signersFile"} /\ run'.at \in {"signersFile", "policies"}
        /\ UNCHANGED config
    BY <1>1, <1>8 DEF SetHooksPath, SetSignersFile, Goto, Run
  <2>2. told'.opened \in {told.opened \ {"hooksPath"}, told.opened \ {"signersFile"}}
    BY <1>1, <1>8, RestoredTyped DEF SetHooksPath, SetSignersFile
  <2>3. QED
    BY <2>1, <2>2, ConfigAside DEF AtToggle
<1>9. CASE ReadIgnore \/ AppendIgnore
  <2>1. /\ run.at \in {"ignore", "fill ignore"} /\ run'.at \in {"idle", "truncate ignore"}
        /\ UNCHANGED config
    BY <1>1, <1>9, EndTyped DEF ReadIgnore, AppendIgnore, Goto, Run
  <2>2. told'.opened = told.opened
    BY <1>1, <1>9, CompleteTyped DEF ReadIgnore, AppendIgnore
  <2>3. QED
    BY <1>5, <2>1, <2>2 DEF AtToggle
<1>10. QED
  BY <1>2, <1>3, <1>4, <1>6, <1>7, <1>8, <1>9 DEF InitStep

LEMMA ConfigByToggle == Typed /\ ConfigStands /\ (ToggleStep \/ Die) => ConfigStands'
<1> SUFFICES ASSUME Typed, ConfigStands, ToggleStep \/ Die PROVE ConfigStands'
  OBVIOUS
<1>1. RunTyped /\ run \in Run /\ told \in History
  BY DEF Typed, StateTyped, RunTyped
<1>2. CASE TruncateConfig
  <2>1. /\ run.at \in AtToggle /\ run'.at = "fill config" /\ UNCHANGED <<told, read>>
        /\ config'.is # "absent" /\ config'.set = Unset
    BY <1>1, <1>2 DEF TruncateConfig, Goto, Run, AtToggle
  <2>2. QED
    BY <2>1, UnsetShut DEF ConfigStands
<1>3. CASE FillConfig
  <2>1. /\ run'.at = "idle" /\ run.at \in AtToggle /\ config'.is # "absent"
        /\ config'.set = [read.set EXCEPT ![run.key] = run.value]
    BY <1>3, EndTyped DEF FillConfig, AtToggle
  <2>2. run.key \in AllSettings /\ run.value \in Values(run.key) \cup {"unset", "wrong"}
    BY <1>1, <1>3, ToggleKey DEF FillConfig, RunTyped, AtToggle
  <2>3. told'.opened = IF Opens(run.key, run.value) THEN told.opened \cup {"config"} ELSE told.opened
    BY <1>1, <1>3, <2>2, AskedTyped DEF FillConfig
  <2>4. read.set \in Tables
    BY <1>1 DEF RunTyped
  <2>5. \A s \in AllSettings : config'.set[s] = IF s = run.key THEN run.value ELSE read.set[s]
    BY <2>1, <2>4 DEF Tables
  <2>6. QED
    BY <2>1, <2>3, <2>5 DEF ConfigStands, AtToggle
<1>4. CASE Die
  <2>1. run'.at = "idle" /\ UNCHANGED config
    BY <1>4, EndTyped DEF Die
  <2>2. told'.opened = told.opened /\ told'.complete = told.complete
    BY <1>1, <1>4 DEF Die, History
  <2>3. QED
    BY <2>1, <2>2, ConfigAside
<1>5. QED
  BY <1>2, <1>3, <1>4 DEF ToggleStep

LEMMA ConfigByUser == Typed /\ ConfigStands /\ User => ConfigStands'
<1> SUFFICES ASSUME Typed, ConfigStands, User PROVE ConfigStands'
  OBVIOUS
<1>1. RunTyped /\ run \in Run /\ told \in History /\ config \in Configs /\ config.set \in Tables
  BY ConfigTyped DEF Typed, StateTyped, RunTyped
<1>2. ASSUME NEW s \in Settings, NEW v \in Values(s) \cup {"unset", "wrong"}, SaveSetting(s, v)
      PROVE  ConfigStands'
  <2>1. s \in AllSettings
    BY EnforcementAssumption
  <2>2. /\ Asked(s, v) \in History /\ Asked(s, v).complete = told.complete
        /\ Asked(s, v).opened = IF Opens(s, v) THEN told.opened \cup {"config"} ELSE told.opened
    BY <1>1, <2>1, AskedTyped
  <2>3. /\ told' = Overlap(Asked(s, v), WritingConfig, "config") /\ UNCHANGED <<run, read>>
        /\ config'.is # "absent" /\ config'.set = [config.set EXCEPT ![s] = v]
    BY <1>2 DEF SaveSetting
  <2>4. told'.opened = Asked(s, v).opened
    BY <2>2, <2>3, OverlapTyped, BusyTyped
  <2>5. \A r \in AllSettings : config'.set[r] = IF r = s THEN v ELSE config.set[r]
    BY <1>1, <2>3 DEF Tables
  <2>6. QED
    BY <2>2, <2>3, <2>4, <2>5 DEF ConfigStands
<1>3. ASSUME NEW c \in Controls, NEW v \in {"on", "off"}, StartToggle(c, v) PROVE ConfigStands'
  <2>1. config.is # "absent" /\ UNCHANGED <<config, told>> /\ read'.set = config.set
    BY <1>1, <1>3 DEF StartToggle, Loads, RunTyped
  <2>2. QED
    BY <2>1 DEF ConfigStands
<1>4. ASSUME NEW e \in Edited, EditHook(e) PROVE ConfigStands'
  BY <1>4, HookEdit, ConfigAside
<1>5. CASE DeleteConfig
  <2> DEFINE t == [told EXCEPT !.wish = Unset, !.opened = @ \cup {"config"}]
  <2>1. t \in History /\ t.opened = told.opened \cup {"config"}
    BY <1>1, UnsetTyped DEF History
  <2>2. told' = Overlap(t, WritingConfig, "config")
    BY <1>5 DEF DeleteConfig
  <2> HIDE DEF t
  <2>3. "config" \in told'.opened
    BY <2>1, <2>2, OverlapTyped, BusyTyped
  <2>4. QED
    BY <2>3 DEF ConfigStands
<1>6. CASE GarbleConfig
  <2>1. told'.opened = told.opened /\ UNCHANGED <<run, read>>
    BY <1>1, <1>6, OverlapTyped, BusyTyped DEF GarbleConfig
  <2>2. config'.is # "absent" /\ config'.set = config.set
    BY <1>1, <1>6 DEF GarbleConfig, Configs
  <2>3. QED
    BY <2>1, <2>2 DEF ConfigStands
<1>7. CASE PointElsewhere \/ EditIgnore
  <2>1. UNCHANGED <<config, run, read>>
    BY <1>7 DEF PointElsewhere, EditIgnore
  <2>2. told.opened \subseteq told'.opened /\ told'.complete = told.complete
    <3>1. CASE \E e \in Edited : EditHook(e)
      BY <3>1, HookEdit
    <3>2. CASE \A e \in Edited : ~EditHook(e)
      BY <3>2, UserOpens
    <3>3. QED
      BY <3>1, <3>2
  <2>3. QED
    BY <2>1, <2>2, ConfigAside
<1>8. CASE EditPolicies \/ ChangeMachine
  BY <1>8, ConfigAside DEF EditPolicies, ChangeMachine
<1>9. QED
  BY <1>2, <1>3, <1>4, <1>5, <1>6, <1>7, <1>8 DEF User

LEMMA InitClosed == Init => ClosedInv
<1> SUFFICES ASSUME Init PROVE ClosedInv
  OBVIOUS
<1>1. PICK start \in Starts :
          /\ config = start.config
          /\ told = [wish |-> start.config.set, rules |-> start.ignore.rules,
                     foreign |-> ~start.ignore.utf8, lost |-> {},
                     opened |-> IF \E s \in AllSettings : Opens(s, start.config.set[s])
                                THEN {"config"} ELSE {},
                     complete |-> FALSE]
  BY DEF Init
<1>2. run.at = "idle" /\ ~told.complete
  BY <1>1, IdleTyped DEF Init
<1>3. "config" \notin told.opened => \A s \in AllSettings : ~Opens(s, config.set[s])
  BY <1>1
<1>4. HooksStand
  BY <1>2 DEF HooksStand, Past, AtHook, AtGit, Late
<1>5. GitStands
  BY <1>2 DEF GitStands, AtGit, Late
<1>6. ConfigStands
  BY <1>2, <1>3 DEF ConfigStands, AtToggle
<1>7. QED
  BY <1>4, <1>5, <1>6 DEF ClosedInv

LEMMA AlwaysClosed == Spec => [](Typed /\ ClosedInv)
<1>1. Init => Typed /\ ClosedInv
  BY InitTyped, InitClosed
<1>2. (Typed /\ ClosedInv) /\ [Next]_vars => (Typed /\ ClosedInv)'
  <2>1. ClosedInv /\ UNCHANGED vars => ClosedInv'
    BY DEF vars, ClosedInv, HooksStand, GitStands, ConfigStands, Past
  <2>2. Typed /\ ClosedInv /\ Next => ClosedInv'
    BY HooksByInit, HooksByToggle, HooksByUser, GitByCommands, GitByUser,
       ConfigByInit, ConfigByToggle, ConfigByUser DEF ClosedInv, Next
  <2>3. QED
    BY <2>1, <2>2, NextTyped
<1>3. QED
  BY <1>1, <1>2, SpecSteps, PTL

\* While nobody has opened the configuration, what is unset or set is on.
LEMMA ShutSettings ==
    ASSUME Typed, ConfigStands, "config" \notin told.opened, Loads
    PROVE  /\ \A s \in Controls \cup {"pre_push_range_scan"} : On(s)
           /\ ~On("fail_open") /\ Protected("main")
<1>1. /\ config.set \in Tables /\ \A s \in AllSettings : config.set[s] # "wrong"
      /\ \A s \in AllSettings : ~Opens(s, config.set[s])
  BY ConfigTyped DEF Typed, StateTyped, Loads, ConfigStands
<1>2. ASSUME NEW s \in Controls \cup {"pre_push_range_scan"} PROVE On(s)
  <2>1. s \in AllSettings /\ s # "fail_open" /\ s # "protected_branches"
    BY <1>2 DEF AllSettings, Controls
  <2>2. config.set[s] \in {"on", "off", "unset"}
    BY <1>1, <2>1 DEF Tables, Values
  <2>3. config.set[s] # "off"
    BY <1>1, <1>2, <2>1 DEF Opens
  <2>4. QED
    BY <2>1, <2>2, <2>3 DEF On, Setting, Default
<1>3. ~On("fail_open")
  <2>1. "fail_open" \in AllSettings
    BY DEF AllSettings
  <2>2. config.set["fail_open"] # "on"
    BY <1>1, <2>1 DEF Opens
  <2>3. QED
    BY <2>2 DEF On, Setting, Default
<1>4. Protected("main")
  <2>1. "protected_branches" \in AllSettings
    BY DEF AllSettings
  <2>2. config.set["protected_branches"] # "none"
    BY <1>1, <2>1 DEF Opens
  <2>3. QED
    BY <2>2 DEF Protected, Setting, Default
<1>5. QED
  BY <1>2, <1>3, <1>4

\* A hook that stands and is not truncated asks the gates, and sscsb answers.
LEMMA HookAsks ==
    ASSUME Typed, ClosedInv, told.complete, told.opened = {},
           NEW e \in Event, hook[e].body # "empty", NEW gates \in BOOLEAN, Allows(e, gates)
    PROVE  Loads /\ gates
<1>1. hook[e].exec /\ hook[e].body \in Live
  BY DEF ClosedInv, HooksStand, Past
<1>2. hooksPath \in {"ours", "spelled"} /\ config.is # "absent"
  BY DEF ClosedInv, GitStands, ConfigStands
<1>3. Reaches(e)
  BY <1>1, <1>2 DEF Reaches, Live
<1>4. QED
  BY <1>2, <1>3 DEF Allows, Engine

LEMMA ClosedBlocks == Typed /\ ClosedInv /\ EditsInv => FailsClosed
<1> SUFFICES ASSUME Typed, ClosedInv, EditsInv, NEW v \in Violations,
                    told.complete, told.opened = {}, Lands(v), hook[EventOf(v)].body # "empty",
                    v = "unsigned on release" => told.wish["protected_branches"] = "main and release",
                    ~(v = "unsigned on release" /\ (run.at = "fill config" \/ "config" \in told.lost))
             PROVE  FALSE
  BY DEF FailsClosed
<1>1. ASSUME Loads
      PROVE  /\ \A s \in Controls \cup {"pre_push_range_scan"} : On(s)
             /\ ~On("fail_open") /\ Protected("main")
  BY <1>1, ShutSettings DEF ClosedInv
<1>2. {"pre-commit", "commit-msg", "pre-push"} = Event
  BY EventsAre
<1>3. signersFile = "ours"
  BY DEF ClosedInv, GitStands
<1>4. ASSUME NEW gates \in BOOLEAN, Allows(EventOf(v), gates) PROVE Loads /\ gates
  <2>1. EventOf(v) \in Event
    BY <1>2 DEF EventOf
  <2>2. QED
    BY <1>4, <2>1, HookAsks
<1>5. CASE v = "secret committed"
  <2>1. EventOf(v) = "pre-commit" /\ CommitLands({"secret"})
    BY <1>5 DEF EventOf, ControlOf, Lands
  <2>2. Loads /\ PreCommit({"secret"})
    BY <1>4, <2>1 DEF CommitLands, PreCommit
  <2>3. QED
    BY <1>1, <2>2 DEF PreCommit, Scan, Controls
<1>6. ASSUME NEW fault, EventOf(v) = "commit-msg", CommitLands({fault})
      PROVE  Loads /\ CommitMsg({fault})
  BY <1>4, <1>6 DEF CommitLands, CommitMsg
<1>7. CASE v = "trailers missing"
  <2>1. EventOf(v) = "commit-msg" /\ CommitLands({"trailers"})
    BY <1>7 DEF EventOf, ControlOf, Lands
  <2>2. QED
    BY <1>1, <1>6, <2>1 DEF CommitMsg, Controls
<1>8. CASE v = "manifest unreviewed"
  <2>1. EventOf(v) = "commit-msg" /\ CommitLands({"manifest"})
    BY <1>8 DEF EventOf, ControlOf, Lands
  <2>2. QED
    BY <1>1, <1>6, <2>1 DEF CommitMsg, Controls
<1>9. CASE v = "package unapproved"
  <2>1. EventOf(v) = "commit-msg" /\ CommitLands({"package"})
    BY <1>9 DEF EventOf, ControlOf, Lands
  <2>2. Loads /\ CommitMsg({"package"})
    BY <1>6, <2>1
  <2>3. QED
    BY <1>1, <2>2 DEF CommitMsg, PackageTrust, Controls
<1>10. CASE v = "secret pushed"
  <2>1. EventOf(v) = "pre-push" /\ PushLands("topic", "human", {"secret"})
    BY <1>10 DEF EventOf, ControlOf, Lands
  <2>2. Loads /\ PrePush("topic", "human", {"secret"})
    BY <1>4, <2>1 DEF PushLands, PrePush
  <2>3. QED
    BY <1>1, <2>2 DEF PrePush, Scan, Controls
<1>11. ASSUME NEW branch, NEW by, by \in {"nobody", "stranger"}, EventOf(v) = "pre-push",
              PushLands(branch, by, {})
       PROVE  Loads /\ ~Protected(branch)
  <2>1. Loads /\ PrePush(branch, by, {})
    BY <1>4, <1>11 DEF PushLands, PrePush
  <2>2. ~SigningCheck(by)
    BY <1>3, <1>11 DEF SigningCheck, KnownToGit
  <2>3. QED
    BY <1>1, <2>1, <2>2 DEF PrePush, Controls
<1>12. CASE v \in {"unsigned on main", "stranger on main"}
  <2>1. EventOf(v) = "pre-push" /\ \E by \in {"nobody", "stranger"} : PushLands("main", by, {})
    BY <1>12 DEF EventOf, ControlOf, Lands
  <2>2. QED
    BY <1>1, <1>11, <2>1
<1>13. CASE v = "unsigned on release"
  <2>1. EventOf(v) = "pre-push" /\ PushLands("release", "nobody", {})
    BY <1>13 DEF EventOf, ControlOf, Lands
  <2>2. config.set["protected_branches"] = "main and release"
    BY <1>13 DEF EditsInv, ConfigKept
  <2>3. Protected("release")
    BY <2>2 DEF Protected, Setting
  <2>4. QED
    BY <1>11, <2>1, <2>3
<1>14. QED
  BY <1>5, <1>7, <1>8, <1>9, <1>10, <1>12, <1>13 DEF Violations

\* The gates fail closed: once an init is through and until the user opens a
\* gate, no violation lands, for any settings, repositories, acts and deaths
\* ("Shims fail CLOSED when sscsb is missing", hooks.rs), but in the two windows
\* FailsClosed excepts.
THEOREM GatesFailClosed == Spec => []FailsClosed
BY AlwaysClosed, AlwaysEdits, ClosedBlocks, PTL
=============================================================================
