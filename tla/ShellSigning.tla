--------------------------- MODULE ShellSigning ---------------------------
(***************************************************************************)
(* The recogniser of workflows.rs that decides, from the simple commands   *)
(* of a `run:` body alone, whether a failed `cosign sign` fails the step.  *)
(* Commands are numbered from 1; 0 stands for the source's None.           *)
(* Recursive operators: this module is for TLC's runs only.                *)
(***************************************************************************)
EXTENDS Shell, FiniteSets, FiniteSetsExt

PrefixWords == {"do", "then", "else", "if", "elif", "while", "until", "!", "{", "(",
                "time", "sudo", "env", "command", "exec"}
Wrappers == {"sudo", "env", "time", "command"}
Flags == {"-E", "-p"}
ConditionKeywords == {"if", "elif", "while", "until"}
DeclarationWords == {"local", "declare", "typeset", "export", "readonly"}

CompoundCloser == [w \in {"if", "while", "until", "for", "select", "case"} |->
                    CASE w = "if" -> "fi" [] w = "case" -> "esac" [] OTHER -> "done"]
Openers == DOMAIN CompoundCloser
Closers == {"fi", "done", "esac"}

\* NAME=VALUE words, parameter expansions and literal statuses, by what they say.
Assignments == [w \in {"rc=$?", "rc=0", "MODE=release"} |->
                 CASE w = "rc=$?" -> [name |-> "rc", value |-> "$?"]
                   [] w = "rc=0" -> [name |-> "rc", value |-> "0"]
                   [] OTHER -> [name |-> "MODE", value |-> "release"]]
IsShellAssignment(w) == w \in DOMAIN Assignments
ParameterName == [w \in {"$rc", "$mode"} |-> IF w = "$rc" THEN "rc" ELSE "mode"]
Literal == [w \in {"0", "1", "256"} |-> CASE w = "0" -> 0 [] w = "1" -> 1 [] OTHER -> 256]

NonzeroStatus(w) == w \in DOMAIN Literal /\ Literal[w] % 256 # 0

Least(S) == IF S = {} THEN 0 ELSE Min(S)
Positions(words, S) == {p \in DOMAIN words : words[p] \in S}

(***************************************************************************)
(* The command word.                                                       *)
(***************************************************************************)
\* The `)` of a leading case arm, 0 when there is none with a command behind it.
CaseArmPatternEnd(words) ==
    LET End(close) == IF /\ close # 0 /\ close < Len(words)
                         /\ \A p \in 1 .. close - 1 : words[p] # "("
                      THEN close ELSE 0
    IN  End(Least(Positions(words, {")"})))

Transparent(words, p) ==
    \/ IsShellAssignment(words[p])
    \/ words[p] \in PrefixWords
    \/ /\ words[p] \in Flags
       /\ \E h \in 1 .. p - 1 : /\ words[h] \in Wrappers
                                /\ \A m \in h + 1 .. p - 1 : words[m] \in Flags

CommandIndex(words) ==
    Least({p \in CaseArmPatternEnd(words) + 1 .. Len(words) : ~Transparent(words, p)})

CommandWord(words) ==
    LET At(p) == IF p = 0 THEN "" ELSE words[p] IN At(CommandIndex(words))
Args(words) ==
    LET Beyond(p) == IF p = 0 THEN <<>> ELSE SubSeq(words, p + 1, Len(words))
    IN  Beyond(CommandIndex(words))
Before(words) == {words[p] : p \in 1 .. CommandIndex(words) - 1}

Negated(words) == "!" \in Before(words)
InCondition(words) == Before(words) \cap ConditionKeywords # {}

RedefinesCosign(words) ==
    \/ Len(words) > 2 /\ SubSeq(words, 1, 3) = <<"cosign", "(", ")">>
    \/ Len(words) > 1 /\ SubSeq(words, 1, 2) = <<"function", "cosign">>

(***************************************************************************)
(* Shell options.                                                          *)
(***************************************************************************)
\* "on", "off" or "none": what an option list does to errexit. The last one
\* wins, and `--` ends the options.
OptionsToggle(args) ==
    LET stop == Least(Positions(args, {"--"}))
        options == 1 .. (IF stop = 0 THEN Len(args) ELSE stop - 1)
        touches == {p \in options : \/ args[p] \in {"-e", "+e"}
                                    \/ /\ args[p] \in {"-o", "+o"} /\ p < Len(args)
                                       /\ args[p + 1] = "errexit"}
    IN  IF touches = {} THEN "none"
        ELSE IF args[Max(touches)] \in {"-e", "-o"} THEN "on" ELSE "off"

\* `shopt -o -u errexit`, `shopt -ou errexit`; the last of -u and -s wins.
ShoptToggle(args) ==
    LET states == Positions(args, {"-u", "-s", "-ou", "-os"})
        names == Positions(args, {"-o", "-ou", "-os"}) # {} /\ Positions(args, {"errexit"}) # {}
    IN  IF ~names \/ states = {} THEN "none"
        ELSE IF args[Max(states)] \in {"-s", "-os"} THEN "on" ELSE "off"

Toggle(words) ==
    CASE CommandWord(words) = "set" -> OptionsToggle(Args(words))
      [] CommandWord(words) = "shopt" -> ShoptToggle(Args(words))
      [] OTHER -> "none"

ErrexitOffBefore(cs, i) ==
    LET toggles == {k \in 1 .. i - 1 : Toggle(cs[k].words) # "none"}
    IN  toggles # {} /\ Toggle(cs[Max(toggles)].words) = "off"

OptionsSetPipefail(words) ==
    \E p \in 1 .. Len(words) - 1 :
        words[p] \in {"-o", "-eo", "-euo"} /\ words[p + 1] = "pipefail"

SetsPipefail(words) == CommandWord(words) = "set" /\ OptionsSetPipefail(Args(words))

(***************************************************************************)
(* What a command reached because something failed does with the failure.  *)
(***************************************************************************)
CommandPropagates(words) ==
    LET NonzeroExit(args) == args = <<>> \/ NonzeroStatus(args[1])
    IN  /\ ~Negated(words)
        /\ \/ CommandWord(words) \in {"false", "kill"}
           \/ CommandWord(words) \in {"exit", "return"} /\ NonzeroExit(Args(words))

\* Words of cs[i] to cs[k] that are in S.

CountIn(cs, i, k, S) == Cardinality(UNION {{j} \X Positions(cs[j].words, S) : j \in i .. k})

\* Mutant: a group is judged by its first command.
GroupFirstCommand(cs, i) == Tail(cs[i].words)

\* The last command of the group opened by cs[i], <<>> when there is none or
\* the group is not closed by its own bracket.
GroupLastCommand(cs, i) ==
    LET closer == IF cs[i].words[1] = "{" THEN "}" ELSE ")"
        end == Least({k \in i .. Len(cs) : CountIn(cs, i, k, {"{", "("}) = CountIn(cs, i, k, {"}", ")"})})
        inner(j) == LET from == IF j = i THEN 2 ELSE 1
                        to == Len(cs[j].words) - IF j = end THEN 1 ELSE 0
                    IN  SubSeq(cs[j].words, from, to)
        full == {j \in i .. end : inner(j) # <<>>}
    IN  IF end = 0 \/ full = {} THEN <<>>
        ELSE IF Last(cs[end].words) # closer THEN <<>>
        ELSE inner(Max(full))

OrBranchSwallows(cs, i) ==
    /\ i <= Len(cs)
    /\ ~CommandPropagates(IF cs[i].words[1] \in {"{", "("} THEN GroupLastCommand(cs, i)
                                                           ELSE cs[i].words)

(***************************************************************************)
(* Compound commands.                                                      *)
(***************************************************************************)
OpenerFrom(words, from) ==
    LET at == Least({p \in from .. Len(words) : words[p] \in Openers})
    IN  IF at # 0 /\ \A p \in from .. at - 1 :
                        IsShellAssignment(words[p]) \/ words[p] \in PrefixWords
        THEN words[at] ELSE ""

OpensCompound(words) ==
    \/ OpenerFrom(words, 1) # ""
    \/ OpenerFrom(words, CaseArmPatternEnd(words) + 1) # ""

ClosesCompound(words) == words[1] \in Closers

\* How many compounds opened from cs[i] on are open before cs[j].
Depth(cs, i, j) == CountIn(cs, i, j - 1, Openers) - CountIn(cs, i, j - 1, Closers)

NoArms == [found |-> FALSE, end |-> 0]

\* The arms of the compound opened by cs[i]: commands at its own depth, a
\* nested compound by its opener. An `elif`, a closer of another kind or no
\* closer at all leave it undetermined.
CompoundArms(cs, i) ==
    LET opener == cs[i].words[Least(Positions(cs[i].words, Openers))]
        end == Least({j \in i + 1 .. Len(cs) : Depth(cs, i, j + 1) = 0})
        own == {j \in i + 1 .. end - 1 : Depth(cs, i, j) = 1}
        keywords(j) == Positions(cs[j].words, {"then", "else", "do", "elif"})
        arm(j) == LET marks == {h \in own : h <= j /\ keywords(h) # {}}
                  IN  IF marks = {} THEN "" ELSE cs[Max(marks)].words[Min(keywords(Max(marks)))]
        of(word) == SetToSortSeq({j \in own : arm(j) = word}, <)
    IN  IF \/ Positions(cs[i].words, Openers) = {}
           \/ end = 0
           \/ cs[end].words[1] # CompoundCloser[opener]
           \/ \E j \in own : arm(j) = "elif"
        THEN NoArms
        ELSE [found |-> TRUE, opener |-> opener, end |-> end,
              then |-> of("then"), else |-> of("else"), body |-> of("do"),
              after |-> IF end < Len(cs) THEN end + 1 ELSE 0]

AbandonsShell(cs, j) ==
    CommandWord(cs[j].words) \in {"exit", "return"} /\ ~CommandPropagates(cs[j].words)

BareExitAfterAnd(cs, j) ==
    /\ j > 1 /\ j <= Len(cs) /\ cs[j - 1].sep = "and"
    /\ CommandWord(cs[j].words) \in {"exit", "return"} /\ Args(cs[j].words) = <<>>

AbandonsShellWhereReached(cs, j) == AbandonsShell(cs, j) \/ BareExitAfterAnd(cs, j)

CompoundAbandonsShell(cs, j) ==
    LET Abandons(arms) ==
            ~arms.found \/ \E k \in j .. arms.end : AbandonsShellWhereReached(cs, k)
    IN  Abandons(CompoundArms(cs, j))

(***************************************************************************)
(* The commands of `sequence` the shell is sure to reach, and whether the  *)
(* walk stopped at a conditional way out of the shell.                     *)
(***************************************************************************)
\* What the walk does at a command the shell reaches for sure, or only if.
Sure(cs, j, leaves) ==
    CASE ClosesCompound(cs[j].words) -> "stop"
      [] ~ClosesCompound(cs[j].words)
         /\ \/ leaves
            \/ /\ ~OpensCompound(cs[j].words)
               /\ CommandWord(cs[j].words) \in {"exit", "return", "break"} -> "last"
      [] OTHER -> "reach"
Perhaps(cs, j, leaves) ==
    IF leaves \/ AbandonsShellWhereReached(cs, j) THEN "abandon" ELSE "pass"

Meets(cs, j, leaves) ==
    IF j > 1 /\ cs[j - 1].sep # "other" THEN Perhaps(cs, j, leaves) ELSE Sure(cs, j, leaves)

RECURSIVE ReachedAtDepth(_, _)
ReachedAtDepth(cs, sequence) ==
    LET j == Head(sequence)
        Onward(leaves) ==
            ReachedAtDepth(cs,
                IF OpensCompound(cs[j].words) /\ ~leaves
                THEN LET Beyond(end) == SelectSeq(sequence, LAMBDA k : k > end)
                     IN  Beyond(CompoundArms(cs, j).end)
                ELSE Tail(sequence))
        Walk(what, walk) ==
            CASE what = "abandon" -> [reached |-> <<>>, abandoned |-> TRUE]
              [] what = "stop" -> [reached |-> <<>>, abandoned |-> FALSE]
              [] what = "last" -> [reached |-> <<j>>, abandoned |-> FALSE]
              [] what = "pass" -> walk
              [] what = "reach" -> [walk EXCEPT !.reached = <<j>> \o @]
        Step(leaves) == Walk(Meets(cs, j, leaves), Onward(leaves))
    IN  IF sequence = <<>> THEN [reached |-> <<>>, abandoned |-> FALSE]
        ELSE Step(OpensCompound(cs[j].words) /\ CompoundAbandonsShell(cs, j))

\* "propagates", "terminates" or "falls through".
Verdict(cs, j) ==
    CASE CommandPropagates(cs[j].words) -> "propagates"
      [] ~CommandPropagates(cs[j].words)
         /\ \/ CommandWord(cs[j].words) \in {"exit", "return", "break"}
            \/ OpensCompound(cs[j].words) /\ CompoundAbandonsShell(cs, j) -> "terminates"
      [] OTHER -> "falls through"

SequenceOutcome(cs, sequence) ==
    LET Outcome(walk, verdicts) ==
            LET deciding == SelectSeq(verdicts, LAMBDA v : v # "falls through")
            IN  IF deciding # <<>> THEN Head(deciding)
                ELSE IF walk.abandoned THEN "terminates" ELSE "falls through"
        Judged(walk) ==
            Outcome(walk, [p \in DOMAIN walk.reached |-> Verdict(cs, walk.reached[p])])
    IN  Judged(ReachedAtDepth(cs, sequence))

SequencePropagates(cs, sequence) == SequenceOutcome(cs, sequence) = "propagates"

\* Mutant: a `break` behind an operator is not one.
BreaksLoopAlways(cs, j) == CommandWord(cs[j].words) = "break" /\ cs[j - 1].sep = "other"

BreaksLoop(cs, j) == CommandWord(cs[j].words) = "break"

(***************************************************************************)
(* A signing in a condition: is the failure still the step's?              *)
(***************************************************************************)
ConditionFailurePropagates(cs, i, negated) ==
    LET Retries(arms) == arms.opener \in {"while", "until"} /\ (arms.opener = "until") # negated
        Taken(arms) == IF Retries(arms) THEN arms.body
                       ELSE IF arms.opener # "if" THEN <<>>
                       ELSE IF negated THEN arms.then ELSE arms.else
        Goes(arms, outcome, afterPropagates) ==
            \/ outcome = "propagates"
            \/ IF Retries(arms)
               THEN /\ ~CompoundAbandonsShell(cs, i)
                    /\ (\E j \in i .. arms.end : BreaksLoop(cs, j)) => afterPropagates
               ELSE outcome = "falls through" /\ afterPropagates
        Propagates(arms) ==
            /\ arms.found
            /\ arms.opener \in {"if", "while", "until"}
            /\ Goes(arms, SequenceOutcome(cs, Taken(arms)),
                    arms.after # 0 /\ SequencePropagates(cs, <<arms.after>>))
    IN  Propagates(CompoundArms(cs, i))

(***************************************************************************)
(* A signing under `set +e`: is its captured status consulted?             *)
(***************************************************************************)
ShellAssignments(words) ==
    LET assigning == CASE CommandIndex(words) = 0 -> words
                       [] CommandWord(words) \in DeclarationWords -> Args(words)
                       [] OTHER -> <<>>
    IN  {Assignments[w] : w \in ToSet(assigning) \cap DOMAIN Assignments}

NamesParameter(args, captured) ==
    \E w \in ToSet(args) \cap DOMAIN ParameterName : ParameterName[w] \in captured

TestsCapturedStatus(words, captured) ==
    \/ CommandWord(words) \in {"[", "test"} /\ NamesParameter(Args(words), captured)
    \/ /\ CommandWord(words) = "[[" /\ Args(words) # <<>> /\ Last(Args(words)) = "]]"
       /\ NamesParameter(Args(words), captured)

PropagatesCapturedStatus(words, captured) ==
    /\ ~Negated(words)
    /\ CommandWord(words) \in {"exit", "return"}
    /\ Args(words) # <<>> /\ NamesParameter(<<Args(words)[1]>>, captured)

\* The names that hold the signing's status at cs[j]: bound from `$?` by the
\* very next command, and by nothing since.
Captured(cs, i, j) ==
    IF cs[i].sep # "other" THEN {}
    ELSE {a.name : a \in {b \in ShellAssignments(cs[i + 1].words) : b.value = "$?"}}
         \ {a.name : a \in UNION {ShellAssignments(cs[k].words) : k \in i + 2 .. j}}

CapturedStatusPropagates(cs, i) ==
    LET ArmPropagates(arms) ==
            /\ arms.found
            /\ \E arm \in {arms.then, arms.else} : SequencePropagates(cs, arm)
        Consults(j, captured) ==
                \/ PropagatesCapturedStatus(cs[j].words, captured)
                \/ /\ TestsCapturedStatus(cs[j].words, captured)
                   /\ \/ /\ cs[j].sep \in {"or", "and"}
                         /\ ~BareExitAfterAnd(cs, j + 1)
                         /\ \/ ~OrBranchSwallows(cs, j + 1)
                            \/ PropagatesCapturedStatus(cs[j + 1].words, captured)
                      \/ InCondition(cs[j].words) /\ ArmPropagates(CompoundArms(cs, j))
    IN  \E j \in ToSet(ReachedAtDepth(cs, [p \in 1 .. Len(cs) - i |-> i + p]).reached) :
            ~Negated(cs[j].words) /\ Consults(j, Captured(cs, i, j))

(***************************************************************************)
(* The verdict on a body.                                                  *)
(***************************************************************************)
\* The `||` branch that ends the list cs[i] opens with `&&`, if there is one.
AndOrTailBranch(cs, i) ==
    LET end == Least({k \in i .. Len(cs) : cs[k].sep # "and"})
    IN  IF end # 0 /\ cs[end].sep = "or" THEN end + 1 ELSE 0

WaitsOnBackgroundedSigning(cs, i) ==
    /\ i <= Len(cs)
    /\ cs[i].sep = "other" /\ ~Negated(cs[i].words)
    /\ CommandWord(cs[i].words) = "wait" /\ Args(cs[i].words) = <<"$!">>

SigningCommand(words) ==
    /\ CommandWord(words) = "cosign" /\ ~RedefinesCosign(words)
    /\ Args(words) # <<>> /\ Args(words)[1] \in {"sign", "sign-blob"}

\* How the signing at cs[i] falls short.
ShortfallsAt(cs, i) ==
    LET words == cs[i].words
        sep == cs[i].sep
        tail == AndOrTailBranch(cs, i)
        short(name, condition) == IF condition THEN {name} ELSE {}
    IN  short("unbundled", "--bundle" \notin ToSet(Args(words)))
        \cup short("in_condition", InCondition(words)
                        /\ ~ConditionFailurePropagates(cs, i, Negated(words)))
        \cup short("negated", ~InCondition(words) /\ Negated(words))
        \cup short("errexit_off", ErrexitOffBefore(cs, i) /\ ~CapturedStatusPropagates(cs, i))
        \cup short("failure_ignored", \/ sep = "or" /\ OrBranchSwallows(cs, i + 1)
                                      \/ sep = "and" /\ tail # 0 /\ OrBranchSwallows(cs, tail))
        \cup short("piped", sep = "pipe" /\ \A k \in 1 .. i - 1 : ~SetsPipefail(cs[k].words))
        \cup short("backgrounded", sep = "background" /\ ~WaitsOnBackgroundedSigning(cs, i + 1))

\* Whether a body signs, and how its signings fall short.
CosignSignInRun(cs) ==
    LET signings == {i \in DOMAIN cs : SigningCommand(cs[i].words)}
    IN  [signs |-> signings # {},
         shortfalls |-> UNION {ShortfallsAt(cs, i) : i \in signings}
                        \cup IF \E i \in DOMAIN cs : RedefinesCosign(cs[i].words)
                             THEN {"redefined"} ELSE {}]

(***************************************************************************)
(* The step's `shell:`, as words; <<>> is the runner's default.            *)
(***************************************************************************)
Option(w) == w \in {"-e", "-eo", "-o", "--norc"}

IsPosixShell(shell) ==
    LET rest == Tail(shell)
        placeholders == Cardinality(Positions(rest, {"{0}"}))
        options == Cardinality({p \in DOMAIN rest : Option(rest[p])})
    IN  \/ shell = <<>>
        \/ /\ shell[1] \in {"bash", "sh"}
           /\ \A p \in DOMAIN rest :
                 \/ rest[p] = "{0}" \/ Option(rest[p])
                 \/ p > 1 /\ rest[p - 1] \in {"-eo", "-o"}
           /\ placeholders = 1 \/ (placeholders = 0 /\ options = 0)

ShellSetsPipefail(shell) ==
    shell = <<"bash">> \/ OptionsSetPipefail(shell)

\* The step is evidence as far as its `run:` body and shell go
\* (sigstore_job_evidence reports no defect for them).
StepSound(cs, shell) ==
    LET Sound(found) ==
            /\ found.signs /\ IsPosixShell(shell)
            /\ found.shortfalls \subseteq IF ShellSetsPipefail(shell) THEN {"piped"} ELSE {}
    IN  Sound(CosignSignInRun(cs))
=============================================================================
