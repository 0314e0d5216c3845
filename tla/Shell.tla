------------------------------- MODULE Shell -------------------------------
(***************************************************************************)
(* The shell a GitHub runner hands a `run:` body to: the scripts an author *)
(* can write, how they read as simple commands (what `shell_commands` of   *)
(* workflows.rs splits them into), and what bash does with them. The       *)
(* execution is the reference the recogniser of ShellSigning is compared   *)
(* with. Only the signing can fail on its own; a test of something unknown *)
(* may go either way.                                                      *)
(*                                                                         *)
(* A script is a sequence of items, each a node with what follows it.      *)
(* A quoted or glued word is one word, as it is after tokenisation.        *)
(***************************************************************************)
EXTENDS Naturals, Sequences, SequencesExt

Sep == {"other", "and", "background", "or", "pipe"}

(* Nodes. `bang` is a leading `!`; `if` without `else` has `no` empty. *)
Run(argv) == [k |-> "simple", bang |-> FALSE, argv |-> argv]
Not(argv) == [k |-> "simple", bang |-> TRUE, argv |-> argv]
If(test, yes, no) == [k |-> "if", test |-> test, yes |-> yes, no |-> no]
Loop(word, test, body) == [k |-> "loop", word |-> word, test |-> test, body |-> body]
Group(body) == [k |-> "group", body |-> body]
Case(arm) == [k |-> "case", arm |-> arm]
Function(name) == [k |-> "function", name |-> name]

Item(node, sep) == [node |-> node, sep |-> sep]
Line(node) == <<Item(node, "other")>>

(***************************************************************************)
(* The simple commands of a script: words, and the operator that ended     *)
(* them. Reserved words stand before the first command they govern.        *)
(***************************************************************************)
Command(words, sep) == [words |-> words, sep |-> sep]

Opened(words, commands) ==
    <<[commands[1] EXCEPT !.words = words \o @]>> \o Tail(commands)

RECURSIVE Commands(_)

NodeCommands(node, sep) ==
    CASE node.k = "simple" ->
            <<Command(IF node.bang THEN <<"!">> \o node.argv ELSE node.argv, sep)>>
      [] node.k = "if" ->
            Opened(<<"if">>, Commands(node.test))
            \o Opened(<<"then">>, Commands(node.yes))
            \o (IF node.no = <<>> THEN <<>> ELSE Opened(<<"else">>, Commands(node.no)))
            \o <<Command(<<"fi">>, sep)>>
      [] node.k = "loop" ->
            Opened(<<node.word>>, Commands(node.test))
            \o Opened(<<"do">>, Commands(node.body))
            \o <<Command(<<"done">>, sep)>>
      [] node.k = "group" ->
            Opened(<<"{">>, Commands(node.body)) \o <<Command(<<"}">>, sep)>>
      [] node.k = "case" ->
            Opened(<<"case", "$mode", "in", "release", ")">>, Commands(node.arm))
            \o <<Command(<<"esac">>, sep)>>
      [] node.k = "function" ->
            <<Command(<<"function", node.name, "{", ":">>, "other"), Command(<<"}">>, sep)>>

Commands(script) ==
    FlattenSeq([p \in 1..Len(script) |-> NodeCommands(script[p].node, script[p].sep)])

(***************************************************************************)
(* Execution. A shell state holds `$?`, the options -e and pipefail, the   *)
(* variable rc ("none" while unset), the status of the last background job *)
(* and what became of the last signing. A run of a node or a script has    *)
(* one of the outcomes below; statuses are 0 and 1.                        *)
(***************************************************************************)
Unset == 2

Start(errexit, pipefail) ==
    [status |-> 0, errexit |-> errexit, pipefail |-> pipefail,
     rc |-> Unset, job |-> 1, replaced |-> FALSE, signing |-> "none"]

Continues(s) == [how |-> "next", s |-> s]
Exits(s, status) == [how |-> "exit", s |-> [s EXCEPT !.status = status]]

With(s, status) == [s EXCEPT !.status = status]

\* `[ "$rc" -ne 0 ]` fails when rc is unset, and so does `exit "$rc"`.
StatusOf(word, s) ==
    CASE word = "$?" -> s.status
      [] word = "$rc" -> IF s.rc = Unset THEN 1 ELSE s.rc
      [] word \in {"0", "256"} -> 0
      [] OTHER -> 1

Signs(argv) == \E p \in {1, 3} : /\ Len(argv) > p /\ argv[p] = "cosign" /\ argv[p + 1] = "sign"
                                 /\ p = 3 => SubSeq(argv, 1, 2) = <<"sudo", "-E">>

\* What a simple command does, before -e has its say.
Builtin(argv, s) ==
    CASE Signs(argv) ->
            IF s.replaced THEN {Continues([With(s, 0) EXCEPT !.signing = "failed"])}
            ELSE {Continues([With(s, 0) EXCEPT !.signing = "done"]),
                  Continues([With(s, 1) EXCEPT !.signing = "failed"])}
      [] argv[1] = "false" -> {Continues(With(s, 1))}
      [] argv[1] = "exit" -> {Exits(s, IF Len(argv) = 1 THEN s.status ELSE StatusOf(argv[2], s))}
      [] argv[1] = "break" -> {[how |-> "break", s |-> With(s, 0)]}
      [] argv[1] = "wait" -> {Continues(With(s, IF Len(argv) = 1 THEN 0 ELSE s.job))}
      [] argv[1] = "set" ->
            {Continues([With(s, 0) EXCEPT
                !.errexit = IF argv[2] = "-e" THEN TRUE ELSE IF argv[2] = "+e" THEN FALSE ELSE @,
                !.pipefail = @ \/ argv = <<"set", "-o", "pipefail">>])}
      [] argv = <<"rc=$?">> \/ argv = <<"export", "rc=$?">> ->
            {Continues([With(s, 0) EXCEPT !.rc = s.status])}
      [] argv = <<"rc=0">> -> {Continues([With(s, 0) EXCEPT !.rc = 0])}
      [] argv[1] = "[" /\ argv[2] = "$rc" ->
            {Continues(With(s, IF s.rc # Unset /\ ((s.rc = 0) <=> (argv[3] = "-eq"))
                               THEN 0 ELSE 1))}
      [] argv[1] = "[" /\ argv[2] # "$rc" -> {Continues(With(s, 0)), Continues(With(s, 1))}
      [] OTHER -> {Continues(With(s, 0))}

\* -e: a simple command (or pipeline) that fails where its status is not
\* itself being tested ends the shell.
Fatal(outcome, spared) ==
    IF outcome.how = "next" /\ outcome.s.status # 0 /\ outcome.s.errexit /\ ~spared
    THEN [outcome EXCEPT !.how = "exit"] ELSE outcome

Simple(node, s, spared) ==
    IF node.bang
    THEN {IF o.how = "next" THEN Continues(With(o.s, 1 - o.s.status)) ELSE o
             : o \in Builtin(node.argv, s)}
    ELSE {Fatal(o, spared) : o \in Builtin(node.argv, s)}

RECURSIVE Runs(_, _, _, _)

MaxTurns == 3  \* a loop that has not ended by then is taken not to end

RECURSIVE Turns(_, _, _, _, _)
Turns(node, s, spared, last, turns) ==
    IF turns = 0 THEN {}
    ELSE UNION {
        IF o.how # "next" THEN {o}
        ELSE IF (o.s.status = 0) # (node.word = "while")
             THEN {Continues(With(o.s, last))}
             ELSE UNION {
                CASE b.how = "next" -> Turns(node, b.s, spared, b.s.status, turns - 1)
                  [] b.how = "break" -> {Continues(b.s)}
                  [] b.how = "exit" -> {b}
                : b \in Runs(node.body, 1, o.s, spared)}
        : o \in Runs(node.test, 1, s, TRUE)}

Node(node, s, spared) ==
    CASE node.k = "simple" -> Simple(node, s, spared)
      [] node.k = "if" ->
            UNION {IF o.how # "next" THEN {o}
                   ELSE IF o.s.status = 0 THEN Runs(node.yes, 1, o.s, spared)
                   ELSE IF node.no = <<>> THEN {Continues(With(o.s, 0))}
                   ELSE Runs(node.no, 1, o.s, spared)
                   : o \in Runs(node.test, 1, s, TRUE)}
      [] node.k = "loop" -> Turns(node, s, spared, 0, MaxTurns)
      [] node.k = "group" -> Runs(node.body, 1, s, spared)
      [] node.k = "case" ->
            {Continues(With(s, 0))} \cup Runs(node.arm, 1, s, spared)
      [] node.k = "function" -> {Continues([With(s, 0) EXCEPT !.replaced = TRUE])}

\* What a child process leaves behind: a status, and the signing's fate.
Detached(o, s) == [s EXCEPT !.signing = o.s.signing, !.status = o.s.status]

\* `a | b`: both in children; the status is b's, or any failure's.
Pipeline(a, b, s, spared) ==
    {Fatal(Continues(With(Detached(q, s),
                          IF s.pipefail /\ p.s.status # 0 THEN 1 ELSE q.s.status)), spared)
        : <<p, q>> \in UNION {{<<p, q>> : q \in Node(b, [s EXCEPT !.signing = p.s.signing], spared)}
                               : p \in Node(a, s, TRUE)}}

\* The item reached after the one at p ended with this status.
Reached(script, p, status) ==
    LET open == {"other", "background", IF status = 0 THEN "and" ELSE "or"}
        later == {q \in p + 1 .. Len(script) + 1 : script[q - 1].sep \in open}
    IN  CHOOSE q \in later : \A r \in later : q <= r

\* Every way the script can go from item p on. An element of an AND-OR list
\* that is not its last is spared by -e.
Runs(script, p, s, spared) ==
    IF p > Len(script) THEN {Continues(s)}
    ELSE LET piped == script[p].sep = "pipe"
             last == IF piped THEN p + 1 ELSE p
             sep == script[last].sep
             shielded == spared \/ sep \in {"and", "or"}
             outcomes ==
                IF piped THEN Pipeline(script[p].node, script[last].node, s, shielded)
                ELSE IF sep = "background"
                THEN {Continues([Detached(o, s) EXCEPT !.status = 0, !.job = o.s.status])
                        : o \in Node(script[p].node, s, spared)}
                ELSE Node(script[p].node, s, shielded)
         IN  UNION {IF o.how = "next"
                    THEN Runs(script, Reached(script, last, o.s.status), o.s, spared)
                    ELSE {o} : o \in outcomes}

\* How a step whose body is this script can end.
Ends(script, errexit, pipefail) ==
    {o.s : o \in Runs(script, 1, Start(errexit, pipefail), FALSE)}
=============================================================================
