---------------------------- MODULE SigningBody ----------------------------
(***************************************************************************)
(* An author writes the `run:` body of a signing step line by line, under  *)
(* some `shell:`; at every point the recogniser's verdict on what is       *)
(* written so far is compared with what the shell may do with it.          *)
(***************************************************************************)
EXTENDS ShellSigning

CONSTANTS
    Shells,         \* the `shell:` values, as words
    Openings,       \* chunks that may stand before the signing
    Signings,       \* chunks with the signing in them
    Followings,     \* chunks that may come after it
    MaxFollowing    \* MaxFollowing[sh]: how many of them, under shell sh

VARIABLES
    shell,      \* the step's effective shell
    body,       \* the script so far
    stage       \* 0 until the signing is written, then 1 more than what follows it

vars == <<shell, body, stage>>

Init ==
    /\ shell \in Shells
    /\ body = <<>>
    /\ stage = 0

WriteOpening ==
    /\ stage = 0
    /\ body = <<>>
    /\ \E chunk \in Openings : body' = chunk
    /\ UNCHANGED <<shell, stage>>

WriteSigning ==
    /\ stage = 0
    /\ \E chunk \in Signings : body' = body \o chunk
    /\ stage' = 1
    /\ UNCHANGED shell

WriteFollowing ==
    /\ stage > 0 /\ stage <= MaxFollowing[shell]
    /\ \E chunk \in Followings : body' = body \o chunk
    /\ stage' = stage + 1
    /\ UNCHANGED shell

Next == WriteOpening \/ WriteSigning \/ WriteFollowing

Spec == Init /\ [][Next]_vars

(***************************************************************************)
(* Verdict and reality.                                                    *)
(***************************************************************************)
Accepted == StepSound(Commands(body), shell)

\* The runner starts its own shells with -e, a custom template with what the
\* template says.
StartsWithErrexit == Len(shell) <= 1 \/ \E p \in DOMAIN shell : shell[p] \in {"-e", "-eo"}

\* A step with this script never ends green after a failed signing.
SignedWhenGreen(script) ==
    \A s \in Ends(script, StartsWithErrexit, ShellSetsPipefail(shell)) :
        s.status = 0 => s.signing # "failed"

(***************************************************************************)
(* What the recogniser does not look at.                                   *)
(***************************************************************************)
\* A captured status tested with the branch on the wrong side: "Which way
\* the test reads is not evaluated" (workflows.rs:2102).
BackwardTest ==
    LET cs == Commands(body)
        works(words) == CommandWord(words) = "[" /\ Args(words)[1] = "$rc" /\ Args(words)[2] = "-eq"
        fails(words) == CommandWord(words) = "[" /\ Args(words)[1] = "$rc" /\ Args(words)[2] = "-ne"
    IN  \E c \in ToSet(cs) : \/ works(c.words) /\ (c.sep = "and" \/ InCondition(c.words))
                             \/ fails(c.words) /\ c.sep = "or"

\* The signing stands where -e is suspended by something other than its own
\* `||` branch or its being the whole of a condition: it opens a list that
\* ends without `||`, is piped within a list, or is inside a compound that is
\* part of a list or a condition.
RECURSIVE SparedIn(_, _)
SparedIn(script, spared) ==
    \E p \in DOMAIN script :
        LET node == script[p].node
            inner == spared \/ script[p].sep # "other"
            end == Least({q \in p .. Len(script) : script[q].sep \notin {"and", "pipe"}})
        IN  CASE node.k = "simple" ->
                    /\ Signs(node.argv)
                    /\ \/ spared
                       \/ script[p].sep = "and" /\ script[end].sep # "or"
                       \/ script[p].sep = "pipe" /\ script[end].sep = "or"
              [] node.k = "if" ->
                    \/ SparedIn(node.yes, inner) \/ SparedIn(node.no, inner)
                    \/ Len(node.test) > 1 /\ SparedIn(node.test, TRUE)
              [] node.k = "loop" -> SparedIn(node.body, inner)
              [] node.k = "group" -> SparedIn(node.body, inner)
              [] node.k = "case" -> SparedIn(node.arm, inner)
              [] node.k = "function" -> FALSE

\* The template of a custom shell leaves -e off: the recogniser takes every
\* POSIX body to start with -e.
OutsideJudgement == BackwardTest \/ SparedIn(body, FALSE) \/ ~StartsWithErrexit

\* A reserved word that is only an argument, as in `echo done`: compound_arms
\* counts it like the reserved word (workflows.rs:1591), although the comment of
\* closes_compound says that "an `echo done` closes nothing".
KeywordArgument ==
    \E c \in ToSet(Commands(body)) :
        \E p \in DOMAIN c.words : /\ c.words[p] \in Openers \cup Closers
                                  /\ CommandIndex(c.words) \in 1 .. p - 1

(***************************************************************************)
(* Properties.                                                             *)
(***************************************************************************)
\* A body the recogniser accepts does not end its step green after a signing
\* that failed, in any run of the shell, but for what it does not look at
\* (cosign_sign_in_run and the walks under it).
AcceptedMeansSigned ==
    Accepted /\ ~OutsideJudgement /\ ~KeywordArgument => SignedWhenGreen(body)

\* Readings that refuse on purpose: no bundle, a redefined cosign, -e off, a
\* status that is no literal, a group judged by its last command, any `break`.
FailsClosed ==
    LET cs == Commands(body)
    IN  \/ CosignSignInRun(cs).shortfalls \cap {"unbundled", "redefined", "errexit_off"} # {}
        \/ \E c \in ToSet(cs) : \/ CommandWord(c.words) = "exit" /\ Args(c.words) = <<"$?">>
                                \/ c.words = <<"{", "exit", "1">>
                                \/ CommandWord(c.words) = "break"

\* A body refused when its signing has just been written is refused for cause:
\* some run of it, with a command after it, ends green with nothing signed.
RefusedForCause ==
    stage = 1 /\ IsPosixShell(shell) /\ ~Accepted /\ ~FailsClosed
        => ~SignedWhenGreen(body \o Line(Run(<<":">>)))
=============================================================================
