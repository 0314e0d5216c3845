------------------------------- MODULE Pipes -------------------------------
(***************************************************************************)
(* exec::run_with_stdin: the parent writes all of stdin, closes it, and    *)
(* only then drains the child's output and waits for it. Both pipes hold   *)
(* Capacity units of data. The child is any program: it may read first and *)
(* print then, print first, or print and quit without reading.             *)
(***************************************************************************)
EXTENDS Naturals

CONSTANTS Capacity, MaxData     \* what a pipe holds; bound: data per direction

ASSUME PipesAssumption == Capacity \in Nat \ {0} /\ MaxData \in Nat

VARIABLE call

Habits == {"reads first", "prints first", "quits"}
NoCall == [at |-> "none", size |-> 0, prints |-> 0, habit |-> "quits",
           left |-> 0, stdin |-> 0, owes |-> 0, stdout |-> 0, alive |-> FALSE]

Spawn(size, prints, habit) ==
    call' = [at |-> "writing", size |-> size, prints |-> prints, habit |-> habit,
             left |-> size, stdin |-> 0, owes |-> prints, stdout |-> 0, alive |-> TRUE]

WriteStdin ==
    /\ call.at = "writing" /\ call.left > 0
    /\ call.alive /\ call.stdin < Capacity
    /\ call' = [call EXCEPT !.left = @ - 1, !.stdin = @ + 1]

\* All written, or the pipe is broken, which is ignored.
CloseStdin ==
    /\ call.at = "writing"
    /\ call.left = 0 \/ ~call.alive
    /\ call' = [call EXCEPT !.at = "waiting"]

\* The child is waited for before its output is read.
DrainStdoutLate ==
    /\ call.at = "waiting" /\ call.stdout > 0 /\ ~call.alive
    /\ call' = [call EXCEPT !.stdout = @ - 1]
DrainStdout ==
    /\ call.at = "waiting" /\ call.stdout > 0
    /\ call' = [call EXCEPT !.stdout = @ - 1]

Reap ==
    /\ call.at = "waiting" /\ call.stdout = 0 /\ ~call.alive
    /\ call' = [call EXCEPT !.at = "returned"]

Parent == WriteStdin \/ CloseStdin \/ DrainStdout \/ Reap

AtEof == call.at = "waiting" /\ call.stdin = 0
ReadStdin ==
    /\ call.alive /\ call.stdin > 0
    /\ \/ call.habit = "reads first"
       \/ call.habit = "prints first" /\ call.owes = 0
    /\ call' = [call EXCEPT !.stdin = @ - 1]
PrintStdout ==
    /\ call.alive /\ call.owes > 0 /\ call.stdout < Capacity
    /\ call.habit = "reads first" => AtEof
    /\ call' = [call EXCEPT !.owes = @ - 1, !.stdout = @ + 1]
MayExit == call.alive /\ call.owes = 0 /\ (call.habit = "quits" \/ AtEof)
Exit == MayExit /\ call' = [call EXCEPT !.alive = FALSE]

\* Parent and child each wait for the other: the input does not fit into its
\* pipe, nor the output into its own, and the child prints without having read.
MayBlock == /\ call.habit # "reads first"
            /\ call.size > Capacity /\ call.prints > Capacity
=============================================================================
