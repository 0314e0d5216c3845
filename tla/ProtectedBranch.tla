--------------------------- MODULE ProtectedBranch ---------------------------
(***************************************************************************)
(* What the pre-push gate promises, with no hook, range or tracking ref in *)
(* sight: a protected branch only ever gains history that has been vouched *)
(* for beforehand, or that a checkout with no gate of its own pushed.      *)
(***************************************************************************)
CONSTANT Commit

VARIABLES
    landed,     \* the commits reachable from a protected branch
    cleared     \* the commits some gate has let through, or never looked at

\* What is there at the start is cleared with it.
Init == /\ cleared \subseteq Commit
        /\ landed \subseteq cleared

\* A gate accepts a push: its commits may now land, none has landed yet.
Clear == /\ \E S \in SUBSET Commit : cleared' = cleared \cup S
         /\ UNCHANGED landed

\* A branch moves: it may lose history (a forced push), and what it gains is
\* cleared.
Land == /\ landed' \subseteq cleared
        /\ UNCHANGED cleared

Next == Clear \/ Land

Spec == Init /\ [][Next]_<<landed, cleared>>

=============================================================================
