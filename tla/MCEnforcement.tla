--------------------------- MODULE MCEnforcement ---------------------------
(***************************************************************************)
(* Enforcement in a repository nothing was set up in, and in a clone of    *)
(* one that was: the clone has the files, not git's configuration.         *)
(***************************************************************************)
EXTENDS Enforcement

Fresh == [config |-> [is |-> "absent", set |-> Unset],
          hook |-> [e \in Event |-> [body |-> "absent", exec |-> FALSE]],
          hooksPath |-> "other", signers |-> "absent", packages |-> "absent",
          ignore |-> [rules |-> 1, ours |-> FALSE, utf8 |-> FALSE]]
Clone == [config |-> [is |-> "file", set |-> [Unset EXCEPT !["protected_branches"] = "main and release",
                                                           !["gitleaks"] = "off"]],
          hook |-> [e \in Event |-> [body |-> "ours", exec |-> TRUE]],
          hooksPath |-> "unset", signers |-> "human", packages |-> "good",
          ignore |-> [rules |-> 1, ours |-> FALSE, utf8 |-> TRUE]]

\* Its owner would rather commit than wait for a scanner, and has commits scanned only.
Lax == [Clone EXCEPT !.config.set["fail_open"] = "on",
                     !.config.set["pre_push_range_scan"] = "off"]

MCStarts == {Fresh, Clone, Lax}
=============================================================================
