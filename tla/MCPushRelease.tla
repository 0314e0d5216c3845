---------------------------- MODULE MCPushRelease ----------------------------
(***************************************************************************)
(* An instance of PushGate in which one protected branch, `release`, does  *)
(* not exist yet.                                                          *)
(***************************************************************************)
EXTENDS MCPushGate

CONSTANT release

WithoutRelease == [b \in {main, topic, release} |-> IF b = main THEN root ELSE NoCommit]
=============================================================================
