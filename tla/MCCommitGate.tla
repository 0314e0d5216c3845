---------------------------- MODULE MCCommitGate ----------------------------
(***************************************************************************)
(* A small instance of CommitGate: one manifest, which may declare a       *)
(* package from its registry or from git or not parse (broken, a symbolic  *)
(* link), and one script, which may hold a secret both scanners recognise, *)
(* or be a submodule instead.                                              *)
(***************************************************************************)
EXTENDS CommitGate

CONSTANTS manifest, script, serdeReg, serdeGit, broken, clean, leak, module,
          serde, fromRegistry, fromGit

MCKindOf == [f \in {manifest, script} |-> IF f = manifest THEN "manifest" ELSE "script"]

MCBlobsOf == [f \in {manifest, script} |->
    IF f = manifest THEN {serdeReg, serdeGit, broken} ELSE {clean, leak, module}]

MCTypeOf == [b \in Blob |-> CASE b = broken -> "link"
                              [] b = module -> "gitlink"
                              [] OTHER -> "file"]

MCRecognised == [s \in Scanner |-> {leak}]

MCDeps == [b \in Content |-> CASE b = serdeReg -> {fromRegistry}
                               [] b = serdeGit -> {fromGit}
                               [] OTHER -> {}]

MCNameOf == [d \in {fromRegistry, fromGit} |-> serde]

On == [secrets |-> TRUE, scanners |-> Scanner, sast |-> TRUE, trailers |-> TRUE,
       aiGate |-> TRUE, trust |-> TRUE, failOpen |-> FALSE]

\* Every gate switched on; the defaults with general.fail_open.
Open == [On EXCEPT !.sast = FALSE, !.failOpen = TRUE]
MCConfigs == {On, Open}

Assisted == [ai |-> "true", complete |-> TRUE, reviewed |-> {}]
MCMessages == {Plain, Assisted, [Assisted EXCEPT !.reviewed = {"manifest"}],
               [Assisted EXCEPT !.complete = FALSE]}
=============================================================================
