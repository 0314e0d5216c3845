----------------------------- MODULE MCPushGate -----------------------------
(***************************************************************************)
(* A small instance of PushGate: a root, an agent's commit and a human's   *)
(* merge of it, a human's commit beside them (two clones may race to land  *)
(* the merge and the commit), two branches, one of them protected, and two *)
(* interchangeable clones. The agent's commit adds a secret, on which the  *)
(* merge builds, and gitleaks may crash.                                   *)
(***************************************************************************)
EXTENDS PushGate, TLC

CONSTANTS alice, Bot, bot, sshA, sshB, root, human, agent, merge, main, topic

MCPrincipal == {alice, bot, Bot}
MCLower == [p \in MCPrincipal |-> IF p = Bot THEN bot ELSE p]
MCGpgUid == [k \in {} |-> NoPrincipal]

MCCommit == {root, human, agent, merge}
MCParents == [c \in MCCommit |-> CASE c = root -> <<>>
                                   [] c = merge -> <<root, agent>>
                                   [] OTHER -> <<root>>]
MCAnc == [c \in MCCommit |-> CASE c = root -> {root}
                               [] c = merge -> {root, agent, merge}
                               [] OTHER -> {root, c}]
MCSignatureOf ==
    [c \in MCCommit |-> [state |-> "intact", key |-> IF c = agent THEN sshB ELSE sshA]]
MCAuthorOf == [c \in MCCommit |-> IF c = agent THEN Bot ELSE alice]
MCAIAssisted == {agent}
MCReviewerOf == [c \in MCCommit |-> IF c = merge THEN alice ELSE NoPrincipal]

Human == [principal |-> alice, ssh |-> sshA, gpg |-> NoKey, class |-> "human", hw |-> TRUE]
Agent == [principal |-> bot, ssh |-> sshB, gpg |-> NoKey, class |-> "ai", hw |-> FALSE]

\* The policy as it should be; the agent's key under a second, human principal;
\* the agent's principal a second time, in another case, as a human.
MCPolicyFiles ==
    {<<Human, Agent>>,
     <<[Human EXCEPT !.ssh = sshB], Agent>>,
     <<[Human EXCEPT !.principal = Bot, !.ssh = sshA], Agent>>}

\* `sscsb init` with agent-signing, require-hardware and review evidence on.
On == [present |-> TRUE, signing |-> TRUE, agents |-> TRUE, hardware |-> TRUE,
       evidence |-> TRUE, rangeScan |-> TRUE, failOpen |-> FALSE]

\* fail_open lets through all that its default does, and what could not be scanned.
GatedConfigs == {[On EXCEPT !.failOpen = TRUE]}

ScannerStates == {[ran |-> Scanner, crashed |-> {}],
                  [ran |-> Scanner, crashed |-> {"gitleaks"}]}

MCInitialRemote == [b \in {main, topic} |-> IF b = main THEN root ELSE NoCommit]

Symmetry == Permutations(Clone)
=============================================================================
