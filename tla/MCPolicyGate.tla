---------------------------- MODULE MCPolicyGate ----------------------------
(***************************************************************************)
(* A small instance of PolicyGate. root: alice is human, bot is an agent.  *)
(* promote: the agent makes its own key human; again: on top, it edits     *)
(* the policy again with that key. admit: alice admits carol; evict: carol *)
(* removes alice; work: code only, by the agent; join: the agent's merge   *)
(* of admit and work; undo: its merge of evict and work, which keeps the   *)
(* policy of work and so takes alice's back.                               *)
(***************************************************************************)
EXTENDS PolicyGate

CONSTANTS alice, bot, carol, sshA, sshB, sshC, root, promote, again, admit, evict, work, join, undo

MCPrincipal == {alice, bot, carol}
MCLower == [p \in MCPrincipal |-> p]
MCGpgUid == [k \in {} |-> NoPrincipal]

Signer(p, k, cl) == [principal |-> p, ssh |-> k, gpg |-> NoKey, class |-> cl, hw |-> TRUE]
Original == <<Signer(alice, sshA, "human"), Signer(bot, sshB, "ai")>>
Promoted == <<Signer(alice, sshA, "human"), Signer(bot, sshB, "human")>>
Usurped  == <<Signer(bot, sshB, "human")>>
Admitted == Original \o <<Signer(carol, sshC, "human")>>
Evicted  == Tail(Admitted)

MCCommit == {root, promote, again, admit, evict, work, join, undo}
MCParents == [c \in MCCommit |-> CASE c = root -> <<>>
                                   [] c = again -> <<promote>>
                                   [] c = evict -> <<admit>>
                                   [] c = join -> <<admit, work>>
                                   [] c = undo -> <<evict, work>>
                                   [] OTHER -> <<root>>]
MCAnc == [c \in MCCommit |-> CASE c = root -> {root}
                               [] c = again -> {root, promote, again}
                               [] c = evict -> {root, admit, evict}
                               [] c = join -> {root, admit, work, join}
                               [] c = undo -> {root, admit, evict, work, undo}
                               [] OTHER -> {root, c}]
MCSignatureOf == [c \in MCCommit |->
    [state |-> "intact",
     key |-> CASE c \in {root, admit} -> sshA [] c = evict -> sshC [] OTHER -> sshB]]

MCPolicyAt == [c \in MCCommit |-> CASE c = promote -> Promoted
                                    [] c = again -> Usurped
                                    [] c \in {admit, join} -> Admitted
                                    [] c = evict -> Evicted
                                    [] OTHER -> Original]
=============================================================================
