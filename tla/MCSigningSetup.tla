--------------------------- MODULE MCSigningSetup ---------------------------
(***************************************************************************)
(* `signing setup` with one human, whose address is spelt in two ways, and *)
(* one agent that may be given another name or address.                    *)
(***************************************************************************)
EXTENDS SigningSetup

MCPerson == [me |-> "human", ME |-> "human", bot |-> "agent"]
MCKeyFile == [claude |-> "claude_key", helper |-> "helper_key"]

NoSettings == [is |-> "absent", own |-> {}, env |-> NoIdentity]
NoGit == [readable |-> TRUE, email |-> None, key |-> None, allowed |-> None, on |-> {}]

\* A machine nothing was set up on.
Fresh == [git |-> NoGit, keys |-> {}, settings |-> NoSettings,
          signers |-> [is |-> "absent", lines |-> {}],
          policy |-> [is |-> "absent", lanes |-> {}]]
\* The human signs, and uses the harness; one lane is attested; git's
\* configuration and the two text files need a repair first.
Working == [git |-> [NoGit EXCEPT !.readable = FALSE, !.email = "me", !.key = "human_key"],
            keys |-> {<<"human_key", "private">>, <<"human_key", "public">>},
            settings |-> [is |-> "foreign", own |-> {"hooks"}, env |-> NoIdentity],
            signers |-> [is |-> "foreign", lines |-> {<<"me", "human_key">>}],
            policy |-> [is |-> "good", lanes |-> {"codespaces"}]]
\* Set up by v0.2.0.
Legacy == [Working EXCEPT
    !.git.on = {"gpg.format", "commit.gpgsign"},
    !.keys = @ \cup {<<"legacy_key", "private">>, <<"legacy_key", "public">>},
    !.settings = [is |-> "good", own |-> {"hooks", "core.pager"},
                  env |-> [key |-> "legacy_key", name |-> "claude", email |-> "bot"]],
    !.signers = [is |-> "good", lines |-> {<<"me", "human_key">>, <<"bot", "legacy_key">>}]]

MCStarts == {Fresh, Working, Legacy}
=============================================================================
