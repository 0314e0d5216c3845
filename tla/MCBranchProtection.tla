------------------------- MODULE MCBranchProtection -------------------------
(***************************************************************************)
(* Two configured branches, two rulesets, and forges that protect them in  *)
(* the ways the two commands tell apart.                                   *)
(***************************************************************************)
EXTENDS BranchProtection

MCBranches == <<"main", "release">>
MCIds == <<1, 2>>

Lax == [is |-> "set", dismiss |-> FALSE, reviews |-> 2]
Bare == [is |-> "bare", dismiss |-> FALSE, reviews |-> 0]
Loose == [is |-> "set", strict |-> FALSE]
All == [there |-> TRUE, active |-> TRUE, include |-> {"~ALL"}, safe |-> TRUE,
        pr |-> Lax, checks |-> Loose]

Unprotected == [main |-> {}, release |-> {}]
\* One ruleset for everything.
OneForAll == [rulesets |-> <<All, NoRuleset>>, classic |-> Unprotected,
              remote |-> {"main", "release"}]
\* A ruleset each, neither of them complete; main has a bare rule.
OneEach == [rulesets |-> <<[All EXCEPT !.include = {"~DEFAULT_BRANCH"}, !.pr = Bare],
                           [All EXCEPT !.include = {"release"}, !.safe = FALSE]>>,
            classic |-> Unprotected, remote |-> {"main", "release"}]
\* Classic protection, and release not yet made.
Classic == [rulesets |-> <<NoRuleset, NoRuleset>>,
            classic |-> [main |-> Required, release |-> {}], remote |-> {"main"}]

MCStarts == {OneForAll, OneEach, Classic}
=============================================================================
