--------------------------- MODULE MCSigningBody ---------------------------
(***************************************************************************)
(* The vocabulary of bodies: every way of following or enclosing a signing *)
(* the recogniser distinguishes, with arms that fail, end, leave or fall   *)
(* through, and the spellings of a captured status.                        *)
(***************************************************************************)
EXTENDS SigningBody

Sign == Run(<<"cosign", "sign", "--bundle">>)
Bang == Not(<<"cosign", "sign", "--bundle">>)
Echo == Run(<<"echo", "ok">>)
Exit == Run(<<"exit">>)
Exit0 == Run(<<"exit", "0">>)
Exit1 == Run(<<"exit", "1">>)
ExitRc == Run(<<"exit", "$rc">>)
False == Run(<<"false">>)
Break == Run(<<"break">>)
File == Run(<<"[", "-f", "x", "]">>)
Ne == Run(<<"[", "$rc", "-ne", "0", "]">>)
Eq == Run(<<"[", "$rc", "-eq", "0", "]">>)
Rc == Run(<<"rc=$?">>)
Rc0 == Run(<<"rc=0">>)
Set(o) == Run(<<"set", o>>)

Pair(a, sep, b) == <<Item(a, sep), Item(b, "other")>>

MCOpenings == {Line(Set("+e")), Line(Set("+e")) \o Line(Set("-e")),
               Line(Run(<<"set", "-o", "pipefail">>)), Line(Function("cosign")),
               Line(If(Line(File), Line(Set("+e")), <<>>))}

Branches == {False, Exit, Exit0, Echo, Run(<<"exit", "256">>), Run(<<"exit", "$?">>),
             Group(Line(Echo) \o Line(Exit1)), Group(Line(Exit1) \o Line(Echo))}

\* What an arm may do: fail, end the shell, fall through, and each of them
\* after a way out that may not be taken.
Arms == {Line(Exit1), Line(Exit0), Line(Echo), Pair(File, "and", Exit0) \o Line(Exit1),
         Pair(File, "and", Exit) \o Line(Exit1), Pair(File, "or", Exit1),
         Line(If(Line(File), Line(Exit0), <<>>)) \o Line(Exit1),
         Line(If(Line(File), Line(Echo), <<>>)) \o Line(Exit1)}

Escapes == {Line(Break), Line(If(Line(File), Line(Break), <<>>)), Pair(File, "and", Break),
            Line(Loop("while", Line(File), Line(Break)))}

MCSignings ==
    {Line(Sign), Line(Bang), Line(Run(<<"cosign", "sign">>)),
     Line(Run(<<"sudo", "-E", "cosign", "sign", "--bundle">>)),
     <<Item(Sign, "pipe"), Item(Run(<<"tee", "log">>), "other")>>,
     <<Item(Sign, "pipe"), Item(Run(<<"tee", "log">>), "or"), Item(Echo, "other")>>,
     <<Item(Sign, "background")>>, Pair(Sign, "and", Echo), Pair(File, "or", Sign),
     Line(Case(Line(Sign))), Line(Group(Line(Sign))), Pair(Group(Line(Sign)), "or", Echo),
     Line(If(Line(File), Line(Sign), <<>>)), Pair(If(Line(File), Line(Sign), <<>>), "or", Echo),
     Line(If(Pair(File, "and", Sign), Line(Echo), <<>>)),
     Line(Sign) \o Line(Rc), Line(Sign) \o Line(Run(<<"export", "rc=$?">>))}
    \cup {Pair(Sign, "or", b) : b \in Branches}
    \cup {<<Item(Sign, "and"), Item(Echo, "or"), Item(b, "other")>> : b \in Branches}
    \cup {Line(If(Line(Sign), a, <<>>)) : a \in {Line(Echo), Line(Exit1)}}
    \cup {Line(If(Line(Sign), Line(If(Line(File), Line(Run(<<"echo", w>>)), <<>>)) \o Line(Exit1), <<>>))
             : w \in {"done", "while"}}
    \cup {Line(If(Line(Sign), Line(Echo), a)) : a \in Arms}
    \cup {Line(If(Line(Bang), a, <<>>)) : a \in Arms}
    \cup {Line(Loop("until", Line(Sign), a)) : a \in Arms \cup Escapes}
    \cup {Line(Loop("while", Line(t), a)) : t \in {Sign, Bang}, a \in {Line(Exit0), Line(Echo), Line(Break)}}

MCFollowings ==
    {Line(Echo), Line(Exit1), Line(ExitRc), Line(Rc), Line(Rc0), Line(Run(<<"wait", "$!">>)),
     Pair(Ne, "and", Exit1), Pair(Eq, "or", Exit), Pair(Ne, "and", Exit), Pair(Ne, "or", Exit1),
     Pair(File, "and", Exit0), Line(If(Line(Ne), Line(Exit1), <<>>)),
     Line(If(Line(File), Line(Exit0), <<>>))}

MCShells == {<<>>, <<"bash">>, <<"bash", "-eo", "pipefail", "{0}">>, <<"bash", "{0}">>,
             <<"bash", "-e">>, <<"pwsh">>}
MCMaxFollowing == [sh \in MCShells |-> IF sh = <<>> THEN 2 ELSE 0]
=============================================================================
