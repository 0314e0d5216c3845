------------------------------ MODULE MCSkill ------------------------------
(***************************************************************************)
(* Skill in four layouts: the binary in a directory, behind a relative     *)
(* link, as Homebrew has it, behind a link through a link, and behind one  *)
(* that goes into a directory and out again. Everything on the way is      *)
(* root's and shut but for at most one door, anywhere; the skill's         *)
(* repository is the user's.                                               *)
(***************************************************************************)
EXTENDS Skill, TLC

System == {"/", "bin", "opt", "v1", "link", "now", "exe"}
MCNode == System \cup {"repo", "dir", "skill", "other", "new1", "new2", "new3"}
MCName == {"bin", "opt", "v1", "now", "sscsb", "repo", "dir", "skill"}
MCTexts == {"", "sscsb", "bundled", "mine"}
MCMutable == [d \in MCNode |-> CASE d = "/" -> {"bin"}
                               [] d = "opt" -> {"now", "v1"}
                               [] d \in {"bin", "v1"} -> {"sscsb"}
                               [] d = "repo" -> {"dir", "sscsb"}
                               [] d = "dir" -> {"skill"}
                               [] OTHER -> {}]
MCInvocation == <<"/", "bin", "sscsb">>
MCSkillPath == <<"/", "repo", "dir", "skill">>
MCTargets == {<<"/", "repo">>, <<"/", "repo", "sscsb">>}

Of(kind) == [Inode(kind) EXCEPT !.owner = "root", !.writable = kind = "link"]
Dir(entries) == [Of("dir") EXCEPT !.entries = entries @@ Empty]
Link(target) == [Of("link") EXCEPT !.target = target]
None == [x \in {} |-> Root]     \* no entries

Plain == [bin |-> "sscsb" :> "exe", opt |-> None, v1 |-> None, link |-> <<"sscsb">>]
Linked == [bin |-> "sscsb" :> "link", opt |-> "v1" :> "v1", v1 |-> "sscsb" :> "exe",
           link |-> <<"..", "opt", "v1", "sscsb">>]
Homebrew == [Linked EXCEPT !.opt = @ @@ "now" :> "now", !.link = <<"..", "opt", "now", "sscsb">>]
Detour == [Plain EXCEPT !.bin = "sscsb" :> "link" @@ "v1" :> "exe", !.link = <<"..", "opt", "..", "bin", "v1">>]

Tree(l) ==
    "/" :> Dir("bin" :> "bin" @@ "opt" :> "opt" @@ "repo" :> "repo")
    @@ "bin" :> Dir(l.bin) @@ "opt" :> Dir(l.opt) @@ "v1" :> Dir(l.v1)
    @@ "link" :> Link(l.link) @@ "now" :> Link(<<"v1">>)
    @@ "exe" :> [Of("file") EXCEPT !.text = "sscsb"]

\* The door: the user's at mode 0555, or writable by everybody, or neither.
Owned(inode) == [inode EXCEPT !.owner = "user"]
Writable(inode) == [inode EXCEPT !.writable = TRUE]

\* The skill, or nothing of that name; "other" is the user's own sscsb, beside its directory.
File(text) == [Inode("file") EXCEPT !.text = text]
ToOther == [Inode("link") EXCEPT !.target = <<"/", "repo", "sscsb">>]
Installed == {Inode("free"), File("bundled"), File("mine"), ToOther}
Repo(skill, other) ==
    LET hasSkill == skill.kind # "free"
    IN  "skill" :> skill
        @@ "other" :> other
        @@ "dir" :> [Inode("dir") EXCEPT !.entries = (IF hasSkill THEN "skill" :> "skill" ELSE None) @@ Empty]
        @@ "repo" :> [Inode("dir") EXCEPT !.entries =
                          "dir" :> "dir" @@ (IF other.kind = "free" THEN None ELSE "sscsb" :> "other") @@ Empty]

Disk(tree, repo) ==
    [n \in MCNode |-> IF n \in System THEN tree[n] ELSE IF n \in DOMAIN repo THEN repo[n] ELSE Inode("free")]

\* Where the doors are tried, the repository is another's.
Others == LET repo == Repo(Inode("free"), File("mine"))
          IN  [repo EXCEPT !["repo"] = [Of("dir") EXCEPT !.entries = repo["repo"].entries],
                           !["dir"] = [Of("dir") EXCEPT !.entries = repo["dir"].entries]]

Doored(l) == {Tree(l)}
             \cup {[Tree(l) EXCEPT ![n] = Owned(@)] : n \in System}
             \cup {[Tree(l) EXCEPT ![n] = Writable(@)] : n \in System \ {"link", "now"}}
MCStarts ==
    {Disk(tree, Others) : tree \in UNION {Doored(l) : l \in {Plain, Linked, Homebrew, Detour}}}
    \cup {Disk(Tree(Plain), Repo(skill, other)) :
              skill \in Installed, other \in {Inode("free"), File("mine")}}
=============================================================================
