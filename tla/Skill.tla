------------------------------- MODULE Skill -------------------------------
(***************************************************************************)
(* The bundled agent skill: `sscsb skill check` compares the installed     *)
(* file with the copy inside the binary and says how much its own word is  *)
(* worth, by walking every directory and symbolic link on the way to the   *)
(* binary; `sscsb skill install` writes the file. Beside it, the kernel's  *)
(* own resolution of a path, and a process of the same user that does to   *)
(* the file system whatever modes and ownership allow.                     *)
(*                                                                         *)
(* A path is a sequence of names and ".." that starts with "/", or, as the *)
(* target of a link, may be relative.                                      *)
(***************************************************************************)
EXTENDS Naturals, Sequences, FiniteSets

CONSTANTS
    Node,           \* inodes, those not in use yet included
    Name,           \* what a directory entry may be called
    Texts,          \* what a file may hold; "sscsb" runs, "bundled" is the skill
    Mutable,        \* Mutable[d]: the names the user changes in directory d
    Starts,         \* the file systems a user starts from
    Platforms,      \* "macos", "linux": what current_exe reports
    Invocation,     \* the path the user runs sscsb by
    SkillPath,      \* where the skill is installed
    Targets,        \* what a new link points to
    MaxActs,        \* bound: changes by the user
    MaxWalk         \* bound: steps on the way along a path

Root == "/"
Nowhere == "nowhere"
Errors == {"ENOENT", "EACCES", "ENOTDIR", "ELOOP"}

\* Absolute ("/" comes first and nowhere else), or what a link may hold.
Word == Name \cup {"/", ".."}
IsPath(p) == /\ p \in Seq(Word) /\ p # <<>> /\ Head(p) = "/"
             /\ \A i \in DOMAIN Tail(p) : Tail(p)[i] # "/"
IsTarget(t) == IsPath(t) \/ t \in Seq(Word \ {"/"}) \ {<<>>}

\* writable: to this user; a link has mode 0777 whoever owns it. entries: of a directory.
Empty == [x \in Name |-> Nowhere]
Inode(kind) == [kind |-> kind, entries |-> Empty, target |-> <<>>, text |-> "",
                owner |-> "user", writable |-> TRUE, search |-> TRUE]
Inodes == [kind : {"free", "file", "dir", "link"}, entries : [Name -> Node \cup {Nowhere}],
           target : Seq(Word), text : Texts, owner : {"user", "root"},
           writable : BOOLEAN, search : BOOLEAN]

IsFileSystem(f) ==
    /\ f \in [Node -> Inodes] /\ f[Root].kind = "dir"
    /\ \A n \in Node : /\ f[n].kind = "free" => f[n].owner = "user"
                       /\ f[n].kind = "link" => IsTarget(f[n].target)
                       /\ \A x \in Name : LET m == f[n].entries[x]
                                          IN  m # Nowhere => f[m].kind # "free"

ASSUME SkillAssumption ==
    /\ Root \in Node /\ (Errors \cup {Nowhere}) \cap Node = {}
    /\ {"/", ".."} \cap Name = {}
    /\ {"", "sscsb", "bundled", "mine"} \subseteq Texts
    /\ Mutable \in [Node -> SUBSET Name]
    /\ \A f \in Starts : IsFileSystem(f)
    /\ IsPath(Invocation) /\ \A t \in Targets : IsTarget(t)
    /\ IsPath(SkillPath) /\ Len(SkillPath) > 1 /\ \A i \in DOMAIN SkillPath : SkillPath[i] # ".."
    /\ MaxActs \in Nat /\ MaxWalk \in Nat

VARIABLES
    fs,         \* the file system
    platform,
    run,        \* the command in progress
    strong,     \* history: sscsb has called itself not-user-writable
    acts        \* changes by the user so far

vars == <<fs, platform, run, strong, acts>>

Idle == [at |-> "idle", command |-> "check", force |-> FALSE, dry |-> FALSE, trust |-> "unknown",
         state |-> "missing", undisturbed |-> TRUE, level |-> 0, down |-> FALSE, opened |-> Root]

Init ==
    /\ fs \in Starts /\ platform \in Platforms
    /\ run = Idle /\ acts = 0
    /\ strong = FALSE

(***************************************************************************)
(* The kernel, name by name: the inodes it stands in from the root down,   *)
(* their names, and what is left of the path. `used` are the directories a *)
(* name was looked up in.                                                  *)
(***************************************************************************)
MaxHops == 6    \* ELOOP
Front(s) == SubSeq(s, 1, Len(s) - 1)
At(p) == p.inodes[Len(p.inodes)]
Ended(p) == p.error # "none" \/ p.rest = <<>>

FromRoot(path) == [inodes |-> <<Root>>, names |-> <<"/">>, rest |-> Tail(path),
                   hops |-> 0, error |-> "none", used |-> {}]
Fails(p, e) == [p EXCEPT !.error = e]
Up(p) == IF Len(p.names) = 1 THEN [p EXCEPT !.rest = Tail(@)]
         ELSE [p EXCEPT !.inodes = Front(@), !.names = Front(@), !.rest = Tail(@)]
Down(p, n) == [p EXCEPT !.inodes = Append(@, n), !.names = Append(@, Head(p.rest)), !.rest = Tail(@)]
Through(p, target) ==
    IF Head(target) = "/" THEN [FromRoot(target \o Tail(p.rest)) EXCEPT !.hops = p.hops + 1, !.used = p.used]
    ELSE [p EXCEPT !.rest = target \o Tail(@), !.hops = @ + 1]

LookUp(f, p, follow) ==
    LET d == At(p)
        n == f[d].entries[Head(p.rest)]
        q == [p EXCEPT !.used = @ \cup {d}]
        throughLink == f[n].kind = "link" /\ (follow \/ Len(p.rest) > 1)
    IN  IF Ended(p) THEN p
        ELSE IF f[d].kind # "dir" THEN Fails(p, "ENOTDIR")
        ELSE IF ~f[d].search THEN Fails(p, "EACCES")
        ELSE IF Head(p.rest) = ".." THEN Up(p)
        ELSE IF n = Nowhere THEN Fails(q, "ENOENT")
        ELSE IF ~throughLink THEN Down(q, n)
        ELSE IF p.hops = MaxHops THEN Fails(q, "ELOOP")
        ELSE Through(q, f[n].target)

Walk(f, path, follow) ==
    LET at[k \in Nat] == IF k = 0 THEN FromRoot(path) ELSE LookUp(f, at[k - 1], follow)
    IN  at

Bounded(p) == IF Ended(p) THEN p ELSE Fails(p, "ELOOP")
Namei(f, path, follow) == Bounded(Walk(f, path, follow)[MaxWalk])

EndOf(p) == IF p.error = "none" THEN At(p) ELSE p.error
Follow(f, path) == EndOf(Namei(f, path, TRUE))

\* The entry itself, also when it is a link.
Lstat(f, path) == EndOf(Namei(f, path, FALSE))

\* The path without links that leads to the same inode.
Canonical(f, path) == Namei(f, path, TRUE).names

\* What runs when the user calls sscsb.
Runs == LET n == Follow(fs, Invocation)
        IN  IF n \in Errors \/ fs[n].kind # "file" THEN "nothing" ELSE fs[n].text

(***************************************************************************)
(* resolution_chain: prefix by prefix, starting again at every link.       *)
(***************************************************************************)
MaxResolutionSteps == 64

Begin(seed) == [cur |-> <<>>, rest |-> seed, seen |-> {}, queued |-> {seed}, complete |-> TRUE]
GiveUp(c) == [c EXCEPT !.rest = <<>>, !.complete = FALSE]
Target(link, dir) == IF Head(link.target) = "/" THEN link.target ELSE dir \o link.target

\* Past `here`, where n is.
Pass(f, c, here, n) ==
    LET next == Target(f[n], c.cur) \o Tail(c.rest)
        saw == [c EXCEPT !.seen = @ \cup {here}]
    IN  IF n \in Errors THEN GiveUp(c)
        ELSE IF f[n].kind # "link" THEN [saw EXCEPT !.cur = here, !.rest = Tail(@)]
        ELSE IF next \in c.queued \/ Cardinality(c.queued) = MaxResolutionSteps THEN GiveUp(saw)
        ELSE [saw EXCEPT !.cur = <<>>, !.rest = next, !.queued = @ \cup {next}]

Advance(f, c) ==
    IF c.rest = <<>> THEN c
    ELSE IF Head(c.rest) = ".."
    THEN [c EXCEPT !.cur = IF Len(@) > 1 THEN Front(@) ELSE @, !.rest = Tail(@)]
    ELSE LET here == Append(c.cur, Head(c.rest))
         IN  Pass(f, c, here, Lstat(f, here))

Trail(f, seed) ==
    LET at[k \in Nat] == IF k = 0 THEN Begin(seed) ELSE Advance(f, at[k - 1])
    IN  at

ResolutionChain(f, seed) ==
    LET c == Trail(f, seed)[MaxWalk]
    IN  [seen |-> c.seen, complete |-> c.complete /\ c.rest = <<>>]

\* What exists of the executable, its canonical form and their directories.
FourPoints(f, exe) ==
    LET end == Follow(f, exe)
        points == IF end \in Errors THEN {} ELSE {exe, Canonical(f, exe)}
    IN  [seen |-> points \cup {Front(p) : p \in points}, complete |-> end \notin Errors]

\* The chain of the executable as given and of its canonical form.
Chain(f, exe) ==
    LET end == Follow(f, exe)
        seeds == {exe} \cup (IF end \in Errors THEN {} ELSE {Canonical(f, exe)})
        walks == {ResolutionChain(f, seed) : seed \in seeds}
    IN  [seen |-> UNION {w.seen : w \in walks}, complete |-> \A w \in walks : w.complete]

(***************************************************************************)
(* guarantee_for. faccessat follows a link, lstat does not.                *)
(***************************************************************************)
Answer(b) == IF b THEN "yes" ELSE "no"
\* Modes of the entry itself: those of a link say nothing of what it leads to.
WritableEntry(f, path) == Answer(f[Lstat(f, path)].writable)

WritableByThisUser(f, path) ==
    LET n == Follow(f, path)
    IN  IF n = "EACCES" THEN "no" ELSE IF n \in Errors THEN "unknown" ELSE Answer(f[n].writable)

OwnedByThisUser(f, path) == Answer(f[Lstat(f, path)].owner = "user")

UserCanReplace(f, path) == WritableByThisUser(f, path) = "yes" \/ OwnedByThisUser(f, path) = "yes"
Shut(f, path) == WritableByThisUser(f, path) = "no" /\ OwnedByThisUser(f, path) = "no"

\* Linux reports the executable already resolved; a path that is gone resolves on neither.
CurrentExe == LET n == Follow(fs, Invocation)
              IN  IF platform = "macos" \/ n \in Errors THEN Invocation ELSE Canonical(fs, Invocation)

Guarantee ==
    LET chain == Chain(fs, CurrentExe)
    IN  IF \E p \in chain.seen : UserCanReplace(fs, p) THEN "user-writable"
        ELSE IF chain.complete /\ (\A p \in chain.seen : Shut(fs, p)) /\ platform = "macos"
        THEN "not-user-writable"
        ELSE "unknown"

(***************************************************************************)
(* check and install.                                                      *)
(***************************************************************************)
ReadFile(path) == LET n == Follow(fs, path)
                  IN  IF n \in Errors \/ fs[n].kind # "file" THEN "error" ELSE fs[n].text

Start(command, force, dry) ==
    /\ run.at = "idle" /\ Runs = "sscsb"
    /\ run' = [Idle EXCEPT !.at = "look", !.command = command, !.force = force, !.dry = dry]
    /\ UNCHANGED <<fs, platform, strong, acts>>

\* Absence as Path::exists has it: whatever cannot be opened is not there.
LookWhetherExists ==
    /\ run.at = "look"
    /\ run' = IF Follow(fs, SkillPath) \in Errors
              THEN [run EXCEPT !.at = "decide", !.trust = Guarantee, !.undisturbed = TRUE]
              ELSE [run EXCEPT !.at = "read", !.trust = Guarantee, !.undisturbed = TRUE]
    /\ UNCHANGED <<fs, platform, strong, acts>>

\* Only what is not found is missing; to fail to look is an error.
Look ==
    /\ run.at = "look"
    /\ LET n == Lstat(fs, SkillPath)
           looked == [run EXCEPT !.trust = Guarantee, !.undisturbed = TRUE]
       IN  run' = IF n = "ENOENT" THEN [looked EXCEPT !.at = "decide"]
                  ELSE IF n \in Errors THEN Idle
                  ELSE [looked EXCEPT !.at = "read"]
    /\ UNCHANGED <<fs, platform, strong, acts>>

Compare ==
    /\ run.at = "read"
    /\ LET text == ReadFile(SkillPath)
       IN  run' = IF text = "error" THEN Idle
                  ELSE [run EXCEPT !.at = "decide",
                                   !.state = IF text = "bundled" THEN "identical" ELSE "differs"]
    /\ UNCHANGED <<fs, platform, strong, acts>>

\* The report of check; the plan, the refusal or the go-ahead of install.
Writes == run.state = "missing" \/ (run.state = "differs" /\ run.force)
Decide ==
    /\ run.at = "decide"
    /\ IF run.command = "check"
       THEN strong' = (strong \/ run.trust = "not-user-writable") /\ run' = Idle
       ELSE /\ run' = IF Writes /\ ~run.dry THEN [run EXCEPT !.at = "make directory", !.level = Len(SkillPath) - 1]
                      ELSE Idle
            /\ UNCHANGED strong
    /\ UNCHANGED <<fs, platform, acts>>

Room == \E n \in Node : fs[n].kind = "free"
Spare(f) == CHOOSE n \in Node : f[n].kind = "free"
\* f with a new inode under a name of directory d.
Add(f, d, name, inode) == [f EXCEPT ![Spare(f)] = inode, ![d].entries[name] = Spare(f)]

\* Nothing but the last name is missing: here something can be made.
Vacant(p) == p.error = "ENOENT" /\ Len(p.rest) = 1

\* create_dir_all tries the deepest directory, goes up while the one above is missing, and down
\* again; an existing directory is as good as a made one.
MakeDirectory ==
    /\ run.at = "make directory" /\ Room
    /\ LET here == SubSeq(SkillPath, 1, run.level)
           p == Namei(fs, here, FALSE)
           n == Follow(fs, here)
           next == IF run.level + 1 = Len(SkillPath) THEN [run EXCEPT !.at = "truncate"]
                   ELSE [run EXCEPT !.level = @ + 1, !.down = TRUE]
       IN  IF Vacant(p) /\ fs[At(p)].writable
           THEN fs' = Add(fs, At(p), Head(p.rest), Inode("dir")) /\ run' = next
           ELSE /\ UNCHANGED fs
                /\ run' = IF n \notin Errors /\ fs[n].kind = "dir" THEN next
                          ELSE IF p.error = "ENOENT" /\ ~Vacant(p) /\ ~run.down
                          THEN [run EXCEPT !.level = @ - 1]
                          ELSE Idle
    /\ UNCHANGED <<platform, strong, acts>>

\* fs::write opens with O_CREAT and O_TRUNC: a link is followed, also to what is not there yet.
Truncate ==
    /\ run.at = "truncate" /\ Room
    /\ LET p == Namei(fs, SkillPath, TRUE)
       IN  IF p.error = "none" /\ fs[At(p)].kind = "file" /\ fs[At(p)].writable
           THEN /\ fs' = [fs EXCEPT ![At(p)].text = ""]
                /\ run' = [run EXCEPT !.at = "fill", !.opened = At(p)]
           ELSE IF Vacant(p) /\ fs[At(p)].writable
           THEN /\ fs' = Add(fs, At(p), Head(p.rest), Inode("file"))
                /\ run' = [run EXCEPT !.at = "fill", !.opened = Spare(fs)]
           ELSE run' = Idle /\ UNCHANGED fs
    /\ UNCHANGED <<platform, strong, acts>>

\* To the file that was opened, wherever it is by now.
Fill ==
    /\ run.at = "fill"
    /\ fs' = [fs EXCEPT ![run.opened].text = "bundled"] /\ run' = Idle
    /\ UNCHANGED <<platform, strong, acts>>

Die == run.at # "idle" /\ run' = Idle /\ UNCHANGED <<fs, platform, strong, acts>>

(***************************************************************************)
(* A process of the user, with no elevation.                               *)
(***************************************************************************)
Act == /\ acts < MaxActs /\ acts' = acts + 1
       /\ run' = [run EXCEPT !.undisturbed = run.at = "idle"]
       /\ UNCHANGED <<platform, strong>>
Enters(d) == fs[d].kind = "dir" /\ fs[d].writable /\ fs[d].search

Chmod(n) ==
    /\ fs[n].kind \in {"file", "dir"} /\ fs[n].owner = "user" /\ Act
    /\ \/ fs' = [fs EXCEPT ![n].writable = ~@]
       \/ fs[n].kind = "dir" /\ fs' = [fs EXCEPT ![n].search = ~@]
Save(n) ==
    /\ fs[n].kind = "file" /\ fs[n].writable /\ fs[n].text # "mine" /\ Act
    /\ fs' = [fs EXCEPT ![n].text = "mine"]
\* Moves it aside; an inode is not used again.
Remove(d, x) ==
    /\ Enters(d) /\ fs[d].entries[x] # Nowhere /\ Act
    /\ fs' = [fs EXCEPT ![d].entries[x] = Nowhere]
Create(d, x) ==
    /\ Enters(d) /\ fs[d].entries[x] = Nowhere /\ Room /\ Act
    /\ \E inode \in {[Inode("file") EXCEPT !.text = "mine"]}
                    \cup {[Inode("link") EXCEPT !.target = t] : t \in Targets} :
          fs' = Add(fs, d, x, inode)

User == \/ \E n \in Node : Chmod(n) \/ Save(n)
        \/ \E d \in Node : \E x \in Mutable[d] : Remove(d, x) \/ Create(d, x)

Next ==
    \/ \E force, dry \in BOOLEAN : Start("install", force, dry)
    \/ Start("check", FALSE, FALSE)
    \/ Look \/ Compare \/ Decide \/ MakeDirectory \/ Truncate \/ Fill \/ Die
    \/ User

Spec == Init /\ [][Next]_vars

(***************************************************************************)
(* Properties.                                                             *)
(***************************************************************************)
\* "An unprivileged process that edited the installed skill could not also have edited this
\* check" (skill.rs statement): once sscsb has called itself not-user-writable, what answers to
\* the path it was called by stays sscsb, whatever the user does.
StrongStands == strong => Runs = "sscsb"

\* What modes and ownership let the user put in the place of the binary.
Power(n) == fs[n].writable \/ fs[n].owner = "user"
Replaceable == LET walk == Namei(fs, Invocation, TRUE)
               IN  \E n \in walk.used \cup {At(walk)} : Power(n)
OwnedLink(p) == fs[Lstat(fs, p)].kind = "link" /\ OwnedByThisUser(fs, p) = "yes"
\* Directories the path only goes into and out of again.
LeftAgain == LET walk == Walk(fs, Invocation, TRUE)
             IN  {At(walk[k]) : k \in {j \in 0 .. MaxWalk : ~Ended(walk[j]) /\ Head(walk[j].rest) = ".."}}

\* "This binary can be replaced by the user running it, with no elevation" (skill.rs
\* statement): the weak verdict is as true as the strong one, but for a link the user owns in
\* a directory it does not, which cannot be repointed, and for a directory of the user's that
\* the path leaves again by "..", in which nothing is looked up.
WeakIsEarned ==
    Runs = "sscsb" /\ run.at = "decide" /\ run.undisturbed /\ run.trust = "user-writable" =>
        \/ Replaceable
        \/ \E p \in Chain(fs, CurrentExe).seen : OwnedLink(p)
        \/ \E n \in LeftAgain : Power(n)

\* "Clobbering a maintainer's edited skill silently is the one failure mode this command could
\* plausibly have" (skill.rs install): without --force an install takes no text from any file
\* and leaves a new one only at the skill's own path, unless the user changed something after
\* it looked.
InstallHarmless ==
    [][Truncate /\ ~run.force /\ run.undisturbed =>
         \A n \in Node :
            /\ fs[n].kind = "file" => fs'[n].text = fs[n].text
            /\ fs[n].kind = "free" /\ fs'[n].kind = "file" => n = Lstat(fs', SkillPath)
      ]_vars
=============================================================================
