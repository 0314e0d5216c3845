---------------------------- MODULE SkillProofs ----------------------------
EXTENDS Skill, SequenceTheorems, WellFoundedInduction, TLAPS

(***************************************************************************)
(* Induction over the naturals, and sequences that are iterated.           *)
(***************************************************************************)
LEMMA NatSteps ==
    ASSUME NEW S, 0 \in S, \A k \in Nat : k \in S => k + 1 \in S
    PROVE  Nat \subseteq S
<1> DEFINE Less == {ss \in Nat \X Nat : ss[1] < ss[2]}
           T == Nat \ S
<1>1. IsWellFoundedOn(Less, Nat)
  BY NatLessThanWellFounded DEF OpToRel
<1>2. \A m, n \in Nat : <<m, n>> \in Less <=> m < n
  OBVIOUS
<1> HIDE DEF Less
<1> SUFFICES ASSUME T # {} PROVE FALSE
  OBVIOUS
<1>3. PICK n \in T : \A m \in T : ~(<<m, n>> \in Less)
  BY <1>1, WFMin
<1>4. n \in Nat /\ n # 0
  OBVIOUS
<1>5. n - 1 \in Nat /\ n - 1 \notin T
  <2>1. n - 1 \in Nat /\ n - 1 < n
    BY <1>4
  <2>2. QED
    BY <1>2, <1>3, <1>4, <2>1
<1>6. n - 1 + 1 \in S
  BY <1>5
<1>7. QED
  BY <1>4, <1>6

\* Whatever maps a set into itself can be iterated from any of its members.
LEMMA Iterates ==
    ASSUME NEW C, NEW a \in C, NEW s \in [C -> C]
    PROVE  \E g \in [Nat -> C] : g[0] = a /\ \A k \in Nat : g[k + 1] = s[g[k]]
<1> DEFINE G(n) == {g \in [0 .. n -> C] : g[0] = a /\ \A k \in 0 .. n - 1 : g[k + 1] = s[g[k]]}
<1>0. \A n \in Nat : \A g : g \in G(n) <=> /\ g \in [0 .. n -> C] /\ g[0] = a
                                           /\ \A k \in 0 .. n - 1 : g[k + 1] = s[g[k]]
  OBVIOUS
<1> HIDE DEF G
<1>1. \A n \in Nat : G(n) # {}
  <2> DEFINE S == {n \in Nat : G(n) # {}}
  <2>1. 0 \in S
    <3> DEFINE g == [k \in 0 .. 0 |-> a]
    <3>1. g \in [0 .. 0 -> C] /\ g[0] = a /\ \A k \in 0 .. 0 - 1 : g[k + 1] = s[g[k]]
      OBVIOUS
    <3> HIDE DEF g
    <3>2. g \in G(0)
      BY <1>0, <3>1
    <3>3. QED
      BY <3>2
  <2>2. ASSUME NEW n \in Nat, n \in S PROVE n + 1 \in S
    <3>1. PICK g : g \in G(n)
      BY <2>2
    <3> DEFINE h == [k \in 0 .. n + 1 |-> IF k = n + 1 THEN s[g[n]] ELSE g[k]]
    <3>2. h \in [0 .. n + 1 -> C] /\ h[0] = a
      BY <1>0, <3>1
    <3>3. ASSUME NEW k \in 0 .. n + 1 - 1 PROVE h[k + 1] = s[h[k]]
      <4>1. k \in 0 .. n /\ k + 1 \in 0 .. n + 1 /\ h[k] = g[k]
        OBVIOUS
      <4>2. CASE k = n
        BY <4>1, <4>2
      <4>3. CASE k \in 0 .. n - 1
        BY <1>0, <3>1, <4>1, <4>3
      <4>4. QED
        BY <4>1, <4>2, <4>3
    <3> HIDE DEF h
    <3>4. n + 1 \in Nat /\ \A k \in 0 .. n + 1 - 1 : h[k + 1] = s[h[k]]
      BY <3>3
    <3>5. h \in G(n + 1)
      <4>1. h \in G(n + 1) <=> /\ h \in [0 .. n + 1 -> C] /\ h[0] = a
                               /\ \A k \in 0 .. n + 1 - 1 : h[k + 1] = s[h[k]]
        BY <1>0, <3>4
      <4>2. QED
        BY <3>2, <3>4, <4>1
    <3>6. QED
      BY <3>5
  <2> HIDE DEF S
  <2>3. Nat \subseteq S
    BY <2>1, <2>2, NatSteps
  <2>4. QED
    BY <2>3 DEF S
<1>2. \A k \in Nat : \A m, n \in Nat : \A g \in G(m), h \in G(n) : k <= m /\ k <= n => g[k] = h[k]
  <2> DEFINE S == {k \in Nat : \A m, n \in Nat : \A g \in G(m), h \in G(n) : k <= m /\ k <= n => g[k] = h[k]}
  <2>1. 0 \in S
    BY <1>0
  <2>2. ASSUME NEW k \in Nat, k \in S PROVE k + 1 \in S
    <3> SUFFICES ASSUME NEW m \in Nat, NEW n \in Nat, NEW g \in G(m), NEW h \in G(n), k + 1 <= m, k + 1 <= n
                 PROVE  g[k + 1] = h[k + 1]
      OBVIOUS
    <3>1. g[k] = h[k]
      <4>1. k <= m /\ k <= n
        OBVIOUS
      <4>2. QED
        BY <2>2, <4>1
    <3>2. g[k + 1] = s[g[k]] /\ h[k + 1] = s[h[k]]
      <4>1. k \in 0 .. m - 1 /\ k \in 0 .. n - 1
        OBVIOUS
      <4>2. QED
        BY <1>0, <4>1
    <3>3. QED
      BY <3>1, <3>2
  <2> HIDE DEF S
  <2>3. Nat \subseteq S
    BY <2>1, <2>2, NatSteps
  <2>4. QED
    BY <2>3 DEF S
<1> DEFINE at(n) == CHOOSE g : g \in G(n)
           all == [n \in Nat |-> at(n)[n]]
<1>3. \A n \in Nat : at(n) \in G(n)
  BY <1>1
<1> HIDE DEF at
<1>4. all \in [Nat -> C]
  BY <1>0, <1>3
<1>5. all[0] = a
  BY <1>0, <1>3
<1>6. ASSUME NEW k \in Nat PROVE all[k + 1] = s[all[k]]
  <2>1. at(k + 1) \in G(k + 1) /\ at(k) \in G(k)
    BY <1>3
  <2>2. at(k + 1)[k + 1] = s[at(k + 1)[k]]
    <3>1. k + 1 \in Nat /\ k \in 0 .. (k + 1) - 1
      OBVIOUS
    <3>2. QED
      BY <1>0, <2>1, <3>1
  <2>3. at(k + 1)[k] = at(k)[k]
    <3>1. k + 1 \in Nat /\ k <= k + 1 /\ k <= k
      OBVIOUS
    <3>2. QED
      BY <1>2, <2>1, <3>1
  <2>4. QED
    BY <2>2, <2>3
<1>7. QED
  BY <1>4, <1>5, <1>6

(***************************************************************************)
(* Sequences.                                                              *)
(***************************************************************************)
LEMMA FrontIs ==
    ASSUME NEW S, NEW s \in Seq(S), s # <<>>
    PROVE  /\ Front(s) \in Seq(S) /\ Len(Front(s)) = Len(s) - 1
           /\ \A i \in 1 .. Len(s) - 1 : Front(s)[i] = s[i]
<1>1. Len(s) \in Nat /\ \A i \in 1 .. Len(s) - 1 : s[i] \in S
  BY LenProperties
<1>2. 1 \in Int /\ Len(s) - 1 \in Int /\ Len(s) # 0
  BY <1>1, EmptySeq
<1>3. \A i \in 1 .. Len(s) - 1 : s[i] \in S
  BY <1>1
<1> DEFINE u == SubSeq(s, 1, Len(s) - 1)
<1>4. /\ u \in Seq(S)
      /\ Len(u) = IF 1 <= Len(s) - 1 THEN Len(s) - 1 - 1 + 1 ELSE 0
      /\ \A i \in 1 .. Len(s) - 1 - 1 + 1 : u[i] = s[1 + i - 1]
  BY <1>2, <1>3, SubSeqProperties
<1>5. Front(s) = u
  BY DEF Front
<1> HIDE DEF u
<1>6. Len(u) = Len(s) - 1
  <2>1. ASSUME NEW l \in Nat, l # 0 PROVE (IF 1 <= l - 1 THEN l - 1 - 1 + 1 ELSE 0) = l - 1
    BY <2>1
  <2>2. QED
    BY <1>1, <1>2, <1>4, <2>1
<1>7. ASSUME NEW i \in 1 .. Len(s) - 1 PROVE u[i] = s[i]
  <2>1. i \in 1 .. Len(s) - 1 - 1 + 1 /\ 1 + i - 1 = i
    BY <1>1
  <2>2. QED
    BY <1>4, <2>1
<1>8. QED
  BY <1>4, <1>5, <1>6, <1>7

LEMMA HeadIs ==
    ASSUME NEW S, NEW s \in Seq(S), s # <<>>
    PROVE  /\ Head(s) = s[1] /\ Head(s) \in S /\ 1 \in DOMAIN s /\ Len(s) >= 1
           /\ Tail(s) \in Seq(S) /\ Len(Tail(s)) = Len(s) - 1
           /\ \A i \in DOMAIN Tail(s) : i + 1 \in DOMAIN s /\ Tail(s)[i] = s[i + 1]
           /\ Tail(s) = <<>> <=> ~(Len(s) > 1)
<1>1. Len(s) \in Nat \ {0} /\ DOMAIN s = 1 .. Len(s)
  BY EmptySeq, LenProperties
<1>2. Tail(s) \in Seq(S) /\ Len(Tail(s)) = Len(s) - 1 /\ \A i \in 1 .. Len(Tail(s)) : Tail(s)[i] = s[i + 1]
  BY HeadTailProperties
<1>3. DOMAIN Tail(s) = 1 .. Len(s) - 1
  BY <1>2, LenProperties
<1>4. Head(s) = s[1] /\ s[1] \in S
  BY <1>1, ElementOfSeq
<1>5. Tail(s) = <<>> <=> ~(Len(s) > 1)
  <2>1. Tail(s) = <<>> <=> Len(Tail(s)) = 0
    BY <1>2, EmptySeq
  <2>2. ASSUME NEW l \in Nat \ {0}, NEW k, k = l - 1 PROVE k = 0 <=> ~(l > 1)
    BY <2>2
  <2>3. QED
    BY <1>1, <1>2, <2>1, <2>2
<1>6. QED
  BY <1>1, <1>2, <1>3, <1>4, <1>5

(***************************************************************************)
(* Where the kernel may stand in f: each inode is the entry of the one     *)
(* before under its name.                                                  *)
(***************************************************************************)
PositionType == [inodes : Seq(Node), names : Seq(Word), rest : Seq(Word), hops : Nat,
                 error : Errors \cup {"none"}, used : SUBSET Node]
Leads(f, inodes, names) ==
    /\ inodes \in Seq(Node) /\ names \in Seq(Word)
    /\ Len(inodes) >= 1 /\ Len(names) = Len(inodes)
    /\ inodes[1] = Root /\ names[1] = "/"
    /\ \A i \in 1 .. Len(inodes) - 1 :
          /\ f[inodes[i]].kind = "dir" /\ f[inodes[i]].search
          /\ names[i + 1] \in Name /\ inodes[i + 1] = f[inodes[i]].entries[names[i + 1]]
NoRoot(s) == \A i \in DOMAIN s : s[i] # "/"
Positions(f) == {p \in PositionType : Leads(f, p.inodes, p.names) /\ NoRoot(p.rest)}

LEMMA NodeTypes ==
    ASSUME NEW f, IsFileSystem(f)
    PROVE  /\ Root \in Node /\ f[Root].kind = "dir" /\ Nowhere \notin Node /\ Errors \cap Node = {}
           /\ "/" \notin Name /\ ".." \notin Name /\ Name \subseteq Word
           /\ f \in [Node -> Inodes]
           /\ \A n \in Node :
                 /\ f[n].kind \in {"free", "file", "dir", "link"} /\ f[n].owner \in {"user", "root"}
                 /\ f[n].writable \in BOOLEAN /\ f[n].search \in BOOLEAN
                 /\ \A x \in Name : f[n].entries[x] \in Node \cup {Nowhere}
                 /\ f[n].kind = "free" => f[n].owner = "user"
                 /\ f[n].kind = "link" => IsTarget(f[n].target)
                 /\ \A x \in Name : f[n].entries[x] # Nowhere => f[f[n].entries[x]].kind # "free"
<1>1. /\ Root \in Node /\ (Errors \cup {Nowhere}) \cap Node = {} /\ {"/", ".."} \cap Name = {}
  BY SkillAssumption
<1>2. /\ f \in [Node -> Inodes] /\ f[Root].kind = "dir"
  BY DEF IsFileSystem
<1>3. ASSUME NEW n \in Node
      PROVE  /\ f[n].kind \in {"free", "file", "dir", "link"} /\ f[n].owner \in {"user", "root"}
             /\ f[n].writable \in BOOLEAN /\ f[n].search \in BOOLEAN
             /\ \A x \in Name : f[n].entries[x] \in Node \cup {Nowhere}
  <2>1. f[n] \in Inodes
    BY <1>2
  <2>2. QED
    BY <2>1 DEF Inodes
<1>4. ASSUME NEW n \in Node
      PROVE  /\ f[n].kind = "free" => f[n].owner = "user"
             /\ f[n].kind = "link" => IsTarget(f[n].target)
             /\ \A x \in Name : f[n].entries[x] # Nowhere => f[f[n].entries[x]].kind # "free"
  BY DEF IsFileSystem
<1>5. QED
  BY <1>1, <1>2, <1>3, <1>4 DEF Word

LEMMA NoRootKept ==
    ASSUME NEW s \in Seq(Word), NoRoot(s)
    PROVE  /\ s # <<>> => Tail(s) \in Seq(Word) /\ NoRoot(Tail(s))
           /\ s # <<>> /\ Head(s) # ".." => Head(s) \in Name
           /\ \A t \in Seq(Word) : NoRoot(t) => t \o s \in Seq(Word) /\ NoRoot(t \o s)
<1>1. s # <<>> => Tail(s) \in Seq(Word) /\ NoRoot(Tail(s))
  BY HeadIs DEF NoRoot
<1>2. s # <<>> /\ Head(s) # ".." => Head(s) \in Name
  BY HeadIs DEF NoRoot, Word
<1>3. ASSUME NEW t \in Seq(Word), NoRoot(t) PROVE t \o s \in Seq(Word) /\ NoRoot(t \o s)
  <2>1. /\ t \o s \in Seq(Word) /\ Len(t \o s) = Len(t) + Len(s)
        /\ \A i \in 1 .. Len(t) + Len(s) : (t \o s)[i] = IF i <= Len(t) THEN t[i] ELSE s[i - Len(t)]
    BY ConcatProperties
  <2>2. DOMAIN t = 1 .. Len(t) /\ DOMAIN s = 1 .. Len(s) /\ Len(t) \in Nat /\ Len(s) \in Nat
    BY LenProperties
  <2>3. DOMAIN (t \o s) = 1 .. Len(t) + Len(s)
    BY <2>1, LenProperties
  <2>4. ASSUME NEW i \in DOMAIN (t \o s) PROVE (t \o s)[i] # "/"
    <3>1. CASE i <= Len(t)
      BY <1>3, <2>1, <2>2, <2>3, <3>1 DEF NoRoot
    <3>2. CASE i > Len(t)
      <4>1. i - Len(t) \in DOMAIN s
        BY <2>2, <2>3, <3>2
      <4>2. QED
        BY <2>1, <2>2, <2>3, <3>2, <4>1 DEF NoRoot
    <3>3. QED
      BY <2>2, <2>3, <3>1, <3>2
  <2>5. QED
    BY <2>1, <2>4 DEF NoRoot
<1>4. QED
  BY <1>1, <1>2, <1>3

LEMMA FromRootSound ==
    ASSUME NEW f, IsFileSystem(f), NEW path, IsPath(path)
    PROVE  FromRoot(path) \in Positions(f)
<1>1. path \in Seq(Word) /\ path # <<>> /\ NoRoot(Tail(path)) /\ Tail(path) \in Seq(Word)
  BY HeadIs DEF IsPath, NoRoot
<1>2. <<Root>> \in Seq(Node) /\ <<"/">> \in Seq(Word) /\ Len(<<Root>>) = 1 /\ Len(<<"/">>) = 1
  BY NodeTypes DEF Word
<1>3. Leads(f, <<Root>>, <<"/">>)
  BY <1>2 DEF Leads
<1>4. FromRoot(path) \in PositionType
  BY <1>1, <1>2 DEF FromRoot, PositionType
<1>5. QED
  BY <1>1, <1>3, <1>4 DEF Positions, FromRoot

(***************************************************************************)
(* One step of the kernel, by what it did: d is the inode it stood in, x   *)
(* the name it looked up, n the entry of that name.                        *)
(***************************************************************************)
Entry(f, p) == f[At(p)].entries[Head(p.rest)]
LooksThrough(f, p, follow) == f[Entry(f, p)].kind = "link" /\ (follow \/ Len(p.rest) > 1)
Passable(f, p) == f[At(p)].kind = "dir" /\ f[At(p)].search
Found(f, p) == Passable(f, p) /\ Head(p.rest) \in Name /\ Entry(f, p) \in Node /\ f[Entry(f, p)].kind # "free"

Cause(f, p, follow) ==
    IF ~Passable(f, p) THEN {"ENOTDIR", "EACCES"}
    ELSE IF Head(p.rest) \in Name /\ Entry(f, p) = Nowhere THEN {"ENOENT"}
    ELSE IF Found(f, p) /\ LooksThrough(f, p, follow) /\ p.hops = MaxHops THEN {"ELOOP"} ELSE {}
Erred(p, q) == /\ q.inodes = p.inodes /\ q.names = p.names /\ q.rest = p.rest /\ q.hops = p.hops
               /\ q.error \in Errors /\ p.used \subseteq q.used /\ q.used \subseteq p.used \cup {At(p)}
WentUp(f, p, q) == /\ Passable(f, p) /\ Head(p.rest) = ".."
                   /\ IF Len(p.names) = 1 THEN q.inodes = p.inodes /\ q.names = p.names
                      ELSE q.inodes = Front(p.inodes) /\ q.names = Front(p.names)
                   /\ q.rest = Tail(p.rest) /\ q.hops = p.hops
                   /\ q.error = "none" /\ q.used = p.used
WentDown(f, p, follow, q) ==
    /\ Found(f, p) /\ ~LooksThrough(f, p, follow)
    /\ q.inodes = Append(p.inodes, Entry(f, p)) /\ q.names = Append(p.names, Head(p.rest))
    /\ q.rest = Tail(p.rest) /\ q.hops = p.hops
    /\ q.error = "none" /\ q.used = p.used \cup {At(p)}
WentThrough(f, p, follow, q) ==
    /\ Found(f, p) /\ LooksThrough(f, p, follow) /\ p.hops # MaxHops
    /\ LET target == f[Entry(f, p)].target
       IN  IF Head(target) = "/"
           THEN q.inodes = <<Root>> /\ q.names = <<"/">> /\ q.rest = Tail(target \o Tail(p.rest))
           ELSE q.inodes = p.inodes /\ q.names = p.names /\ q.rest = target \o Tail(p.rest)
    /\ q.hops = p.hops + 1 /\ q.error = "none" /\ q.used = p.used \cup {At(p)}

LEMMA AtIs ==
    ASSUME NEW f, IsFileSystem(f), NEW p \in Positions(f)
    PROVE  /\ At(p) \in Node /\ At(p) = p.inodes[Len(p.inodes)] /\ Len(p.inodes) \in Nat \ {0}
           /\ p.inodes \in Seq(Node) /\ p.names \in Seq(Word) /\ p.rest \in Seq(Word) /\ p.hops \in Nat
           /\ p.error \in Errors \cup {"none"} /\ p.used \in SUBSET Node
           /\ Len(p.names) = Len(p.inodes) /\ NoRoot(p.rest)
           /\ p.inodes # <<>> /\ p.names # <<>>
<1>1. /\ p.inodes \in Seq(Node) /\ p.names \in Seq(Word) /\ p.rest \in Seq(Word) /\ p.hops \in Nat
      /\ p.error \in Errors \cup {"none"} /\ p.used \in SUBSET Node
  BY DEF Positions, PositionType
<1>2. Len(p.inodes) >= 1 /\ Len(p.names) = Len(p.inodes) /\ NoRoot(p.rest)
  BY DEF Positions, Leads
<1>3. Len(p.inodes) \in Nat /\ Len(p.names) \in Nat
  BY <1>1, LenProperties
<1>4. Len(p.inodes) \in 1 .. Len(p.inodes)
  BY <1>2, <1>3
<1>5. p.inodes[Len(p.inodes)] \in Node
  BY <1>1, <1>4, ElementOfSeq
<1>6. p.inodes # <<>> /\ p.names # <<>>
  BY <1>1, <1>2, EmptySeq
<1>7. QED
  BY <1>1, <1>2, <1>3, <1>5, <1>6 DEF At

LEMMA TargetThen ==
    ASSUME NEW t, IsTarget(t), NEW s \in Seq(Word), NoRoot(s)
    PROVE  /\ t \in Seq(Word) /\ t # <<>> /\ t \o s \in Seq(Word) /\ t \o s # <<>> /\ Head(t \o s) = Head(t)
           /\ Head(t) = "/" => IsPath(t \o s) /\ NoRoot(Tail(t \o s)) /\ Tail(t \o s) \in Seq(Word)
           /\ Head(t) # "/" => NoRoot(t) /\ NoRoot(t \o s)
<1>1. t \in Seq(Word) /\ t # <<>>
  <2>1. CASE IsPath(t)
    BY <2>1 DEF IsPath
  <2>2. CASE t \in Seq(Word \ {"/"}) \ {<<>>}
    BY <2>2
  <2>3. QED
    BY <2>1, <2>2 DEF IsTarget
<1>2. Len(t) \in Nat \ {0} /\ Len(s) \in Nat /\ DOMAIN t = 1 .. Len(t) /\ DOMAIN s = 1 .. Len(s)
  BY <1>1, LenProperties, EmptySeq
<1>3. /\ t \o s \in Seq(Word) /\ Len(t \o s) = Len(t) + Len(s)
      /\ \A i \in 1 .. Len(t) + Len(s) : (t \o s)[i] = IF i <= Len(t) THEN t[i] ELSE s[i - Len(t)]
  BY <1>1, ConcatProperties
<1>4. t \o s # <<>> /\ DOMAIN (t \o s) = 1 .. Len(t) + Len(s)
  BY <1>2, <1>3, LenProperties, EmptySeq
<1>5. Head(t \o s) = Head(t)
  <2>1. 1 \in 1 .. Len(t) + Len(s) /\ 1 <= Len(t)
    BY <1>2
  <2>2. (t \o s)[1] = t[1]
    BY <1>3, <2>1
  <2>3. QED
    BY <1>1, <1>3, <1>4, <2>2, HeadIs
<1>6. ASSUME Head(t) = "/" PROVE IsPath(t \o s) /\ NoRoot(Tail(t \o s)) /\ Tail(t \o s) \in Seq(Word)
  <2>1. IsPath(t)
    <3>1. CASE t \in Seq(Word \ {"/"}) \ {<<>>}
      <4>1. Head(t) \in Word \ {"/"}
        BY <3>1, HeadIs
      <4>2. QED
        BY <1>6, <4>1
    <3>2. QED
      BY <3>1 DEF IsTarget
  <2>2. \A i \in DOMAIN Tail(t) : Tail(t)[i] # "/"
    BY <2>1 DEF IsPath
  <2>3. /\ Tail(t \o s) \in Seq(Word) /\ Len(Tail(t \o s)) = Len(t) + Len(s) - 1
        /\ \A i \in DOMAIN Tail(t \o s) : i + 1 \in DOMAIN (t \o s) /\ Tail(t \o s)[i] = (t \o s)[i + 1]
    BY <1>3, <1>4, HeadIs
  <2>4. /\ Tail(t) \in Seq(Word) /\ Len(Tail(t)) = Len(t) - 1
        /\ \A i \in DOMAIN Tail(t) : Tail(t)[i] = t[i + 1]
    BY <1>1, HeadIs
  <2>5. DOMAIN Tail(t \o s) = 1 .. Len(t) + Len(s) - 1 /\ DOMAIN Tail(t) = 1 .. Len(t) - 1
    BY <2>3, <2>4, LenProperties
  <2>6. ASSUME NEW i \in DOMAIN Tail(t \o s) PROVE Tail(t \o s)[i] # "/"
    <3>1. i \in 1 .. Len(t) + Len(s) - 1 /\ i + 1 \in 1 .. Len(t) + Len(s)
      BY <1>2, <2>5
    <3>2. CASE i + 1 <= Len(t)
      <4>1. i \in DOMAIN Tail(t)
        BY <1>2, <2>5, <3>1, <3>2
      <4>2. QED
        BY <1>3, <2>2, <2>3, <2>4, <3>1, <3>2, <4>1
    <3>3. CASE ~(i + 1 <= Len(t))
      <4>1. i + 1 - Len(t) \in DOMAIN s
        BY <1>2, <3>1, <3>3
      <4>2. QED
        BY <1>3, <2>3, <3>1, <3>3, <4>1 DEF NoRoot
    <3>4. QED
      BY <3>2, <3>3
  <2>7. QED
    BY <1>3, <1>4, <1>5, <1>6, <2>3, <2>6 DEF IsPath, NoRoot
<1>7. ASSUME Head(t) # "/" PROVE NoRoot(t) /\ NoRoot(t \o s)
  <2>1. t \in Seq(Word \ {"/"})
    BY <1>7 DEF IsTarget, IsPath
  <2>2. NoRoot(t)
    BY <1>2, <2>1, ElementOfSeq DEF NoRoot
  <2>3. QED
    BY <1>1, <2>2, NoRootKept
<1>8. QED
  BY <1>1, <1>3, <1>4, <1>5, <1>6, <1>7

LEMMA LeadsUp ==
    ASSUME NEW f, NEW inodes, NEW names, Leads(f, inodes, names), Len(names) # 1
    PROVE  Leads(f, Front(inodes), Front(names))
<1>1. /\ inodes \in Seq(Node) /\ names \in Seq(Word) /\ Len(inodes) >= 1 /\ Len(names) = Len(inodes)
      /\ Len(inodes) \in Nat /\ inodes # <<>> /\ names # <<>>
  BY LenProperties, EmptySeq DEF Leads
<1>2. /\ Front(inodes) \in Seq(Node) /\ Len(Front(inodes)) = Len(inodes) - 1
      /\ \A i \in 1 .. Len(inodes) - 1 : Front(inodes)[i] = inodes[i]
  BY <1>1, FrontIs
<1>3. /\ Front(names) \in Seq(Word) /\ Len(Front(names)) = Len(inodes) - 1
      /\ \A i \in 1 .. Len(inodes) - 1 : Front(names)[i] = names[i]
  BY <1>1, FrontIs
<1>4. Len(inodes) > 1 /\ 1 \in 1 .. Len(inodes) - 1
  BY <1>1
<1>5. ASSUME NEW i \in 1 .. Len(inodes) - 1 - 1
      PROVE  /\ f[Front(inodes)[i]].kind = "dir" /\ f[Front(inodes)[i]].search
             /\ Front(names)[i + 1] \in Name
             /\ Front(inodes)[i + 1] = f[Front(inodes)[i]].entries[Front(names)[i + 1]]
  <2>1. i \in 1 .. Len(inodes) - 1 /\ i + 1 \in 1 .. Len(inodes) - 1
    BY <1>1
  <2>2. /\ Front(inodes)[i] = inodes[i] /\ Front(inodes)[i + 1] = inodes[i + 1]
        /\ Front(names)[i + 1] = names[i + 1]
    BY <1>2, <1>3, <2>1
  <2>3. QED
    BY <2>1, <2>2 DEF Leads
<1>6. Front(inodes)[1] = Root /\ Front(names)[1] = "/"
  BY <1>2, <1>3, <1>4 DEF Leads
<1>7. QED
  BY <1>1, <1>2, <1>3, <1>4, <1>5, <1>6 DEF Leads

LEMMA LeadsDown ==
    ASSUME NEW f, NEW inodes, NEW names, Leads(f, inodes, names), NEW x \in Name, NEW m \in Node,
           f[inodes[Len(inodes)]].kind = "dir", f[inodes[Len(inodes)]].search,
           m = f[inodes[Len(inodes)]].entries[x]
    PROVE  Leads(f, Append(inodes, m), Append(names, x))
<1>1. /\ inodes \in Seq(Node) /\ names \in Seq(Word) /\ Len(inodes) >= 1 /\ Len(names) = Len(inodes)
      /\ Len(inodes) \in Nat
  BY LenProperties DEF Leads
<1> DEFINE a == Append(inodes, m)
           b == Append(names, x)
           l == Len(inodes)
<1>2. /\ a \in Seq(Node) /\ Len(a) = l + 1 /\ \A i \in 1 .. l : a[i] = inodes[i]
      /\ a[l + 1] = m
  BY <1>1, AppendProperties
<1>3. /\ b \in Seq(Word) /\ Len(b) = l + 1 /\ \A i \in 1 .. l : b[i] = names[i]
      /\ b[l + 1] = x
  <2>1. x \in Word
    BY DEF Word
  <2>2. QED
    BY <1>1, <2>1, AppendProperties
<1> HIDE DEF a, b
<1>4. ASSUME NEW i \in 1 .. l + 1 - 1
      PROVE  /\ f[a[i]].kind = "dir" /\ f[a[i]].search
             /\ b[i + 1] \in Name /\ a[i + 1] = f[a[i]].entries[b[i + 1]]
  <2>1. CASE i = l
    BY <1>1, <1>2, <1>3, <2>1
  <2>2. CASE i \in 1 .. l - 1
    <3>1. i \in 1 .. l /\ i + 1 \in 1 .. l
      BY <1>1, <2>2
    <3>2. a[i] = inodes[i] /\ a[i + 1] = inodes[i + 1] /\ b[i + 1] = names[i + 1]
      BY <1>2, <1>3, <3>1
    <3>3. QED
      BY <2>2, <3>2 DEF Leads
  <2>3. QED
    BY <1>1, <2>1, <2>2
<1>5. a[1] = Root /\ b[1] = "/"
  <2>1. 1 \in 1 .. l
    BY <1>1
  <2>2. QED
    BY <1>2, <1>3, <2>1 DEF Leads
<1>6. QED
  BY <1>1, <1>2, <1>3, <1>4, <1>5 DEF Leads, a, b

LEMMA ThroughType ==
    ASSUME NEW f, IsFileSystem(f), NEW z \in PositionType, NEW t, IsTarget(t),
           Tail(z.rest) \in Seq(Word), NoRoot(Tail(z.rest))
    PROVE  Through(z, t) \in PositionType
<1>1. \A y \in PositionType, h \in Nat : [y EXCEPT !.hops = h] \in PositionType
  BY DEF PositionType
<1>2. \A y \in PositionType, w \in SUBSET Node : [y EXCEPT !.used = w] \in PositionType
  BY DEF PositionType
<1>3. \A y \in PositionType, s \in Seq(Word) : [y EXCEPT !.rest = s] \in PositionType
  BY DEF PositionType
<1>4. z.hops + 1 \in Nat /\ z.used \in SUBSET Node /\ t \o Tail(z.rest) \in Seq(Word)
  <2>1. t \o Tail(z.rest) \in Seq(Word)
    BY TargetThen
  <2>2. z.hops \in Nat /\ z.used \in SUBSET Node
    BY DEF PositionType
  <2>3. QED
    BY <2>1, <2>2
<1> DEFINE h == z.hops + 1
           r == FromRoot(t \o Tail(z.rest))
<1> HIDE DEF h, r
<1>5. CASE Head(t) = "/"
  <2>1. r \in PositionType
    BY <1>5, TargetThen, FromRootSound DEF Positions, r
  <2>2. [r EXCEPT !.hops = h] \in PositionType
    BY <1>1, <1>4, <2>1 DEF h
  <2>3. [[r EXCEPT !.hops = h] EXCEPT !.used = z.used] \in PositionType
    BY <1>2, <1>4, <2>2
  <2>4. QED
    BY <1>5, <2>3 DEF Through, h, r
<1>6. CASE Head(t) # "/"
  <2>1. [z EXCEPT !.rest = t \o Tail(z.rest)] \in PositionType
    BY <1>3, <1>4
  <2>2. [[z EXCEPT !.rest = t \o Tail(z.rest)] EXCEPT !.hops = z.hops + 1] \in PositionType
    BY <1>1, <1>4, <2>1
  <2>3. Through(z, t) = [[z EXCEPT !.rest = t \o Tail(z.rest)] EXCEPT !.hops = z.hops + 1]
    BY <1>6 DEF Through, PositionType
  <2>4. QED
    BY <2>2, <2>3
<1>7. QED
  BY <1>5, <1>6

LEMMA LookUpSteps ==
    ASSUME NEW f, IsFileSystem(f), NEW p \in Positions(f), ~Ended(p), NEW follow, NEW q, q = LookUp(f, p, follow)
    PROVE  /\ q \in PositionType
           /\ \/ Erred(p, q) /\ q.error \in Cause(f, p, follow)
              \/ WentUp(f, p, q) \/ WentDown(f, p, follow, q) \/ WentThrough(f, p, follow, q)
<1> DEFINE d == At(p)
           x == Head(p.rest)
           n == f[d].entries[x]
           u == [p EXCEPT !.used = @ \cup {d}]
<1>1. p \in PositionType /\ d \in Node /\ p.error = "none" /\ p.rest # <<>>
  BY AtIs DEF Ended, Positions
<1>2. p \in [inodes : Seq(Node), names : Seq(Word), rest : Seq(Word), hops : Nat,
             error : Errors \cup {"none"}, used : SUBSET Node]
  BY <1>1 DEF PositionType
<1>3. x # ".." => x \in Name
  BY <1>1, AtIs, NoRootKept
<1>4. x \in Name => n \in Node \cup {Nowhere} /\ (n # Nowhere => f[n].kind # "free")
  BY <1>1, NodeTypes
<1>5. /\ u.inodes = p.inodes /\ u.names = p.names /\ u.rest = p.rest /\ u.hops = p.hops
      /\ u.error = "none" /\ u.used = p.used \cup {d} /\ u \in PositionType
  BY <1>1, <1>2 DEF PositionType
<1>6. \A e \in Errors : /\ Erred(p, Fails(p, e)) /\ Fails(p, e) \in PositionType
                        /\ Erred(p, Fails(u, e)) /\ Fails(u, e) \in PositionType
                        /\ Fails(p, e).error = e /\ Fails(u, e).error = e
  BY <1>1, <1>2, <1>5 DEF Erred, Fails, PositionType
<1>7. CASE f[d].kind # "dir" \/ ~f[d].search
  <2>1. q = Fails(p, "ENOTDIR") \/ q = Fails(p, "EACCES")
    BY <1>1, <1>7 DEF LookUp, Ended
  <2>2. Cause(f, p, follow) = {"ENOTDIR", "EACCES"}
    BY <1>7 DEF Cause, Passable
  <2>3. QED
    BY <1>6, <2>1, <2>2 DEF Errors
<1>8. CASE f[d].kind = "dir" /\ f[d].search /\ x = ".."
  <2>1. q = Up(p)
    BY <1>1, <1>8 DEF LookUp, Ended
  <2>2. WentUp(f, p, q)
    BY <1>2, <1>1, <1>8, <2>1 DEF WentUp, Up, Passable
  <2>3. Front(p.inodes) \in Seq(Node) /\ Front(p.names) \in Seq(Word) /\ Tail(p.rest) \in Seq(Word)
    BY <1>1, AtIs, FrontIs, HeadIs
  <2>4. q \in PositionType
    BY <1>2, <2>1, <2>3 DEF Up, PositionType
  <2>5. QED
    BY <2>2, <2>4
<1>9. CASE f[d].kind = "dir" /\ f[d].search /\ x # ".." /\ n = Nowhere
  <2>1. q = Fails(u, "ENOENT")
    BY <1>1, <1>9 DEF LookUp, Ended
  <2>2. Cause(f, p, follow) = {"ENOENT"}
    BY <1>3, <1>9 DEF Cause, Passable, Entry
  <2>3. QED
    BY <1>6, <2>1, <2>2 DEF Errors
<1>10. CASE f[d].kind = "dir" /\ f[d].search /\ x # ".." /\ n # Nowhere
  <2>1. Found(f, p) /\ n = Entry(f, p)
    BY <1>3, <1>4, <1>10 DEF Found, Passable, Entry
  <2>2. CASE ~LooksThrough(f, p, follow)
    <3>1. q = Down(u, n)
      BY <1>1, <1>10, <2>1, <2>2 DEF LookUp, Ended, LooksThrough, Entry
    <3>2. WentDown(f, p, follow, q)
      BY <1>5, <2>1, <2>2, <3>1 DEF WentDown, Down, PositionType
    <3>3. Append(u.inodes, n) \in Seq(Node) /\ Append(u.names, Head(p.rest)) \in Seq(Word) /\ Tail(u.rest) \in Seq(Word)
      BY <1>1, <1>2, <1>5, <2>1, HeadIs, AppendProperties DEF Found, Word
    <3>4. q \in PositionType
      BY <1>5, <3>1, <3>3 DEF Down, PositionType
    <3>5. QED
      BY <3>2, <3>4
  <2>3. CASE LooksThrough(f, p, follow) /\ p.hops = MaxHops
    <3>1. q = Fails(u, "ELOOP")
      BY <1>1, <1>10, <2>1, <2>3 DEF LookUp, Ended, LooksThrough, Entry
    <3>2. Cause(f, p, follow) = {"ELOOP"}
      BY <1>10, <2>1, <2>3 DEF Cause, Found
    <3>3. QED
      BY <1>6, <3>1, <3>2 DEF Errors
  <2>4. CASE LooksThrough(f, p, follow) /\ p.hops # MaxHops
    <3>1. q = Through(u, f[n].target)
      BY <1>1, <1>10, <2>1, <2>4 DEF LookUp, Ended, LooksThrough, Entry
    <3>2. WentThrough(f, p, follow, q)
      <4>1. q.hops = p.hops + 1 /\ q.error = "none" /\ q.used = p.used \cup {d}
        BY <1>5, <3>1 DEF Through, FromRoot, PositionType
      <4>2. IF Head(f[n].target) = "/"
            THEN q.inodes = <<Root>> /\ q.names = <<"/">> /\ q.rest = Tail(f[n].target \o Tail(p.rest))
            ELSE q.inodes = p.inodes /\ q.names = p.names /\ q.rest = f[n].target \o Tail(p.rest)
        BY <1>5, <3>1 DEF Through, FromRoot, PositionType
      <4>3. QED
        BY <2>1, <2>4, <4>1, <4>2 DEF WentThrough
    <3>3. IsTarget(f[n].target) /\ Tail(p.rest) \in Seq(Word) /\ NoRoot(Tail(p.rest))
      BY <1>1, <2>1, <2>4, AtIs, NodeTypes, NoRootKept DEF LooksThrough, Found
    <3>4. q \in PositionType
      BY <1>5, <3>1, <3>3, ThroughType
    <3>5. QED
      BY <3>2, <3>4
  <2>5. QED
    BY <2>2, <2>3, <2>4
<1>11. QED
  BY <1>7, <1>8, <1>9, <1>10

\* Where a walk may stand: in use all the way, and no link, but for an end that is not followed.
Reached(f, follow) ==
    {p \in Positions(f) : \A i \in 1 .. Len(p.inodes) :
        /\ f[p.inodes[i]].kind # "free"
        /\ f[p.inodes[i]].kind = "link" => ~follow /\ p.rest = <<>>}

LEMMA FromRootReaches ==
    ASSUME NEW f, IsFileSystem(f), NEW path, IsPath(path), NEW follow
    PROVE  FromRoot(path) \in Reached(f, follow)
<1>1. FromRoot(path) \in Positions(f) /\ FromRoot(path).inodes = <<Root>>
  BY FromRootSound DEF FromRoot
<1>2. \A i \in 1 .. Len(<<Root>>) : <<Root>>[i] = Root
  OBVIOUS
<1>3. f[Root].kind = "dir"
  BY NodeTypes
<1>4. QED
  BY <1>1, <1>2, <1>3 DEF Reached

LEMMA LookUpReaches ==
    ASSUME NEW f, IsFileSystem(f), NEW follow, NEW p \in Reached(f, follow)
    PROVE  LookUp(f, p, follow) \in Reached(f, follow)
<1> DEFINE q == LookUp(f, p, follow)
           l == Len(p.inodes)
           n == Entry(f, p)
<1>1. p \in Positions(f) /\ p \in PositionType /\ Leads(f, p.inodes, p.names)
  BY DEF Reached, Positions
<1>2. \A i \in 1 .. l : /\ f[p.inodes[i]].kind # "free"
                        /\ f[p.inodes[i]].kind = "link" => ~follow /\ p.rest = <<>>
  BY DEF Reached
<1>3. CASE Ended(p)
  BY <1>3 DEF LookUp
<1>4. ASSUME ~Ended(p) PROVE q \in Reached(f, follow)
  <2> HIDE DEF q
  <2>1. q \in PositionType
    BY <1>1, <1>4, LookUpSteps DEF q
  <2>2. p.rest # <<>> /\ p.rest \in Seq(Word) /\ NoRoot(p.rest) /\ l \in Nat \ {0}
        /\ p.inodes \in Seq(Node) /\ p.inodes # <<>> /\ p.names \in Seq(Word) /\ Len(p.names) = l
    BY <1>1, <1>4, AtIs DEF Ended
  <2>3. Tail(p.rest) \in Seq(Word) /\ NoRoot(Tail(p.rest))
    BY <2>2, NoRootKept
  <2>4. \A i \in 1 .. l : f[p.inodes[i]].kind # "free" /\ f[p.inodes[i]].kind # "link"
    BY <1>2, <2>2
  <2>5. CASE Erred(p, q)
    BY <1>1, <1>2, <2>1, <2>2, <2>5 DEF Erred, Reached, Positions
  <2>6. CASE WentUp(f, p, q)
    <3>1. CASE l = 1
      <4>1. q.inodes = p.inodes /\ q.names = p.names /\ q.rest = Tail(p.rest)
        BY <2>2, <2>6, <3>1 DEF WentUp
      <4>2. QED
        BY <1>1, <2>1, <2>3, <2>4, <4>1 DEF Reached, Positions
    <3>2. CASE l # 1
      <4>1. q.inodes = Front(p.inodes) /\ q.names = Front(p.names) /\ q.rest = Tail(p.rest)
        BY <2>2, <2>6, <3>2 DEF WentUp
      <4>2. Leads(f, q.inodes, q.names)
        BY <1>1, <2>2, <3>2, <4>1, LeadsUp
      <4>3. Len(q.inodes) = l - 1 /\ \A i \in 1 .. l - 1 : q.inodes[i] = p.inodes[i]
        BY <2>2, <4>1, FrontIs
      <4>4. \A i \in 1 .. Len(q.inodes) : i \in 1 .. l /\ q.inodes[i] = p.inodes[i]
        BY <2>2, <4>3
      <4>5. QED
        BY <2>1, <2>3, <2>4, <4>1, <4>2, <4>4 DEF Reached, Positions
    <3>3. QED
      BY <3>1, <3>2
  <2>7. CASE WentDown(f, p, follow, q)
    <3>1. q.inodes = Append(p.inodes, n) /\ q.names = Append(p.names, Head(p.rest)) /\ q.rest = Tail(p.rest)
      BY <2>7 DEF WentDown
    <3>2. /\ f[At(p)].kind = "dir" /\ f[At(p)].search /\ Head(p.rest) \in Name /\ n \in Node /\ f[n].kind # "free"
      BY <2>7 DEF WentDown, Found, Passable
    <3>3. Leads(f, q.inodes, q.names)
      BY <1>1, <3>1, <3>2, LeadsDown DEF At, Entry
    <3>4. Len(q.inodes) = l + 1 /\ q.inodes[l + 1] = n /\ \A i \in 1 .. l : q.inodes[i] = p.inodes[i]
      BY <2>2, <3>1, <3>2, AppendProperties
    <3>5. f[n].kind = "link" => ~follow /\ q.rest = <<>>
      <4>1. f[n].kind = "link" => ~follow /\ ~(Len(p.rest) > 1)
        BY <2>7 DEF WentDown, LooksThrough
      <4>2. ~(Len(p.rest) > 1) => Tail(p.rest) = <<>>
        BY <2>2, HeadIs
      <4>3. QED
        BY <3>1, <4>1, <4>2
    <3>6. ASSUME NEW i \in 1 .. Len(q.inodes)
          PROVE  f[q.inodes[i]].kind # "free" /\ (f[q.inodes[i]].kind = "link" => ~follow /\ q.rest = <<>>)
      <4>1. CASE i \in 1 .. l
        BY <2>4, <3>4, <4>1
      <4>2. CASE i = l + 1
        BY <3>2, <3>4, <3>5, <4>2
      <4>3. QED
        BY <2>2, <3>4, <4>1, <4>2
    <3>7. QED
      BY <2>1, <2>3, <3>1, <3>3, <3>6 DEF Reached, Positions
  <2>8. CASE WentThrough(f, p, follow, q)
    <3>1. IsTarget(f[n].target)
      BY <2>8, NodeTypes DEF WentThrough, LooksThrough, Found
    <3>2. CASE Head(f[n].target) = "/"
      <4>1. q.inodes = <<Root>> /\ q.names = <<"/">> /\ q.rest = Tail(f[n].target \o Tail(p.rest))
        BY <2>8, <3>2 DEF WentThrough
      <4>2. IsPath(f[n].target \o Tail(p.rest))
        BY <2>3, <3>1, <3>2, TargetThen
      <4>3. /\ Leads(f, <<Root>>, <<"/">>) /\ NoRoot(q.rest)
            /\ \A i \in 1 .. Len(<<Root>>) : f[<<Root>>[i]].kind # "free" /\ f[<<Root>>[i]].kind # "link"
        <5>1. FromRoot(f[n].target \o Tail(p.rest)) \in Positions(f)
          BY <4>2, FromRootSound
        <5>2. f[Root].kind = "dir"
          BY NodeTypes
        <5>3. QED
          <6>1. NoRoot(q.rest) /\ Leads(f, <<Root>>, <<"/">>)
            BY <4>1, <5>1 DEF FromRoot, Positions
          <6>2. \A i \in 1 .. Len(<<Root>>) : <<Root>>[i] = Root
            OBVIOUS
          <6>3. QED
            BY <5>2, <6>1, <6>2
      <4>4. QED
        BY <2>1, <4>1, <4>3 DEF Reached, Positions
    <3>3. CASE Head(f[n].target) # "/"
      <4>1. q.inodes = p.inodes /\ q.names = p.names /\ q.rest = f[n].target \o Tail(p.rest)
        BY <2>8, <3>3 DEF WentThrough
      <4>2. NoRoot(q.rest)
        BY <2>3, <3>1, <3>3, <4>1, TargetThen
      <4>3. QED
        BY <1>1, <2>1, <2>4, <4>1, <4>2 DEF Reached, Positions
    <3>4. QED
      BY <3>2, <3>3
  <2>9. QED
    BY <1>1, <1>4, <2>5, <2>6, <2>7, <2>8, LookUpSteps DEF q
<1>5. QED
  BY <1>3, <1>4

(***************************************************************************)
(* A walk, step by step.                                                   *)
(***************************************************************************)
LEMMA WalkIs ==
    ASSUME NEW f, IsFileSystem(f), NEW path, IsPath(path), NEW follow
    PROVE  /\ Walk(f, path, follow) \in [Nat -> Reached(f, follow)]
           /\ Walk(f, path, follow)[0] = FromRoot(path)
           /\ \A k \in Nat : Walk(f, path, follow)[k + 1] = LookUp(f, Walk(f, path, follow)[k], follow)
<1> DEFINE C == Reached(f, follow)
           s == [p \in C |-> LookUp(f, p, follow)]
           Is(g) == g = [k \in Nat |-> IF k = 0 THEN FromRoot(path) ELSE LookUp(f, g[k - 1], follow)]
<1>1. FromRoot(path) \in C /\ s \in [C -> C]
  BY FromRootReaches, LookUpReaches
<1>2. PICK g \in [Nat -> C] : g[0] = FromRoot(path) /\ \A k \in Nat : g[k + 1] = s[g[k]]
  <2> HIDE DEF C, s
  <2>1. QED
    BY <1>1, Iterates
<1>3. Is(g)
  <2>1. ASSUME NEW k \in Nat PROVE g[k] = IF k = 0 THEN FromRoot(path) ELSE LookUp(f, g[k - 1], follow)
    <3>1. CASE k # 0
      <4>1. k - 1 \in Nat /\ k - 1 + 1 = k
        BY <3>1
      <4>2. g[k] = s[g[k - 1]] /\ g[k - 1] \in C
        BY <1>2, <4>1
      <4>3. QED
        BY <3>1, <4>2
    <3>2. QED
      BY <1>2, <3>1
  <2>2. g = [k \in Nat |-> g[k]]
    BY <1>2
  <2> HIDE DEF C
  <2>3. QED
    BY <2>1, <2>2
<1> DEFINE w == CHOOSE h : Is(h)
<1>4. Walk(f, path, follow) = w
  BY DEF Walk
<1>5. Is(w)
  BY <1>3
<1>6. w = [k \in Nat |-> IF k = 0 THEN FromRoot(path) ELSE LookUp(f, w[k - 1], follow)]
  BY <1>5
<1> HIDE DEF w, Is
<1>7. w[0] = FromRoot(path)
  BY <1>6
<1>8. ASSUME NEW k \in Nat PROVE w[k + 1] = LookUp(f, w[k], follow)
  <2>1. k + 1 \in Nat /\ k + 1 # 0 /\ k + 1 - 1 = k
    OBVIOUS
  <2>2. QED
    BY <1>6, <2>1
<1>9. w \in [Nat -> C]
  <2> DEFINE S == {k \in Nat : w[k] \in C}
  <2>1. 0 \in S
    BY <1>1, <1>7
  <2>2. \A k \in Nat : k \in S => k + 1 \in S
    BY <1>8, LookUpReaches
  <2>3. Nat \subseteq S
    <3> HIDE DEF S
    <3>1. QED
      BY <2>1, <2>2, NatSteps
  <2>4. \A k \in Nat : w[k] \in C
    BY <2>3
  <2> HIDE DEF C
  <2>5. QED
    BY <1>6, <2>4
<1>10. QED
  BY <1>4, <1>7, <1>8, <1>9

IsWalk(f, path, follow, w) == IsFileSystem(f) /\ IsPath(path) /\ w = Walk(f, path, follow)

LEMMA WalkSteps ==
    ASSUME NEW f, NEW path, NEW follow, NEW w, IsWalk(f, path, follow, w)
    PROVE  /\ IsFileSystem(f) /\ IsPath(path)
           /\ w \in [Nat -> Reached(f, follow)] /\ w[0] = FromRoot(path)
           /\ \A k \in Nat : /\ w[k + 1] = LookUp(f, w[k], follow)
                             /\ w[k] \in Reached(f, follow) /\ w[k] \in Positions(f)
           /\ MaxWalk \in Nat
<1>1. /\ w \in [Nat -> Reached(f, follow)] /\ w[0] = FromRoot(path)
      /\ \A k \in Nat : w[k + 1] = LookUp(f, w[k], follow)
  BY WalkIs DEF IsWalk
<1>2. \A k \in Nat : w[k] \in Reached(f, follow)
  BY <1>1
<1>3. MaxWalk \in Nat
  BY SkillAssumption
<1>4. QED
  BY <1>1, <1>2, <1>3 DEF Reached, IsWalk

LEMMA WalkStays ==
    ASSUME NEW f, NEW path, NEW follow, NEW w, IsWalk(f, path, follow, w),
           NEW k \in Nat, NEW m \in Nat, k <= m, Ended(w[k])
    PROVE  w[m] = w[k]
<1> DEFINE S == {n \in Nat : n >= k => w[n] = w[k]}
<1>1. 0 \in S
  OBVIOUS
<1>2. ASSUME NEW n \in Nat, n \in S PROVE n + 1 \in S
  <2>1. w[n + 1] = LookUp(f, w[n], follow)
    BY WalkSteps
  <2>2. CASE n + 1 = k
    BY <2>2
  <2>3. CASE n >= k
    <3>1. w[n] = w[k]
      BY <1>2, <2>3
    <3>2. w[n + 1] = w[k]
      BY <2>1, <3>1 DEF LookUp
    <3>3. QED
      BY <3>2
  <2>4. QED
    BY <2>2, <2>3
<1>3. Nat \subseteq S
  <2> HIDE DEF S
  <2>1. QED
    BY <1>1, <1>2, NatSteps
<1>4. QED
  BY <1>3

\* A walk that has ended did so at some step.
LEMMA LastStep ==
    ASSUME NEW f, NEW path, NEW follow, NEW w, IsWalk(f, path, follow, w),
           NEW m \in Nat, Ended(w[m]), ~Ended(w[0])
    PROVE  \E k \in Nat : k < m /\ ~Ended(w[k]) /\ w[k + 1] = w[m]
<1> DEFINE P(n) == \E k \in Nat : k < n /\ ~Ended(w[k]) /\ w[k + 1] = w[n]
           S == {n \in Nat : Ended(w[n]) => P(n)}
<1>1. 0 \in S
  OBVIOUS
<1>2. ASSUME NEW n \in Nat, n \in S PROVE n + 1 \in S
  <2>1. CASE Ended(w[n])
    <3>1. PICK k \in Nat : k < n /\ ~Ended(w[k]) /\ w[k + 1] = w[n]
      BY <1>2, <2>1
    <3>2. w[n + 1] = w[n]
      <4>1. n + 1 \in Nat /\ n <= n + 1
        OBVIOUS
      <4>2. QED
        BY <2>1, <4>1, WalkStays
    <3>3. k < n + 1
      BY <3>1
    <3>4. P(n + 1)
      BY <3>1, <3>2, <3>3
    <3>5. QED
      BY <3>4
  <2>2. CASE ~Ended(w[n])
    <3>1. P(n + 1)
      BY <2>2
    <3>2. QED
      BY <3>1
  <2>3. QED
    BY <2>1, <2>2
<1>3. Nat \subseteq S
  <2> HIDE DEF S
  <2>1. QED
    BY <1>1, <1>2, NatSteps
<1>4. QED
  BY <1>3

\* What is known of the end of a walk.
LEMMA NameiIs ==
    ASSUME NEW f, NEW path, NEW follow, NEW w, IsWalk(f, path, follow, w), NEW p, p = Namei(f, path, follow)
    PROVE  LET e == w[MaxWalk]
           IN  /\ p.inodes = e.inodes /\ p.names = e.names /\ p.rest = e.rest /\ p.used = e.used /\ At(p) = At(e)
               /\ p.error # "none" => EndOf(p) = p.error /\ EndOf(p) \in Errors
               /\ p.error = "none" => /\ p = e /\ e.error = "none" /\ e.rest = <<>>
                                      /\ EndOf(p) = At(e) /\ EndOf(p) \in Node /\ EndOf(p) \notin Errors
               /\ Ended(e) => p = e
               /\ ~Ended(e) => p.error = "ELOOP"
<1> DEFINE e == w[MaxWalk]
<1>1. e \in Positions(f) /\ e \in PositionType /\ IsFileSystem(f)
  BY WalkSteps DEF Positions
<1>2. p = IF Ended(e) THEN e ELSE Fails(e, "ELOOP")
  BY DEF Namei, Bounded, IsWalk
<1> HIDE DEF e
<1>3. CASE Ended(e)
  <2>1. p = e
    BY <1>2, <1>3
  <2>2. p.error # "none" => EndOf(p) = p.error /\ p.error \in Errors
    BY <1>1, <2>1, AtIs DEF EndOf
  <2>3. p.error = "none" => e.error = "none" /\ e.rest = <<>> /\ EndOf(p) = At(e) /\ EndOf(p) \in Node
    BY <1>1, <1>3, <2>1, AtIs DEF EndOf, Ended
  <2>4. \A n \in Node : n \notin Errors
    BY <1>1, NodeTypes
  <2>5. QED
    BY <1>3, <2>1, <2>2, <2>3, <2>4 DEF e
<1>4. CASE ~Ended(e)
  <2>1. p = [e EXCEPT !.error = "ELOOP"]
    BY <1>2, <1>4 DEF Fails
  <2>2. p.inodes = e.inodes /\ p.names = e.names /\ p.rest = e.rest /\ p.used = e.used /\ p.error = "ELOOP"
    BY <1>1, <2>1 DEF PositionType
  <2>3. EndOf(p) = "ELOOP" /\ "ELOOP" \in Errors /\ At(p) = At(e)
    BY <2>2 DEF At, EndOf, Errors
  <2>4. QED
    BY <1>4, <2>2, <2>3 DEF e
<1>5. QED
  BY <1>3, <1>4

(***************************************************************************)
(* Two splits of one path.                                                 *)
(***************************************************************************)
\* ConcatAssociative of paths.
LEMMA Regroup ==
    ASSUME NEW a \in Seq(Word), NEW b \in Seq(Word), NEW c \in Seq(Word)
    PROVE  (a \o b) \o c = a \o (b \o c)
BY ConcatAssociative

LEMMA ShiftHead ==
    ASSUME NEW S, NEW a \in Seq(S), NEW b \in Seq(S), b # <<>>
    PROVE  Append(a, Head(b)) \in Seq(S) /\ Append(a, Head(b)) \o Tail(b) = a \o b
<1>1. Head(b) \in S /\ Tail(b) \in Seq(S) /\ <<Head(b)>> \in Seq(S)
  BY HeadIs
<1>2. Append(a, Head(b)) = a \o <<Head(b)>>
  BY <1>1, AppendIsConcat
<1>3. <<Head(b)>> \o Tail(b) = b
  BY HeadTailProperties
<1>4. (a \o <<Head(b)>>) \o Tail(b) = a \o (<<Head(b)>> \o Tail(b))
  BY <1>1, ConcatAssociative
<1>5. Append(a, Head(b)) \in Seq(S)
  BY <1>1, AppendProperties
<1>6. QED
  BY <1>2, <1>3, <1>4, <1>5

Splits(a, b, c, d) == /\ a \in Seq(Word) /\ b \in Seq(Word) /\ c \in Seq(Word) /\ d \in Seq(Word)
                      /\ a \o b = c \o d /\ Len(a) <= Len(c)

LEMMA TwoSplits ==
    ASSUME NEW a, NEW b, NEW c, NEW d, Splits(a, b, c, d)
    PROVE  /\ \A i \in 1 .. Len(a) : a[i] = c[i]
           /\ Len(a) = Len(c) => a = c /\ b = d
           /\ Len(a) < Len(c) => b # <<>> /\ Head(b) = c[Len(a) + 1]
           /\ b = <<>> => Len(a) = Len(c) /\ d = <<>>
<1> DEFINE S == Word
<1>0. /\ a \in Seq(S) /\ b \in Seq(S) /\ c \in Seq(S) /\ d \in Seq(S)
      /\ a \o b = c \o d /\ Len(a) <= Len(c)
  BY DEF Splits
<1> HIDE DEF S
<1> USE <1>0
<1>1. Len(a) \in Nat /\ Len(b) \in Nat /\ Len(c) \in Nat /\ Len(d) \in Nat
  BY LenProperties
<1>2. /\ a \o b \in Seq(S) /\ Len(a \o b) = Len(a) + Len(b)
      /\ \A i \in 1 .. Len(a) + Len(b) : (a \o b)[i] = IF i <= Len(a) THEN a[i] ELSE b[i - Len(a)]
  BY ConcatProperties
<1>3. /\ Len(c \o d) = Len(c) + Len(d)
      /\ \A i \in 1 .. Len(c) + Len(d) : (c \o d)[i] = IF i <= Len(c) THEN c[i] ELSE d[i - Len(c)]
  BY ConcatProperties
<1>4. Len(a) + Len(b) = Len(c) + Len(d)
  BY <1>2, <1>3
<1>5. ASSUME NEW i \in 1 .. Len(a) PROVE a[i] = c[i]
  <2>1. i \in 1 .. Len(a) + Len(b) /\ i \in 1 .. Len(c) + Len(d) /\ i <= Len(a) /\ i <= Len(c)
    BY <1>1, <1>4
  <2>2. (a \o b)[i] = a[i] /\ (c \o d)[i] = c[i]
    BY <1>2, <1>3, <2>1
  <2>3. QED
    BY <2>2
<1>6. ASSUME Len(a) = Len(c) PROVE a = c /\ b = d
  <2>1. a = c
    BY <1>5, <1>6, SeqEqual
  <2>2. Len(b) = Len(d)
    BY <1>1, <1>4, <1>6
  <2>3. ASSUME NEW i \in 1 .. Len(b) PROVE b[i] = d[i]
    <3> DEFINE j == i + Len(a)
    <3>1. j \in 1 .. Len(a) + Len(b) /\ ~(j <= Len(a)) /\ j - Len(a) = i
      BY <1>1
    <3>2. j \in 1 .. Len(c) + Len(d) /\ ~(j <= Len(c)) /\ j - Len(c) = i
      BY <1>4, <1>6, <3>1
    <3> HIDE DEF j
    <3>3. (a \o b)[j] = b[i] /\ (c \o d)[j] = d[i]
      BY <1>2, <1>3, <3>1, <3>2
    <3>4. QED
      BY <3>3
  <2>4. b = d
    BY <2>2, <2>3, SeqEqual
  <2>5. QED
    BY <2>1, <2>4
<1>7. ASSUME Len(a) < Len(c) PROVE b # <<>> /\ Head(b) = c[Len(a) + 1]
  <2>1. Len(b) > 0
    BY <1>1, <1>4, <1>7
  <2>2. b # <<>>
    BY <2>1, EmptySeq
  <2> DEFINE j == Len(a) + 1
  <2>3. j \in 1 .. Len(a) + Len(b) /\ ~(j <= Len(a)) /\ j - Len(a) = 1 /\ j \in 1 .. Len(c) + Len(d) /\ j <= Len(c)
    BY <1>1, <1>4, <1>7, <2>1
  <2> HIDE DEF j
  <2>4. (a \o b)[j] = b[1] /\ (c \o d)[j] = c[j]
    BY <1>2, <1>3, <2>3
  <2>5. Head(b) = b[1]
    BY <2>2, HeadIs
  <2>6. QED
    BY <2>2, <2>4, <2>5 DEF j
<1>8. ASSUME b = <<>> PROVE Len(a) = Len(c) /\ d = <<>>
  <2>1. Len(b) = 0
    BY <1>8, EmptySeq
  <2>2. Len(a) = Len(c)
    BY <1>1, <1>4, <2>1
  <2>3. QED
    BY <1>6, <1>8, <2>2
<1>9. QED
  BY <1>5, <1>6, <1>7, <1>8

\* A path without links leads to where its names say, one step to the name.
LEMMA DirectPath ==
    ASSUME NEW f, IsFileSystem(f), NEW inodes, NEW names, Leads(f, inodes, names), NEW B \in Seq(Word), NoRoot(B)
    PROVE  /\ IsPath(names \o B) /\ names \o B \in Seq(Word) /\ names \in Seq(Word) /\ inodes \in Seq(Node)
           /\ Len(names) \in Nat /\ Len(names) >= 1 /\ Len(inodes) = Len(names) /\ names # <<>>
           /\ IsPath(names)
<1>1. /\ names \in Seq(Word) /\ inodes \in Seq(Node) /\ Len(names) \in Nat /\ Len(names) >= 1
      /\ Len(inodes) = Len(names) /\ names # <<>> /\ names[1] = "/" /\ DOMAIN names = 1 .. Len(names)
  BY LenProperties, EmptySeq DEF Leads
<1>2. Head(names) = "/"
  BY <1>1, HeadIs
<1>3. ASSUME NEW i \in DOMAIN Tail(names) PROVE Tail(names)[i] # "/"
  <2>1. i + 1 \in DOMAIN names /\ Tail(names)[i] = names[i + 1] /\ i \in 1 .. Len(Tail(names))
        /\ Len(Tail(names)) = Len(names) - 1
    BY <1>1, HeadIs, LenProperties
  <2>2. names[i + 1] \in Name
    BY <1>1, <2>1 DEF Leads
  <2>3. QED
    BY <2>1, <2>2, NodeTypes
<1>4. IsPath(names)
  BY <1>1, <1>2, <1>3 DEF IsPath
<1>5. IsPath(names \o B)
  BY <1>2, <1>4, TargetThen DEF IsTarget
<1>6. QED
  BY <1>1, <1>4, <1>5 DEF IsPath

\* All the way without a link.
Clear(f, inodes, names) ==
    /\ Leads(f, inodes, names)
    /\ \A i \in 1 .. Len(inodes) : f[inodes[i]].kind # "free" /\ f[inodes[i]].kind # "link"

LEMMA DirectWalk ==
    ASSUME NEW f, NEW inodes, NEW names, Clear(f, inodes, names),
           NEW B \in Seq(Word), NoRoot(B), NEW follow,
           NEW w, IsWalk(f, names \o B, follow, w)
    PROVE  /\ \A k \in 0 .. Len(names) - 1 : At(w[k]) = inodes[k + 1] /\ w[k].error = "none"
           /\ LET p == w[Len(names) - 1]
              IN  p.inodes = inodes /\ p.names = names /\ p.rest = B /\ p.hops = 0 /\ p.error = "none"
<1> DEFINE l == Len(names)
           path == names \o B
           P(k) == /\ w[k].error = "none" /\ w[k].hops = 0 /\ Len(w[k].inodes) = k + 1
                   /\ w[k].names \o w[k].rest = path
                   /\ \A i \in 1 .. k + 1 : w[k].inodes[i] = inodes[i]
           S == {k \in Nat : k <= l - 1 => P(k)}
<1>1. /\ IsPath(path) /\ path \in Seq(Word) /\ names \in Seq(Word) /\ inodes \in Seq(Node)
      /\ l \in Nat /\ l >= 1 /\ Len(inodes) = l /\ names # <<>>
  BY DirectPath DEF Clear, IsWalk
<1> USE DEF Clear
<1> HIDE DEF path
<1>0. IsFileSystem(f)
  BY DEF IsWalk
<1>2. /\ w \in [Nat -> Reached(f, follow)] /\ w[0] = FromRoot(path)
      /\ \A k \in Nat : w[k + 1] = LookUp(f, w[k], follow)
  BY WalkSteps DEF path
<1>3. 0 \in S
  <2>1. path # <<>> /\ Head(path) = "/"
    BY <1>1 DEF IsPath
  <2>2. <<"/">> \o Tail(path) = path
    BY <1>1, <2>1, HeadTailProperties
  <2>3. inodes[1] = Root
    BY DEF Leads
  <2>4. Len(<<Root>>) = 0 + 1 /\ \A i \in 1 .. 0 + 1 : <<Root>>[i] = inodes[i]
    BY <2>3
  <2>5. P(0)
    <3>1. /\ w[0].error = "none" /\ w[0].hops = 0 /\ w[0].inodes = <<Root>>
          /\ w[0].names = <<"/">> /\ w[0].rest = Tail(path)
      BY <1>2 DEF FromRoot
    <3>2. QED
      BY <2>2, <2>4, <3>1
  <2> HIDE DEF P
  <2>6. QED
    BY <2>5
<1>4. ASSUME NEW k \in Nat, k \in S PROVE k + 1 \in S
  <2> HIDE DEF P
  <2> SUFFICES ASSUME k + 1 <= l - 1 PROVE P(k + 1)
    OBVIOUS
  <2> DEFINE p == w[k]
             q == w[k + 1]
  <2>0. k <= l - 1 /\ k + 1 < l /\ k + 1 \in Nat
    BY <1>1
  <2>1. P(k)
    BY <1>4, <2>0
  <2>2. p \in Positions(f) /\ q = LookUp(f, p, follow)
    <3>1. w[k] \in Reached(f, follow)
      BY <1>2
    <3>2. QED
      BY <1>2, <3>1 DEF Reached
  <2> HIDE DEF p, q
  <2>3. /\ p.error = "none" /\ p.hops = 0 /\ Len(p.inodes) = k + 1 /\ p.names \o p.rest = path
        /\ \A i \in 1 .. k + 1 : p.inodes[i] = inodes[i]
    BY <2>1 DEF p, P
  <2>4. /\ At(p) \in Node /\ At(p) = p.inodes[k + 1] /\ p.inodes \in Seq(Node) /\ p.names \in Seq(Word)
        /\ p.rest \in Seq(Word) /\ NoRoot(p.rest) /\ Len(p.names) = k + 1
    BY <1>0, <2>2, <2>3, AtIs
  <2>5. p.rest # <<>> /\ Head(p.rest) = names[k + 1 + 1]
    <3>1. Splits(p.names, p.rest, names, B) /\ Len(p.names) < Len(names)
      BY <1>1, <2>0, <2>3, <2>4 DEF path, Splits
    <3>2. p.rest # <<>> /\ Head(p.rest) = names[Len(p.names) + 1]
      BY <3>1, TwoSplits
    <3>3. QED
      BY <2>4, <3>2
  <2>6. k + 1 \in 1 .. Len(inodes) - 1 /\ k + 1 + 1 \in 1 .. Len(inodes) /\ k + 1 \in 1 .. k + 1
    BY <1>1
  <2>7. At(p) = inodes[k + 1]
    BY <2>3, <2>4, <2>6
  <2>8. /\ f[At(p)].kind = "dir" /\ f[At(p)].search /\ Head(p.rest) \in Name
        /\ Entry(f, p) = inodes[k + 1 + 1]
    BY <2>5, <2>6, <2>7 DEF Leads, Entry
  <2>9. Entry(f, p) \in Node /\ Entry(f, p) # Nowhere /\ f[Entry(f, p)].kind # "link" /\ Head(p.rest) # ".."
    BY <1>0, <1>1, <2>6, <2>8, NodeTypes
  <2>10. Cause(f, p, follow) = {}
    BY <2>8, <2>9 DEF Cause, Passable, LooksThrough
  <2>11. ~Ended(p)
    BY <2>3, <2>5 DEF Ended
  <2>12. WentDown(f, p, follow, q)
    <3>1. \/ q.error \in Cause(f, p, follow)
          \/ WentUp(f, p, q) \/ WentDown(f, p, follow, q) \/ WentThrough(f, p, follow, q)
      BY <1>0, <2>2, <2>11, LookUpSteps
    <3>2. ~WentUp(f, p, q) /\ ~WentThrough(f, p, follow, q)
      BY <2>9 DEF WentUp, WentThrough, LooksThrough
    <3>3. QED
      BY <2>10, <3>1, <3>2
  <2>13. /\ q.inodes = Append(p.inodes, Entry(f, p)) /\ q.names = Append(p.names, Head(p.rest))
         /\ q.rest = Tail(p.rest) /\ q.hops = 0 /\ q.error = "none"
    BY <2>3, <2>12 DEF WentDown
  <2>14. q.names \o q.rest = path
    <3>1. Append(p.names, Head(p.rest)) \o Tail(p.rest) = p.names \o p.rest
      BY <2>4, <2>5, ShiftHead
    <3>2. QED
      BY <2>3, <2>13, <3>1
  <2>15. /\ Len(q.inodes) = k + 1 + 1 /\ q.inodes[k + 1 + 1] = Entry(f, p)
         /\ \A i \in 1 .. k + 1 : q.inodes[i] = p.inodes[i]
    BY <2>3, <2>4, <2>9, <2>13, AppendProperties
  <2>16. ASSUME NEW i \in 1 .. k + 1 + 1 PROVE q.inodes[i] = inodes[i]
    <3>1. CASE i = k + 1 + 1
      BY <2>8, <2>15, <3>1
    <3>2. CASE i \in 1 .. k + 1
      BY <2>3, <2>15, <3>2
    <3>3. QED
      BY <3>1, <3>2
  <2>17. QED
    BY <2>13, <2>14, <2>15, <2>16 DEF q, P
<1>5. \A k \in Nat : k <= l - 1 => P(k)
  <2>1. Nat \subseteq S
    <3> HIDE DEF S
    <3>1. QED
      BY <1>3, <1>4, NatSteps
  <2>2. QED
    BY <2>1
<1> HIDE DEF P
<1>6. ASSUME NEW k \in 0 .. l - 1 PROVE At(w[k]) = inodes[k + 1] /\ w[k].error = "none"
  <2>1. k \in Nat /\ k <= l - 1
    BY <1>1
  <2>2. P(k)
    BY <1>5, <2>1
  <2>3. Len(w[k].inodes) = k + 1 /\ w[k].inodes[k + 1] = inodes[k + 1] /\ w[k].error = "none"
    BY <2>1, <2>2 DEF P
  <2>4. QED
    BY <2>3 DEF At
<1>7. l - 1 \in Nat /\ P(l - 1)
  BY <1>1, <1>5
<1> DEFINE p == w[l - 1]
<1>8. p \in Positions(f)
  BY <1>2, <1>7 DEF Reached
<1> HIDE DEF p
<1>9. /\ p.error = "none" /\ p.hops = 0 /\ Len(p.inodes) = l /\ p.names \o p.rest = path
      /\ \A i \in 1 .. l : p.inodes[i] = inodes[i]
  <2>1. l - 1 + 1 = l
    BY <1>1
  <2>2. QED
    BY <1>7, <2>1 DEF p, P
<1>10. p.inodes \in Seq(Node) /\ p.names \in Seq(Word) /\ p.rest \in Seq(Word) /\ Len(p.names) = l
  BY <1>0, <1>8, <1>9, AtIs
<1>11. p.names = names /\ p.rest = B
  <2>1. Splits(p.names, p.rest, names, B) /\ Len(p.names) = Len(names)
    BY <1>1, <1>9, <1>10 DEF path, Splits
  <2>2. QED
    BY <2>1, TwoSplits
<1>12. p.inodes = inodes
  BY <1>1, <1>9, <1>10, SeqEqual
<1>13. QED
  BY <1>6, <1>9, <1>11, <1>12 DEF p

(***************************************************************************)
(* lstat, and how it differs from following.                               *)
(***************************************************************************)
\* Terms, so that the provers match them.
No == FALSE
Yes == TRUE
LEMMA YesAndNo ==
    /\ ~No /\ Yes
    /\ \A f, path : /\ Lstat(f, path) = EndOf(Namei(f, path, No)) /\ Follow(f, path) = EndOf(Namei(f, path, Yes))
                    /\ Canonical(f, path) = Namei(f, path, Yes).names
BY DEF No, Yes, Lstat, Follow, Canonical

LEMMA LstatRoot ==
    ASSUME NEW f, IsFileSystem(f)
    PROVE  IsPath(<<"/">>) /\ Lstat(f, <<"/">>) = Root /\ Follow(f, <<"/">>) = Root
<1>1. <<"/">> \in Seq(Word) /\ <<"/">> # <<>> /\ Head(<<"/">>) = "/" /\ Tail(<<"/">>) = <<>>
  BY DEF Word
<1>2. IsPath(<<"/">>)
  BY <1>1 DEF IsPath
<1>3. ASSUME NEW follow PROVE EndOf(Namei(f, <<"/">>, follow)) = Root
  <2>0. PICK w : IsWalk(f, <<"/">>, follow, w)
    BY <1>2 DEF IsWalk
  <2>1. w[0] = FromRoot(<<"/">>) /\ MaxWalk \in Nat
    BY <2>0, WalkSteps
  <2>2. Ended(w[0]) /\ w[0].error = "none" /\ w[0].inodes = <<Root>>
    BY <1>1, <2>1 DEF FromRoot, Ended
  <2>3. w[MaxWalk] = w[0]
    <3>1. 0 <= MaxWalk /\ 0 \in Nat
      BY <2>1
    <3>2. QED
      BY <2>0, <2>1, <2>2, <3>1, WalkStays
  <2>4. Namei(f, <<"/">>, follow) = w[0]
    BY <2>0, <2>2, <2>3, NameiIs
  <2>5. QED
    BY <2>2, <2>4 DEF EndOf, At
<1>4. QED
  BY <1>2, <1>3 DEF Lstat, Follow

\* n is what d has under the name x, unless that cannot be told.
HeadsTo(f, d, x, n) ==
    n \in Errors \/ (/\ f[d].kind = "dir" /\ f[d].search /\ n = f[d].entries[x]
                     /\ n \in Node /\ f[n].kind # "free")

LEMMA LstatIs ==
    ASSUME NEW f, IsFileSystem(f), NEW inodes, NEW names, Clear(f, inodes, names),
           NEW x \in Name, NEW n, n = Lstat(f, Append(names, x)), NEW d, d = inodes[Len(inodes)]
    PROVE  /\ IsPath(Append(names, x)) /\ Append(names, x) = names \o <<x>>
           /\ HeadsTo(f, d, x, n)
<1> DEFINE B == <<x>>
           l == Len(names)
           path == names \o B
<1>1. B \in Seq(Word) /\ B # <<>> /\ Head(B) = x /\ Tail(B) = <<>> /\ Len(B) = 1 /\ NoRoot(B) /\ x # ".."
  <2>1. x # "/" /\ x # ".." /\ x \in Word
    BY NodeTypes DEF Word
  <2>2. \A i \in DOMAIN B : B[i] = x
    OBVIOUS
  <2>3. QED
    BY <2>1, <2>2 DEF NoRoot
<1> HIDE DEF B
<1>2. /\ IsPath(path) /\ names \in Seq(Word) /\ l \in Nat /\ l >= 1 /\ l - 1 \in Nat /\ l - 1 + 1 = l
  BY <1>1, DirectPath DEF Clear
<1>3. Append(names, x) = path
  BY <1>1, <1>2, AppendIsConcat DEF B
<1> HIDE DEF path
<1>w. PICK w : IsWalk(f, path, No, w)
  BY <1>2 DEF IsWalk
<1> DEFINE p == w[l - 1]
           q == w[l]
<1>4. p.inodes = inodes /\ p.rest = B /\ p.error = "none"
  <2>1. IsWalk(f, names \o B, No, w) /\ B \in Seq(Word) /\ NoRoot(B)
    BY <1>1, <1>w DEF path
  <2>2. QED
    BY <2>1, DirectWalk
<1>5. p \in Positions(f) /\ q = LookUp(f, p, No) /\ q \in Positions(f)
  <2>1. \A k \in Nat : w[k + 1] = LookUp(f, w[k], No) /\ w[k] \in Positions(f)
    BY <1>w, WalkSteps
  <2>2. QED
    BY <1>2, <2>1
<1> HIDE DEF p, q
<1>6. ~Ended(p) /\ At(p) = d /\ Entry(f, p) = f[d].entries[x]
  BY <1>1, <1>4 DEF Ended, At, Entry
<1>7. \/ q.error \in Errors
      \/ /\ f[d].kind = "dir" /\ f[d].search /\ At(q) = f[d].entries[x]
         /\ At(q) \in Node /\ f[At(q)].kind # "free" /\ q.rest = <<>>
  <2>1. CASE Erred(p, q)
    BY <2>1 DEF Erred
  <2>2. CASE WentDown(f, p, No, q)
    <3>1. q.inodes = Append(p.inodes, Entry(f, p)) /\ Entry(f, p) \in Node /\ p.inodes \in Seq(Node)
      BY <1>5, <2>2, AtIs DEF WentDown, Found
    <3>2. At(q) = Entry(f, p)
      BY <3>1, AppendProperties DEF At
    <3>3. QED
      BY <1>1, <1>4, <1>6, <2>2, <3>2 DEF WentDown, Found, Passable
  <2>3. ~WentUp(f, p, q)
    BY <1>1, <1>4 DEF WentUp
  <2>4. ~WentThrough(f, p, No, q)
    <3>1. ~(Len(p.rest) > 1)
      BY <1>1, <1>4
    <3>2. QED
      BY <3>1, YesAndNo DEF WentThrough, LooksThrough
  <2>5. QED
    BY <1>5, <1>6, <2>1, <2>2, <2>3, <2>4, LookUpSteps
<1>8. MaxWalk \in Nat
  BY SkillAssumption
<1>9. CASE MaxWalk >= l
  <2>1. Ended(q)
    BY <1>7 DEF Ended, Errors
  <2>2. w[MaxWalk] = q
    BY <1>2, <1>8, <1>9, <1>w, <2>1, WalkStays DEF q
  <2>3. n = EndOf(q)
    BY <1>3, <1>w, <2>1, <2>2, NameiIs, YesAndNo
  <2>4. q.error \in Errors \cup {"none"} /\ "none" \notin Errors
    BY <1>5, AtIs DEF Errors
  <2>5. QED
    BY <1>2, <1>3, <1>7, <2>3, <2>4 DEF EndOf, path, B, HeadsTo
<1>10. CASE MaxWalk < l
  <2>1. ~Ended(w[MaxWalk])
    <3>1. SUFFICES ASSUME Ended(w[MaxWalk]) PROVE FALSE
      OBVIOUS
    <3>2. MaxWalk <= l - 1
      BY <1>2, <1>8, <1>10
    <3>3. w[l - 1] = w[MaxWalk]
      BY <1>2, <1>8, <1>w, <3>1, <3>2, WalkStays
    <3>4. QED
      BY <1>6, <3>1, <3>3 DEF p
  <2>2. n \in Errors
    <3>1. Namei(f, path, No).error = "ELOOP"
      BY <1>w, <2>1, NameiIs
    <3>2. QED
      BY <1>3, <3>1, YesAndNo DEF Errors, EndOf
  <2>3. QED
    BY <1>2, <1>3, <2>2 DEF path, B, HeadsTo
<1>11. QED
  BY <1>2, <1>8, <1>9, <1>10

\* Who follows goes the same way, until a link is the end of the path.
LEMMA FollowOrNot ==
    ASSUME NEW f, NEW path, NEW v, NEW w, IsWalk(f, path, Yes, v), IsWalk(f, path, No, w), NEW m \in Nat
    PROVE  v[m] = w[m] \/ (w[m].error = "none" /\ w[m].rest = <<>> /\ f[At(w[m])].kind = "link")
<1> DEFINE Ends(p) == p.error = "none" /\ p.rest = <<>> /\ f[At(p)].kind = "link"
           S == {k \in Nat : v[k] = w[k] \/ Ends(w[k])}
<1>1. /\ \A k \in Nat : v[k + 1] = LookUp(f, v[k], Yes)
      /\ \A k \in Nat : w[k + 1] = LookUp(f, w[k], No) /\ w[k] \in Positions(f)
      /\ v[0] = w[0] /\ IsFileSystem(f)
  BY WalkSteps
<1>2. 0 \in S
  BY <1>1
<1>3. ASSUME NEW k \in Nat, k \in S PROVE k + 1 \in S
  <2> DEFINE p == w[k]
             q == w[k + 1]
             n == Entry(f, p)
  <2>1. q = LookUp(f, p, No) /\ p \in Positions(f) /\ v[k + 1] = LookUp(f, v[k], Yes)
    BY <1>1
  <2>2. v[k] = p \/ Ends(p)
    BY <1>3
  <2> HIDE DEF p, q
  <2>3. CASE Ended(p)
    <3>1. q = p
      BY <2>1, <2>3 DEF LookUp
    <3>2. v[k] = p => v[k + 1] = q
      BY <2>1, <2>3 DEF LookUp
    <3>3. v[k + 1] = q \/ Ends(q)
      BY <2>2, <3>1, <3>2
    <3>4. QED
      BY <3>3 DEF q
  <2>4. CASE ~Ended(p)
    <3>1. v[k] = p /\ v[k + 1] = LookUp(f, p, Yes)
      BY <2>1, <2>2, <2>4 DEF Ended
    <3>2. CASE f[n].kind = "link" => Len(p.rest) > 1
      <4>1. LookUp(f, p, Yes) = LookUp(f, p, No)
        BY <3>2 DEF LookUp, Entry
      <4>2. QED
        BY <2>1, <3>1, <4>1 DEF q
    <3>3. CASE f[n].kind = "link" /\ ~(Len(p.rest) > 1)
      <4>1. CASE ~(f[At(p)].kind = "dir" /\ f[At(p)].search) \/ Head(p.rest) = ".." \/ n = Nowhere
        <5>1. LookUp(f, p, Yes) = LookUp(f, p, No)
          BY <4>1 DEF LookUp, Entry
        <5>2. QED
          BY <2>1, <3>1, <5>1 DEF q
      <4>2. CASE f[At(p)].kind = "dir" /\ f[At(p)].search /\ Head(p.rest) # ".." /\ n # Nowhere
        <5>1. Cause(f, p, No) = {}
          BY <3>3, <4>2, YesAndNo DEF Cause, Passable, LooksThrough
        <5>2. WentDown(f, p, No, q)
          <6>1. ~WentUp(f, p, q)
            BY <4>2 DEF WentUp
          <6>2. ~WentThrough(f, p, No, q)
            BY <3>3, YesAndNo DEF WentThrough, LooksThrough
          <6>3. QED
            BY <1>1, <2>1, <2>4, <5>1, <6>1, <6>2, LookUpSteps
        <5>3. q.inodes = Append(p.inodes, n) /\ n \in Node /\ q.rest = Tail(p.rest) /\ q.error = "none"
          BY <5>2 DEF WentDown, Found
        <5>4. At(q) = n
          <6>1. p.inodes \in Seq(Node)
            BY <1>1, <2>1, AtIs
          <6>2. QED
            BY <5>3, <6>1, AppendProperties DEF At
        <5>5. Tail(p.rest) = <<>>
          BY <1>1, <2>1, <2>4, <3>3, <5>2, AtIs, HeadIs DEF Ended, WentDown
        <5>6. Ends(q)
          BY <3>3, <5>3, <5>4, <5>5
        <5>7. QED
          BY <5>6 DEF q
      <4>3. QED
        BY <4>1, <4>2
    <3>4. QED
      BY <3>2, <3>3
  <2>5. QED
    BY <2>3, <2>4
<1>4. Nat \subseteq S
  <2> HIDE DEF S
  <2>1. QED
    BY <1>2, <1>3, NatSteps
<1>5. QED
  BY <1>4

\* Where a walk ends, if it does not fail.
LEMMA WalkEnd ==
    ASSUME NEW f, NEW path, NEW follow, NEW w, IsWalk(f, path, follow, w), NEW k \in Nat
    PROVE  /\ At(w[k]) \in Node /\ f[At(w[k])].kind # "free"
           /\ f[At(w[k])].kind = "link" => ~follow /\ w[k].rest = <<>>
<1> DEFINE p == w[k]
<1>1. p \in Reached(f, follow) /\ p \in Positions(f) /\ IsFileSystem(f)
  BY WalkSteps
<1> HIDE DEF p
<1>2. At(p) = p.inodes[Len(p.inodes)] /\ At(p) \in Node /\ Len(p.inodes) \in Nat \ {0}
  BY <1>1, AtIs
<1>3. Len(p.inodes) \in 1 .. Len(p.inodes)
  BY <1>2
<1>4. /\ f[p.inodes[Len(p.inodes)]].kind # "free"
      /\ f[p.inodes[Len(p.inodes)]].kind = "link" => ~follow /\ p.rest = <<>>
  BY <1>1, <1>3 DEF Reached
<1>5. QED
  BY <1>2, <1>4 DEF p

LEMMA FollowIs ==
    ASSUME NEW f, IsFileSystem(f), NEW path, IsPath(path)
    PROVE  /\ Lstat(f, path) \in Errors =>
                Follow(f, path) \in Errors /\ Namei(f, path, TRUE) = Namei(f, path, FALSE)
           /\ Lstat(f, path) \notin Errors =>
                /\ Lstat(f, path) \in Node /\ f[Lstat(f, path)].kind # "free"
                /\ f[Lstat(f, path)].kind # "link" => Follow(f, path) = Lstat(f, path)
           /\ Follow(f, path) \notin Errors =>
                Follow(f, path) \in Node /\ f[Follow(f, path)].kind \notin {"free", "link"}
<1>1. PICK v : IsWalk(f, path, Yes, v)
  BY DEF IsWalk
<1>2. PICK w : IsWalk(f, path, No, w)
  BY DEF IsWalk
<1> DEFINE p == Namei(f, path, Yes)
           q == Namei(f, path, No)
           x == v[MaxWalk]
           y == w[MaxWalk]
<1>3. MaxWalk \in Nat
  BY SkillAssumption
<1>4. x = y \/ (y.error = "none" /\ y.rest = <<>> /\ f[At(y)].kind = "link")
  BY <1>1, <1>2, <1>3, FollowOrNot
<1>5. /\ p.error # "none" => EndOf(p) = p.error /\ EndOf(p) \in Errors
      /\ p.error = "none" => p = x /\ EndOf(p) = At(x) /\ EndOf(p) \notin Errors
      /\ p = IF Ended(x) THEN x ELSE Fails(x, "ELOOP")
  BY <1>1, NameiIs DEF Namei, Bounded, IsWalk
<1>6. /\ q.error # "none" => EndOf(q) = q.error /\ EndOf(q) \in Errors
      /\ q.error = "none" => q = y /\ EndOf(q) = At(y) /\ EndOf(q) \notin Errors
      /\ q = IF Ended(y) THEN y ELSE Fails(y, "ELOOP")
  BY <1>2, NameiIs DEF Namei, Bounded, IsWalk
<1>7. /\ At(x) \in Node /\ f[At(x)].kind # "free" /\ f[At(x)].kind # "link"
      /\ At(y) \in Node /\ f[At(y)].kind # "free"
  BY <1>1, <1>2, <1>3, WalkEnd, YesAndNo
<1> HIDE DEF p, q, x, y
<1>8. Lstat(f, path) = EndOf(q) /\ Follow(f, path) = EndOf(p)
  BY YesAndNo DEF p, q
<1>9. p = Namei(f, path, TRUE) /\ q = Namei(f, path, FALSE)
  BY DEF p, q, Yes, No
<1>10. ASSUME EndOf(q) \in Errors PROVE EndOf(p) \in Errors /\ p = q
  <2>1. q.error # "none"
    BY <1>6, <1>10
  <2>2. x = y
    BY <1>4, <1>6, <2>1 DEF Ended
  <2>3. p = q
    BY <1>5, <1>6, <2>2
  <2>4. QED
    BY <1>10, <2>3
<1>11. ASSUME EndOf(q) \notin Errors, f[EndOf(q)].kind # "link" PROVE EndOf(p) = EndOf(q)
  <2>1. q = y /\ EndOf(q) = At(y)
    BY <1>6, <1>11
  <2>2. x = y
    BY <1>4, <1>11, <2>1
  <2>3. QED
    BY <1>5, <1>6, <2>2
<1>12. QED
  BY <1>5, <1>6, <1>7, <1>8, <1>9, <1>10, <1>11

(***************************************************************************)
(* What a step may do to the file system: an inode that is root's and not  *)
(* writable stays as it is, and nothing in use changes its kind or where,  *)
(* as a link, it leads.                                                    *)
(***************************************************************************)
Powerless(f, n) == f[n].owner # "user" /\ ~f[n].writable
Frame(f, g) ==
    \A n \in Node :
        /\ Powerless(f, n) \/ Powerless(g, n) => f[n] = g[n]
        /\ f[n].kind # "free" => g[n].kind = f[n].kind /\ g[n].target = f[n].target

LEMMA InodeIs ==
    ASSUME NEW f, IsFileSystem(f), NEW n \in Node
    PROVE  /\ f[n] \in Inodes /\ n \in DOMAIN f
           /\ f[n] = [kind |-> f[n].kind, entries |-> f[n].entries, target |-> f[n].target, text |-> f[n].text,
                      owner |-> f[n].owner, writable |-> f[n].writable, search |-> f[n].search]
           /\ f[n].kind \in {"free", "file", "dir", "link"} /\ f[n].entries \in [Name -> Node \cup {Nowhere}]
           /\ f[n].target \in Seq(Word) /\ f[n].text \in Texts /\ f[n].owner \in {"user", "root"}
           /\ f[n].writable \in BOOLEAN /\ f[n].search \in BOOLEAN
<1>1. f[n] \in Inodes /\ n \in DOMAIN f
  BY DEF IsFileSystem
<1>2. QED
  BY <1>1 DEF Inodes

\* An inode with one field changed.
Retexted(i, t) == [i EXCEPT !.text = t]
Reentered(i, e) == [i EXCEPT !.entries = e]
Flipped(i) == {[i EXCEPT !.writable = ~@], [i EXCEPT !.search = ~@]}

LEMMA Rewritten ==
    ASSUME NEW i \in Inodes
    PROVE  /\ \A t \in Texts :
                 /\ Retexted(i, t) \in Inodes /\ Retexted(i, t).kind = i.kind /\ Retexted(i, t).target = i.target
                 /\ Retexted(i, t).entries = i.entries /\ Retexted(i, t).owner = i.owner
                 /\ Retexted(i, t).writable = i.writable /\ Retexted(i, t).text = t
           /\ \A j \in Flipped(i) :
                 /\ j \in Inodes /\ j.kind = i.kind /\ j.target = i.target /\ j.entries = i.entries
                 /\ j.owner = i.owner
           /\ \A e \in [Name -> Node \cup {Nowhere}] :
                 /\ Reentered(i, e) \in Inodes /\ Reentered(i, e).kind = i.kind /\ Reentered(i, e).target = i.target
                 /\ Reentered(i, e).entries = e /\ Reentered(i, e).owner = i.owner
                 /\ Reentered(i, e).writable = i.writable
<1>1. ASSUME NEW t \in Texts
      PROVE  /\ Retexted(i, t) \in Inodes /\ Retexted(i, t).kind = i.kind /\ Retexted(i, t).target = i.target
             /\ Retexted(i, t).entries = i.entries /\ Retexted(i, t).owner = i.owner
             /\ Retexted(i, t).writable = i.writable /\ Retexted(i, t).text = t
  BY DEF Inodes, Retexted
<1>2. ASSUME NEW j \in Flipped(i)
      PROVE  /\ j \in Inodes /\ j.kind = i.kind /\ j.target = i.target /\ j.entries = i.entries
             /\ j.owner = i.owner
  BY <1>2 DEF Inodes, Flipped
<1>3. ASSUME NEW e \in [Name -> Node \cup {Nowhere}]
      PROVE  /\ Reentered(i, e) \in Inodes /\ Reentered(i, e).kind = i.kind /\ Reentered(i, e).target = i.target
             /\ Reentered(i, e).entries = e /\ Reentered(i, e).owner = i.owner
             /\ Reentered(i, e).writable = i.writable
  BY DEF Inodes, Reentered
<1>4. QED
  BY <1>1, <1>2, <1>3

\* A change to inodes in use that keeps their kinds, and to owners of nothing in root's hands.
Changes(f, n, i, g) ==
    /\ IsFileSystem(f) /\ n \in Node /\ f[n].kind # "free"
    /\ i \in Inodes /\ i.kind = f[n].kind /\ i.target = f[n].target
    /\ \A x \in Name : i.entries[x] # Nowhere => f[i.entries[x]].kind # "free"
    /\ g = [f EXCEPT ![n] = i]

LEMMA ChangeSound ==
    ASSUME NEW f, NEW n, NEW i, NEW g, Changes(f, n, i, g)
    PROVE  /\ IsFileSystem(g) /\ g[n] = i /\ \A m \in Node : m # n => g[m] = f[m]
           /\ (f[n].owner = "user" /\ i.owner = "user") \/ (f[n].writable /\ i.writable) => Frame(f, g)
<1> USE DEF Changes
<1>1. f \in [Node -> Inodes] /\ f[Root].kind = "dir" /\ Root \in Node
  BY NodeTypes
<1>2. g[n] = i /\ \A m \in Node : m # n => g[m] = f[m]
  BY <1>1
<1>3. g \in [Node -> Inodes]
  BY <1>1
<1>4. \A m \in Node : g[m].kind = f[m].kind /\ g[m].target = f[m].target
  BY <1>2
<1>5. ASSUME NEW m \in Node
      PROVE  /\ g[m].kind = "free" => g[m].owner = "user"
             /\ g[m].kind = "link" => IsTarget(g[m].target)
             /\ \A x \in Name : g[m].entries[x] # Nowhere => g[g[m].entries[x]].kind # "free"
  <2>1. /\ f[m].kind = "free" => f[m].owner = "user"
        /\ f[m].kind = "link" => IsTarget(f[m].target)
        /\ \A x \in Name : f[m].entries[x] # Nowhere => f[f[m].entries[x]].kind # "free"
    BY NodeTypes
  <2>2. g[m].kind = "free" => g[m].owner = "user"
    BY <1>2, <2>1
  <2>3. g[m].kind = "link" => IsTarget(g[m].target)
    BY <1>4, <2>1
  <2>4. ASSUME NEW x \in Name, g[m].entries[x] # Nowhere PROVE g[g[m].entries[x]].kind # "free"
    <3>1. g[m].entries \in [Name -> Node \cup {Nowhere}]
      <4>1. g[m] \in Inodes
        BY <1>3
      <4>2. QED
        BY <4>1 DEF Inodes
    <3>2. g[m].entries[x] \in Node
      BY <2>4, <3>1
    <3>3. f[g[m].entries[x]].kind # "free"
      BY <1>2, <2>1, <2>4
    <3>4. QED
      BY <1>4, <3>2, <3>3
  <2>5. QED
    BY <2>2, <2>3, <2>4
<1>6. g[Root].kind = "dir"
  BY <1>1, <1>4
<1>7. IsFileSystem(g)
  BY <1>3, <1>5, <1>6 DEF IsFileSystem
<1>8. ASSUME (f[n].owner = "user" /\ i.owner = "user") \/ (f[n].writable /\ i.writable) PROVE Frame(f, g)
  <2>1. ~Powerless(f, n) /\ ~Powerless(g, n)
    BY <1>2, <1>8 DEF Powerless
  <2>2. ASSUME NEW m \in Node, Powerless(f, m) \/ Powerless(g, m) PROVE f[m] = g[m]
    BY <1>2, <2>1, <2>2
  <2>3. QED
    BY <1>4, <2>2 DEF Frame
<1>9. QED
  BY <1>2, <1>7, <1>8

Adds(f, d, x, i, g, s) ==
    /\ IsFileSystem(f) /\ (\E n \in Node : f[n].kind = "free")
    /\ d \in Node /\ f[d].kind # "free" /\ f[d].writable /\ x \in Name
    /\ i \in Inodes /\ i.kind # "free" /\ i.owner = "user" /\ i.entries = Empty
    /\ i.kind = "link" => IsTarget(i.target)
    /\ g = Add(f, d, x, i) /\ s = Spare(f)

Added(f, d, x, i, g, s) ==
    /\ s \in Node /\ f[s].kind = "free" /\ s # d /\ g[s] = i
    /\ g[d] = [f[d] EXCEPT !.entries[x] = s]
    /\ \A m \in Node : m # s /\ m # d => g[m] = f[m]

LEMMA AddSound ==
    ASSUME NEW f, NEW d, NEW x, NEW i, NEW g, NEW s, Adds(f, d, x, i, g, s)
    PROVE  Added(f, d, x, i, g, s) /\ IsFileSystem(g) /\ Frame(f, g)
<1> USE DEF Adds
<1>1. f \in [Node -> Inodes] /\ f[Root].kind = "dir" /\ Root \in Node /\ Nowhere \notin Node
  BY NodeTypes
<1>2. s \in Node /\ f[s].kind = "free" /\ s # d
  BY DEF Spare
<1>3. g = [[f EXCEPT ![s] = i] EXCEPT ![d].entries[x] = s]
  BY DEF Add
<1> DEFINE j == [f[d] EXCEPT !.entries[x] = s]
           h == [f EXCEPT ![s] = i]
<1>4. h \in [Node -> Inodes] /\ h[d] = f[d]
  BY <1>1, <1>2
<1>5. j \in Inodes /\ j.kind = f[d].kind /\ j.target = f[d].target /\ j.owner = f[d].owner
      /\ j.writable = f[d].writable /\ j.entries = [f[d].entries EXCEPT ![x] = s]
  <2>1. f[d].entries \in [Name -> Node \cup {Nowhere}] /\ f[d] \in Inodes
    BY InodeIs
  <2>2. [f[d].entries EXCEPT ![x] = s] \in [Name -> Node \cup {Nowhere}]
    BY <1>2, <2>1
  <2>3. j = [f[d] EXCEPT !.entries = [f[d].entries EXCEPT ![x] = s]]
    OBVIOUS
  <2> HIDE DEF j
  <2>4. QED
    BY <2>1, <2>2, <2>3 DEF Inodes
<1>6. g = [h EXCEPT ![d] = j]
  BY <1>3, <1>4
<1> HIDE DEF h, j
<1>7. h[s] = i /\ \A m \in Node : m # s => h[m] = f[m]
  BY <1>1, <1>2 DEF h
<1>8. /\ g \in [Node -> Inodes] /\ g[d] = j /\ g[s] = i
      /\ \A m \in Node : m # s /\ m # d => g[m] = f[m]
  BY <1>2, <1>4, <1>5, <1>6, <1>7
<1>9. \A m \in Node : m # s => g[m].kind = f[m].kind /\ g[m].target = f[m].target
  BY <1>5, <1>8
<1>10. ASSUME NEW m \in Node
       PROVE  /\ g[m].kind = "free" => g[m].owner = "user"
              /\ g[m].kind = "link" => IsTarget(g[m].target)
              /\ \A y \in Name : g[m].entries[y] # Nowhere => g[g[m].entries[y]].kind # "free"
  <2>1. /\ f[m].kind = "free" => f[m].owner = "user"
        /\ f[m].kind = "link" => IsTarget(f[m].target)
        /\ \A y \in Name : f[m].entries[y] # Nowhere => f[f[m].entries[y]].kind # "free"
        /\ \A y \in Name : f[m].entries[y] \in Node \cup {Nowhere}
    BY NodeTypes
  <2>2. \A e \in Node : f[e].kind # "free" => g[e].kind # "free"
    BY <1>2, <1>9
  <2>3. CASE m = s
    BY <1>8, <2>3 DEF Empty
  <2>4. CASE m = d
    <3>1. ASSUME NEW y \in Name, g[m].entries[y] # Nowhere PROVE g[g[m].entries[y]].kind # "free"
      <4>1. f[d].entries \in [Name -> Node \cup {Nowhere}]
        BY InodeIs
      <4>2. g[m].entries[y] = IF y = x THEN s ELSE f[d].entries[y]
        BY <1>5, <1>8, <2>4, <4>1
      <4>3. CASE y = x
        BY <1>8, <4>2, <4>3
      <4>4. CASE y # x
        BY <2>1, <2>2, <2>4, <3>1, <4>2, <4>4
      <4>5. QED
        BY <4>3, <4>4
    <3>2. QED
      BY <1>2, <1>5, <1>8, <2>1, <2>4, <3>1
  <2>5. CASE m # s /\ m # d
    BY <1>8, <2>1, <2>2, <2>5
  <2>6. QED
    BY <2>3, <2>4, <2>5
<1>11. g[Root].kind = "dir"
  BY <1>1, <1>2, <1>9
<1>12. IsFileSystem(g)
  BY <1>8, <1>10, <1>11 DEF IsFileSystem
<1>13. Frame(f, g)
  <2>1. ~Powerless(f, d) /\ ~Powerless(g, d) /\ ~Powerless(f, s) /\ ~Powerless(g, s)
    <3>1. f[s].owner = "user"
      BY <1>2, NodeTypes
    <3>2. QED
      BY <1>5, <1>8, <3>1 DEF Powerless
  <2>2. ASSUME NEW m \in Node, Powerless(f, m) \/ Powerless(g, m) PROVE f[m] = g[m]
    <3>1. m # s /\ m # d
      BY <2>1, <2>2
    <3>2. QED
      BY <1>8, <3>1
  <2>3. QED
    BY <1>2, <1>9, <2>2 DEF Frame
<1>14. QED
  BY <1>2, <1>8, <1>12, <1>13 DEF Added, j

(***************************************************************************)
(* Types.                                                                  *)
(***************************************************************************)
LEMMA MissingIs ==
    ASSUME NEW f, NEW path, NEW follow, NEW w, IsWalk(f, path, follow, w),
           NEW p, p = Namei(f, path, follow), p.error = "ENOENT"
    PROVE  /\ At(p) \in Node /\ f[At(p)].kind = "dir" /\ f[At(p)].search
           /\ Head(p.rest) \in Name /\ f[At(p)].entries[Head(p.rest)] = Nowhere
           /\ \E k \in Nat : /\ k < MaxWalk /\ ~Ended(w[k]) /\ w[k + 1] = p
                             /\ w[k].inodes = p.inodes /\ w[k].names = p.names /\ w[k].rest = p.rest
<1> DEFINE e == w[MaxWalk]
<1>1. MaxWalk \in Nat /\ IsFileSystem(f) /\ w[0] = FromRoot(path) /\ 0 \in Nat /\ 0 <= MaxWalk
  BY WalkSteps
<1>2. Ended(e) /\ p = e
  BY NameiIs
<1>3. ~Ended(w[0])
  <2>1. SUFFICES ASSUME Ended(w[0]) PROVE FALSE
    OBVIOUS
  <2>2. e = w[0]
    BY <1>1, <2>1, WalkStays
  <2>3. QED
    BY <1>1, <1>2, <2>2 DEF FromRoot
<1>4. PICK k \in Nat : k < MaxWalk /\ ~Ended(w[k]) /\ w[k + 1] = e
  BY <1>1, <1>2, <1>3, LastStep
<1> DEFINE c == w[k]
<1>5. c \in Positions(f) /\ e = LookUp(f, c, follow) /\ ~Ended(c)
  <2>1. \A n \in Nat : w[n + 1] = LookUp(f, w[n], follow) /\ w[n] \in Positions(f)
    BY WalkSteps
  <2>2. QED
    BY <1>4, <2>1
<1> HIDE DEF c, e
<1>6. e.error = "ENOENT"
  BY <1>2
<1>7. Erred(c, e) /\ e.error \in Cause(f, c, follow)
  BY <1>1, <1>5, <1>6, LookUpSteps DEF WentUp, WentDown, WentThrough
<1>8. Passable(f, c) /\ Head(c.rest) \in Name /\ Entry(f, c) = Nowhere
  BY <1>6, <1>7 DEF Cause
<1>9. At(c) \in Node
  BY <1>1, <1>5, AtIs
<1>10. c.inodes = p.inodes /\ c.names = p.names /\ c.rest = p.rest /\ At(c) = At(p)
  BY <1>2, <1>7 DEF Erred, At
<1>11. QED
  BY <1>2, <1>4, <1>8, <1>9, <1>10 DEF Passable, Entry, c, e

LEMMA Prefix ==
    ASSUME NEW l \in 1 .. Len(SkillPath)
    PROVE  /\ IsPath(SubSeq(SkillPath, 1, l)) /\ Len(SubSeq(SkillPath, 1, l)) = l
           /\ \A i \in 1 .. l : SubSeq(SkillPath, 1, l)[i] = SkillPath[i]
           /\ l = 1 => SubSeq(SkillPath, 1, l) = <<"/">>
<1> DEFINE s == SubSeq(SkillPath, 1, l)
<1>1. /\ SkillPath \in Seq(Word) /\ SkillPath # <<>> /\ Head(SkillPath) = "/"
      /\ \A i \in DOMAIN Tail(SkillPath) : Tail(SkillPath)[i] # "/"
  BY SkillAssumption DEF IsPath
<1>2. Len(SkillPath) \in Nat /\ l \in Nat /\ 1 <= l /\ DOMAIN SkillPath = 1 .. Len(SkillPath)
      /\ 1 \in Int /\ l \in Int
  BY <1>1, LenProperties
<1>3. \A i \in 1 .. l : SkillPath[i] \in Word
  BY <1>1, <1>2, ElementOfSeq
<1>4. /\ s \in Seq(Word)
      /\ Len(s) = IF 1 <= l THEN l - 1 + 1 ELSE 0
      /\ \A i \in 1 .. l - 1 + 1 : s[i] = SkillPath[1 + i - 1]
  BY <1>2, <1>3, SubSeqProperties
<1> HIDE DEF s
<1>5. Len(s) = l
  <2>1. (IF 1 <= l THEN l - 1 + 1 ELSE 0) = l
    BY <1>2
  <2>2. QED
    BY <1>4, <2>1
<1>6. ASSUME NEW i \in 1 .. l PROVE s[i] = SkillPath[i]
  <2>1. i \in 1 .. l - 1 + 1 /\ 1 + i - 1 = i
    BY <1>2
  <2>2. QED
    BY <1>4, <2>1
<1>7. s # <<>> /\ Head(s) = "/"
  <2>1. s # <<>>
    BY <1>2, <1>4, <1>5, EmptySeq
  <2>2. Head(s) = s[1] /\ Head(SkillPath) = SkillPath[1]
    BY <1>1, <1>4, <2>1, HeadIs
  <2>3. 1 \in 1 .. l
    BY <1>2
  <2>4. QED
    BY <1>1, <1>6, <2>1, <2>2, <2>3
<1>8. ASSUME NEW i \in DOMAIN Tail(s) PROVE Tail(s)[i] # "/"
  <2>1. i + 1 \in DOMAIN s /\ Tail(s)[i] = s[i + 1] /\ DOMAIN s = 1 .. l /\ i \in 1 .. l - 1
    <3>1. DOMAIN Tail(s) = 1 .. Len(Tail(s)) /\ Len(Tail(s)) = l - 1
      BY <1>4, <1>5, <1>7, HeadIs, LenProperties
    <3>2. QED
      BY <1>4, <1>5, <1>7, <3>1, HeadIs, LenProperties
  <2>2. i \in DOMAIN Tail(SkillPath) /\ Tail(SkillPath)[i] = SkillPath[i + 1]
    <3>1. DOMAIN Tail(SkillPath) = 1 .. Len(SkillPath) - 1
      BY <1>1, HeadIs, LenProperties
    <3>2. i \in 1 .. Len(SkillPath) - 1
      BY <1>2, <2>1
    <3>3. QED
      BY <1>1, <3>1, <3>2, HeadIs
  <2>3. QED
    BY <1>1, <1>6, <2>1, <2>2
<1>9. IsPath(s)
  BY <1>4, <1>7, <1>8 DEF IsPath
<1>10. ASSUME l = 1 PROVE s = <<"/">>
  <2>1. <<"/">> \in Seq(Word) /\ Len(<<"/">>) = 1 /\ <<"/">>[1] = "/"
    BY DEF Word
  <2>2. s[1] = "/"
    BY <1>4, <1>7, HeadIs
  <2>3. QED
    BY <1>4, <1>5, <1>10, <2>1, <2>2, SeqEqual
<1>11. QED
  BY <1>5, <1>6, <1>9, <1>10 DEF s

RunType == [at : {"idle", "look", "read", "decide", "make directory", "truncate", "fill"},
            command : {"check", "install"}, force : BOOLEAN, dry : BOOLEAN,
            trust : {"unknown", "user-writable", "not-user-writable"},
            state : {"missing", "identical", "differs"}, undisturbed : BOOLEAN,
            level : Nat, down : BOOLEAN, opened : Node]

\* What the steps rely on: a directory to make above the skill, and an opened file that was
\* open to the user.
TypeInv ==
    /\ IsFileSystem(fs) /\ run \in RunType /\ strong \in BOOLEAN /\ acts \in Nat /\ platform \in Platforms
    /\ run.at = "make directory" => run.level \in 1 .. Len(SkillPath) - 1
    /\ run.at = "fill" => fs[run.opened].kind # "free" /\ ~Powerless(fs, run.opened)

LEMMA RunIs ==
    ASSUME run \in RunType
    PROVE  /\ run.at \in {"idle", "look", "read", "decide", "make directory", "truncate", "fill"}
           /\ run.command \in {"check", "install"} /\ run.force \in BOOLEAN /\ run.dry \in BOOLEAN
           /\ run.trust \in {"unknown", "user-writable", "not-user-writable"}
           /\ run.state \in {"missing", "identical", "differs"} /\ run.undisturbed \in BOOLEAN
           /\ run.level \in Nat /\ run.down \in BOOLEAN /\ run.opened \in Node
BY DEF RunType

LEMMA IdleType ==
    Idle \in RunType /\ Idle.at = "idle" /\ Idle.opened = Root
BY SkillAssumption DEF Idle, RunType

LEMMA FrameSame ==
    ASSUME NEW f
    PROVE  Frame(f, f)
BY DEF Frame

LEMMA EmptyInode ==
    ASSUME NEW kind \in {"file", "dir", "link"}
    PROVE  /\ Inode(kind) \in Inodes /\ Inode(kind).kind = kind /\ Inode(kind).owner = "user"
           /\ Inode(kind).entries = Empty /\ Inode(kind).writable
           /\ [Inode(kind) EXCEPT !.text = "mine"] \in Inodes
           /\ \A t \in Seq(Word) : [Inode(kind) EXCEPT !.target = t] \in Inodes
<1>1. Empty \in [Name -> Node \cup {Nowhere}] /\ <<>> \in Seq(Word) /\ "" \in Texts /\ "mine" \in Texts
  BY SkillAssumption, EmptySeq DEF Empty
<1>2. QED
  BY <1>1 DEF Inode, Inodes

LEMMA InitType == Init => TypeInv
<1> SUFFICES ASSUME Init PROVE TypeInv
  OBVIOUS
<1>1. IsFileSystem(fs)
  BY SkillAssumption DEF Init
<1>2. QED
  BY <1>1, IdleType DEF Init, TypeInv

\* A step that leaves the file system alone, and opens nothing.
LEMMA QuietSound ==
    ASSUME TypeInv, UNCHANGED <<fs, platform>>, run' \in RunType, strong' \in BOOLEAN, acts' \in Nat,
           run'.at = "make directory" => run'.level \in 1 .. Len(SkillPath) - 1, run'.at # "fill"
    PROVE  TypeInv' /\ Frame(fs, fs')
BY FrameSame DEF TypeInv

LEMMA Levels ==
    ASSUME NEW m \in Nat, NEW l \in 1 .. m - 1
    PROVE  /\ l \in 1 .. m /\ l \in Nat
           /\ l + 1 # m => l + 1 \in 1 .. m - 1 /\ l + 1 \in Nat
           /\ l # 1 => l - 1 \in 1 .. m - 1 /\ l - 1 \in Nat
OBVIOUS

LEMMA MakeDirectorySound ==
    ASSUME TypeInv, MakeDirectory
    PROVE  TypeInv' /\ Frame(fs, fs')
<1> DEFINE here == SubSeq(SkillPath, 1, run.level)
           p == Namei(fs, here, FALSE)
           n == Follow(fs, here)
           next == IF run.level + 1 = Len(SkillPath) THEN [run EXCEPT !.at = "truncate"]
                   ELSE [run EXCEPT !.level = @ + 1, !.down = TRUE]
           makes == Vacant(p) /\ fs[At(p)].writable
           up == [run EXCEPT !.level = @ - 1]
<1>1. IsFileSystem(fs) /\ run \in RunType /\ run.level \in 1 .. Len(SkillPath) - 1 /\ Len(SkillPath) \in Nat
      /\ run.at = "make directory" /\ UNCHANGED <<platform, strong, acts>>
      /\ strong \in BOOLEAN /\ acts \in Nat /\ platform \in Platforms
  BY SkillAssumption, LenProperties DEF TypeInv, MakeDirectory, IsPath
<1>2. IsPath(here) /\ (run.level = 1 => here = <<"/">>)
  <2>1. run.level \in 1 .. Len(SkillPath)
    BY <1>1, Levels
  <2>2. QED
    BY <2>1, Prefix
<1>3. next \in RunType /\ (next.at = "make directory" => next.level \in 1 .. Len(SkillPath) - 1) /\ next.at # "fill"
  <2>1. CASE run.level + 1 = Len(SkillPath)
    BY <1>1, <2>1 DEF RunType
  <2>2. CASE run.level + 1 # Len(SkillPath)
    <3>1. run.level + 1 \in 1 .. Len(SkillPath) - 1 /\ run.level + 1 \in Nat
      BY <1>1, <2>2, Levels
    <3>2. next = [run EXCEPT !.level = @ + 1, !.down = TRUE]
      BY <2>2
    <3>3. next \in RunType /\ next.level = run.level + 1 /\ next.at = run.at
      BY <1>1, <3>1, <3>2 DEF RunType
    <3> HIDE DEF next
    <3>4. QED
      BY <1>1, <3>1, <3>3
  <2>3. QED
    BY <2>1, <2>2
<1>4. \/ makes /\ fs' = Add(fs, At(p), Head(p.rest), Inode("dir")) /\ run' = next
      \/ ~makes /\ UNCHANGED fs /\ run' = IF n \notin Errors /\ fs[n].kind = "dir" THEN next
                                         ELSE IF p.error = "ENOENT" /\ ~Vacant(p) /\ ~run.down THEN up ELSE Idle
  BY DEF MakeDirectory
<1>w. PICK w : IsWalk(fs, here, No, w)
  BY <1>1, <1>2 DEF IsWalk
<1>p. p = Namei(fs, here, No)
  BY DEF No
<1> HIDE DEF here, p, n, next
<1>5. CASE makes /\ fs' = Add(fs, At(p), Head(p.rest), Inode("dir")) /\ run' = next
  <2>1. p.error = "ENOENT"
    BY <1>5 DEF Vacant
  <2>2. At(p) \in Node /\ fs[At(p)].kind = "dir" /\ Head(p.rest) \in Name
    BY <1>w, <1>p, <2>1, MissingIs
  <2>3. \E m \in Node : fs[m].kind = "free"
    BY DEF MakeDirectory, Room
  <2>4. /\ Inode("dir") \in Inodes /\ Inode("dir").kind = "dir" /\ Inode("dir").owner = "user"
        /\ Inode("dir").entries = Empty
    BY EmptyInode
  <2>5. IsFileSystem(fs') /\ Frame(fs, fs')
    <3>1. Adds(fs, At(p), Head(p.rest), Inode("dir"), fs', Spare(fs))
      BY <1>1, <1>5, <2>2, <2>3, <2>4 DEF Adds
    <3>2. QED
      BY <3>1, AddSound
  <2>6. QED
    BY <1>1, <1>3, <1>5, <2>5 DEF TypeInv
<1>6. CASE UNCHANGED fs /\ run' = next
  BY <1>1, <1>3, <1>6, QuietSound
<1>7. CASE UNCHANGED fs /\ run' = up /\ p.error = "ENOENT"
  <2>1. run.level # 1
    <3>1. SUFFICES ASSUME run.level = 1 PROVE FALSE
      OBVIOUS
    <3>2. EndOf(p) = Root /\ Root \in Node /\ Errors \cap Node = {}
      <4>1. Lstat(fs, <<"/">>) = Root
        BY <1>1, LstatRoot
      <4>2. QED
        BY <1>1, <1>2, <1>p, <3>1, <4>1, YesAndNo, NodeTypes
    <3>3. EndOf(p) \in Errors
      BY <1>7, <1>w, <1>p, NameiIs
    <3>4. QED
      BY <3>2, <3>3
  <2>2. run.level - 1 \in 1 .. Len(SkillPath) - 1 /\ run.level - 1 \in Nat
    BY <1>1, <2>1, Levels
  <2>3. up \in RunType /\ up.level = run.level - 1 /\ up.at = run.at
    BY <1>1, <2>2 DEF RunType
  <2> HIDE DEF up
  <2>4. QED
    BY <1>1, <1>7, <2>2, <2>3, QuietSound
<1>8. CASE UNCHANGED fs /\ run' = Idle
  BY <1>1, <1>8, IdleType, QuietSound
<1>9. QED
  BY <1>4, <1>5, <1>6, <1>7, <1>8

LEMMA TruncateSound ==
    ASSUME TypeInv, Truncate
    PROVE  TypeInv' /\ Frame(fs, fs')
<1> DEFINE p == Namei(fs, SkillPath, TRUE)
           n == At(p)
<1>1. IsFileSystem(fs) /\ run \in RunType /\ UNCHANGED <<platform, strong, acts>>
      /\ strong \in BOOLEAN /\ acts \in Nat /\ platform \in Platforms /\ IsPath(SkillPath)
  BY SkillAssumption DEF TypeInv, Truncate
<1>w. PICK w : IsWalk(fs, SkillPath, Yes, w)
  BY <1>1 DEF IsWalk
<1>p. p = Namei(fs, SkillPath, Yes)
  BY DEF Yes
<1>2. \/ /\ p.error = "none" /\ fs[n].kind = "file" /\ fs[n].writable
         /\ fs' = [fs EXCEPT ![n].text = ""] /\ run' = [run EXCEPT !.at = "fill", !.opened = n]
      \/ /\ Vacant(p) /\ fs[n].writable /\ fs' = Add(fs, n, Head(p.rest), Inode("file"))
         /\ run' = [run EXCEPT !.at = "fill", !.opened = Spare(fs)]
      \/ run' = Idle /\ UNCHANGED fs
  BY DEF Truncate
<1> HIDE DEF p
<1>3. CASE /\ p.error = "none" /\ fs[n].kind = "file" /\ fs[n].writable
           /\ fs' = [fs EXCEPT ![n].text = ""] /\ run' = [run EXCEPT !.at = "fill", !.opened = n]
  <2>1. n \in Node
    BY <1>w, <1>p, <1>3, NameiIs DEF EndOf
  <2> DEFINE i == [fs[n] EXCEPT !.text = ""]
  <2>2. fs' = [fs EXCEPT ![n] = i]
    BY <1>3
  <2>3. i \in Inodes /\ i.kind = "file" /\ i.target = fs[n].target /\ i.writable /\ i.entries = fs[n].entries
    <3>1. fs[n] \in Inodes /\ "" \in Texts
      BY <1>1, <2>1, InodeIs, SkillAssumption
    <3>2. i = Retexted(fs[n], "")
      BY DEF Retexted
    <3> HIDE DEF i
    <3>3. QED
      BY <1>3, <3>1, <3>2, Rewritten
  <2>4. \A x \in Name : fs[n].entries[x] # Nowhere => fs[fs[n].entries[x]].kind # "free"
    BY <1>1, <2>1, NodeTypes
  <2> HIDE DEF i
  <2>5. IsFileSystem(fs') /\ Frame(fs, fs') /\ fs'[n] = i
    <3>1. IsFileSystem(fs) /\ fs[n].kind = "file"
      BY <1>1, <1>3
    <3>2. \A x \in Name : i.entries[x] # Nowhere => fs[i.entries[x]].kind # "free"
      BY <2>3, <2>4
    <3>3. Changes(fs, n, i, fs')
      BY <2>1, <2>2, <2>3, <3>1, <3>2 DEF Changes
    <3>4. fs[n].writable /\ i.writable
      BY <1>3, <2>3
    <3>5. QED
      BY <3>3, <3>4, ChangeSound
  <2>6. run' \in RunType /\ run'.at = "fill" /\ run'.opened = n
    BY <1>1, <1>3, <2>1 DEF RunType
  <2>7. fs'[run'.opened].kind # "free" /\ ~Powerless(fs', run'.opened)
    BY <2>3, <2>5, <2>6 DEF Powerless
  <2>8. QED
    BY <1>1, <2>5, <2>6, <2>7 DEF TypeInv, Powerless
<1>4. CASE /\ Vacant(p) /\ fs[n].writable /\ fs' = Add(fs, n, Head(p.rest), Inode("file"))
           /\ run' = [run EXCEPT !.at = "fill", !.opened = Spare(fs)]
  <2>1. p.error = "ENOENT"
    BY <1>4 DEF Vacant
  <2>2. n \in Node /\ fs[n].kind = "dir" /\ Head(p.rest) \in Name
    BY <1>w, <1>p, <2>1, MissingIs
  <2>3. \E m \in Node : fs[m].kind = "free"
    BY DEF Truncate, Room
  <2>4. /\ Inode("file") \in Inodes /\ Inode("file").kind = "file" /\ Inode("file").owner = "user"
        /\ Inode("file").entries = Empty
    BY EmptyInode
  <2>5. PICK s : s = Spare(fs)
    OBVIOUS
  <2>6. IsFileSystem(fs') /\ Frame(fs, fs') /\ s \in Node /\ fs'[s] = Inode("file")
    <3>1. Adds(fs, n, Head(p.rest), Inode("file"), fs', s)
      BY <1>1, <1>4, <2>5, <2>2, <2>3, <2>4 DEF Adds
    <3>2. IsFileSystem(fs') /\ Frame(fs, fs') /\ Added(fs, n, Head(p.rest), Inode("file"), fs', s)
      BY <3>1, AddSound
    <3>3. QED
      BY <3>2 DEF Added
  <2>7. run' \in RunType /\ run'.at = "fill" /\ run'.opened = s
    BY <1>1, <1>4, <2>5, <2>6 DEF RunType
  <2>8. fs'[run'.opened].kind # "free" /\ ~Powerless(fs', run'.opened)
    BY <2>4, <2>6, <2>7 DEF Powerless
  <2>9. QED
    BY <1>1, <2>6, <2>7, <2>8 DEF TypeInv, Powerless
<1>5. CASE run' = Idle /\ UNCHANGED fs
  BY <1>1, <1>5, IdleType, QuietSound
<1>6. QED
  BY <1>2, <1>3, <1>4, <1>5

LEMMA FillSound ==
    ASSUME TypeInv, Fill
    PROVE  TypeInv' /\ Frame(fs, fs')
<1> DEFINE n == run.opened
           i == [fs[n] EXCEPT !.text = "bundled"]
<1>1. IsFileSystem(fs) /\ n \in Node /\ fs[n].kind # "free" /\ ~Powerless(fs, n)
      /\ strong \in BOOLEAN /\ acts \in Nat /\ platform \in Platforms
  BY RunIs DEF TypeInv, Fill
<1>2. fs' = [fs EXCEPT ![n] = i] /\ run' = Idle /\ UNCHANGED <<platform, strong, acts>>
  BY DEF Fill
<1>3. /\ i \in Inodes /\ i.kind = fs[n].kind /\ i.target = fs[n].target /\ i.entries = fs[n].entries
      /\ i.writable = fs[n].writable /\ i.owner = fs[n].owner
  <2>1. fs[n] \in Inodes /\ "bundled" \in Texts
    BY <1>1, InodeIs, SkillAssumption
  <2>2. i = Retexted(fs[n], "bundled")
    BY DEF Retexted
  <2> HIDE DEF i
  <2>3. QED
    BY <2>1, <2>2, Rewritten
<1>4. \A x \in Name : fs[n].entries[x] # Nowhere => fs[fs[n].entries[x]].kind # "free"
  BY <1>1, NodeTypes
<1> HIDE DEF i, n
<1>5. IsFileSystem(fs') /\ Frame(fs, fs')
  <2>1. (fs[n].owner = "user" /\ i.owner = "user") \/ (fs[n].writable /\ i.writable)
    BY <1>1, <1>3 DEF Powerless
  <2>2. Changes(fs, n, i, fs')
    BY <1>1, <1>2, <1>3, <1>4 DEF Changes
  <2>3. QED
    BY <2>1, <2>2, ChangeSound
<1>6. QED
  BY <1>1, <1>2, <1>5, IdleType DEF TypeInv

\* A change by the user leaves what was opened open to the user.
LEMMA ActSound ==
    ASSUME TypeInv, Act, IsFileSystem(fs'), Frame(fs, fs')
    PROVE  TypeInv'
<1>1. run \in RunType /\ run' = [run EXCEPT !.undisturbed = run.at = "idle"]
  BY DEF TypeInv, Act
<1>2. run' \in RunType /\ run'.at = run.at /\ run'.level = run.level /\ run'.opened = run.opened
  <2>1. (run.at = "idle") \in BOOLEAN
    OBVIOUS
  <2>2. QED
    BY <1>1, <2>1 DEF RunType
<1>3. run.opened \in Node
  BY <1>1, RunIs
<1>4. ASSUME run.at = "fill" PROVE fs'[run.opened].kind # "free" /\ ~Powerless(fs', run.opened)
  <2>1. fs[run.opened].kind # "free" /\ ~Powerless(fs, run.opened)
    BY <1>4 DEF TypeInv
  <2>2. QED
    BY <1>3, <2>1 DEF Frame, Powerless
<1>5. acts' \in Nat /\ UNCHANGED <<platform, strong>> /\ strong \in BOOLEAN /\ platform \in Platforms
  <2>1. acts \in Nat /\ strong \in BOOLEAN /\ platform \in Platforms
    BY DEF TypeInv
  <2>2. acts' = acts + 1 /\ UNCHANGED <<platform, strong>>
    BY DEF Act
  <2>3. QED
    BY <2>1, <2>2
<1>6. run'.at = "fill" => fs'[run'.opened].kind # "free" /\ ~Powerless(fs', run'.opened)
  BY <1>2, <1>4
<1>7. run'.at = "make directory" => run'.level \in 1 .. Len(SkillPath) - 1
  BY <1>2 DEF TypeInv
<1>8. QED
  BY <1>2, <1>5, <1>6, <1>7 DEF TypeInv, Powerless

LEMMA UserSound ==
    ASSUME TypeInv, User
    PROVE  TypeInv' /\ Frame(fs, fs')
<1>1. IsFileSystem(fs)
  BY DEF TypeInv
<1> SUFFICES Act /\ IsFileSystem(fs') /\ Frame(fs, fs')
  BY ActSound
<1>2. ASSUME NEW n \in Node, Chmod(n) PROVE Act /\ IsFileSystem(fs') /\ Frame(fs, fs')
  <2>1. fs[n].kind \in {"file", "dir"} /\ fs[n].owner = "user" /\ Act
    BY <1>2 DEF Chmod
  <2>2. PICK i : /\ i \in {[fs[n] EXCEPT !.writable = ~@], [fs[n] EXCEPT !.search = ~@]}
                 /\ fs' = [fs EXCEPT ![n] = i]
    BY <1>2 DEF Chmod
  <2>3. /\ i \in Inodes /\ i.kind = fs[n].kind /\ i.target = fs[n].target /\ i.entries = fs[n].entries
        /\ i.owner = "user"
    <3>1. fs[n] \in Inodes
      BY <1>1, InodeIs
    <3>2. i \in Flipped(fs[n])
      BY <2>2 DEF Flipped
    <3>3. QED
      BY <2>1, <3>1, <3>2, Rewritten
  <2>4. \A x \in Name : fs[n].entries[x] # Nowhere => fs[fs[n].entries[x]].kind # "free"
    BY <1>1, NodeTypes
  <2>5. Changes(fs, n, i, fs')
    BY <1>1, <2>1, <2>2, <2>3, <2>4 DEF Changes
  <2>6. QED
    BY <2>1, <2>3, <2>5, ChangeSound
<1>3. ASSUME NEW n \in Node, Save(n) PROVE Act /\ IsFileSystem(fs') /\ Frame(fs, fs')
  <2> DEFINE i == [fs[n] EXCEPT !.text = "mine"]
  <2>1. fs[n].kind = "file" /\ fs[n].writable /\ Act /\ fs' = [fs EXCEPT ![n] = i]
    BY <1>3 DEF Save
  <2>2. /\ i \in Inodes /\ i.kind = fs[n].kind /\ i.target = fs[n].target /\ i.entries = fs[n].entries
        /\ i.writable
    <3>1. fs[n] \in Inodes /\ "mine" \in Texts
      BY <1>1, InodeIs, SkillAssumption
    <3>2. i = Retexted(fs[n], "mine")
      BY DEF Retexted
    <3> HIDE DEF i
    <3>3. QED
      BY <2>1, <3>1, <3>2, Rewritten
  <2>3. \A x \in Name : fs[n].entries[x] # Nowhere => fs[fs[n].entries[x]].kind # "free"
    BY <1>1, NodeTypes
  <2> HIDE DEF i
  <2>4. Changes(fs, n, i, fs')
    BY <1>1, <2>1, <2>2, <2>3 DEF Changes
  <2>5. QED
    BY <2>1, <2>2, <2>4, ChangeSound
<1>4. ASSUME NEW d \in Node, NEW x \in Mutable[d], Remove(d, x) PROVE Act /\ IsFileSystem(fs') /\ Frame(fs, fs')
  <2> DEFINE i == [fs[d] EXCEPT !.entries[x] = Nowhere]
  <2>0. x \in Name
    BY SkillAssumption
  <2>1. fs[d].kind = "dir" /\ fs[d].writable /\ Act /\ fs' = [fs EXCEPT ![d] = i]
    BY <1>4 DEF Remove, Enters
  <2>2. fs[d].entries \in [Name -> Node \cup {Nowhere}]
    BY <1>1, InodeIs
  <2>3. [fs[d].entries EXCEPT ![x] = Nowhere] \in [Name -> Node \cup {Nowhere}]
    BY <2>0, <2>2
  <2>4. i = [fs[d] EXCEPT !.entries = [fs[d].entries EXCEPT ![x] = Nowhere]]
    OBVIOUS
  <2>5. \A y \in Name : fs[d].entries[y] # Nowhere => fs[fs[d].entries[y]].kind # "free"
    BY <1>1, NodeTypes
  <2> HIDE DEF i
  <2>6. /\ i \in Inodes /\ i.kind = fs[d].kind /\ i.target = fs[d].target /\ i.writable
        /\ i.entries = [fs[d].entries EXCEPT ![x] = Nowhere]
    <3>1. fs[d] \in Inodes
      BY <1>1, InodeIs
    <3>2. i = Reentered(fs[d], [fs[d].entries EXCEPT ![x] = Nowhere])
      BY <2>4 DEF Reentered
    <3>3. QED
      BY <2>1, <2>3, <3>1, <3>2, Rewritten
  <2>7. \A y \in Name : i.entries[y] # Nowhere => fs[i.entries[y]].kind # "free"
    BY <2>0, <2>2, <2>5, <2>6
  <2>8. Changes(fs, d, i, fs')
    BY <1>1, <2>1, <2>6, <2>7 DEF Changes
  <2>9. QED
    BY <2>1, <2>6, <2>8, ChangeSound
<1>5. ASSUME NEW d \in Node, NEW x \in Mutable[d], Create(d, x) PROVE Act /\ IsFileSystem(fs') /\ Frame(fs, fs')
  <2>1. fs[d].kind = "dir" /\ fs[d].writable /\ Act /\ \E m \in Node : fs[m].kind = "free"
    BY <1>5 DEF Create, Enters, Room
  <2>2. PICK i : /\ i \in {[Inode("file") EXCEPT !.text = "mine"]}
                         \cup {[Inode("link") EXCEPT !.target = t] : t \in Targets}
                 /\ fs' = Add(fs, d, x, i)
    BY <1>5 DEF Create
  <2>3. x \in Name /\ \A t \in Targets : IsTarget(t) /\ t \in Seq(Word)
    <3>1. <<>> \in Seq(Word) /\ NoRoot(<<>>)
      BY EmptySeq DEF NoRoot
    <3>2. \A t \in Targets : IsTarget(t)
      BY SkillAssumption
    <3>3. \A t \in Targets : t \in Seq(Word)
      BY <3>1, <3>2, TargetThen
    <3>4. QED
      BY <3>2, <3>3, SkillAssumption
  <2>4. /\ i \in Inodes /\ i.kind \in {"file", "link"} /\ i.owner = "user" /\ i.entries = Empty
        /\ i.kind = "link" => IsTarget(i.target)
    <3>1. CASE i = [Inode("file") EXCEPT !.text = "mine"]
      BY <3>1, EmptyInode DEF Inode
    <3>2. CASE \E t \in Targets : i = [Inode("link") EXCEPT !.target = t]
      <4>1. PICK t \in Targets : i = [Inode("link") EXCEPT !.target = t]
        BY <3>2
      <4>2. i.kind = "link" /\ i.owner = "user" /\ i.entries = Empty /\ i.target = t
        BY <4>1 DEF Inode
      <4>3. i \in Inodes
        BY <2>3, <4>1, EmptyInode
      <4>4. QED
        BY <2>3, <4>2, <4>3
    <3>3. QED
      BY <2>2, <3>1, <3>2
  <2>5. Adds(fs, d, x, i, fs', Spare(fs))
    BY <1>1, <2>1, <2>2, <2>3, <2>4 DEF Adds
  <2>6. QED
    BY <2>1, <2>5, AddSound
<1>6. QED
  BY <1>2, <1>3, <1>4, <1>5 DEF User

LEMMA NextSound ==
    ASSUME TypeInv, [Next]_vars
    PROVE  TypeInv' /\ Frame(fs, fs')
<1>1. /\ run \in RunType /\ strong \in BOOLEAN /\ acts \in Nat
      /\ run.at = "make directory" => run.level \in 1 .. Len(SkillPath) - 1
  BY DEF TypeInv
<1>2. ASSUME NEW command \in {"check", "install"}, NEW force \in BOOLEAN, NEW dry \in BOOLEAN,
             Start(command, force, dry)
      PROVE  TypeInv' /\ Frame(fs, fs')
  <2>1. /\ run' = [Idle EXCEPT !.at = "look", !.command = command, !.force = force, !.dry = dry]
        /\ UNCHANGED <<fs, platform, strong, acts>>
    BY <1>2 DEF Start
  <2>2. run' \in RunType /\ run'.at = "look"
    BY <2>1, IdleType DEF RunType
  <2>3. QED
    BY <1>1, <2>1, <2>2, QuietSound
<1>3. ASSUME Look PROVE TypeInv' /\ Frame(fs, fs')
  <2>1. UNCHANGED <<fs, platform, strong, acts>>
    BY <1>3 DEF Look
  <2>2. Guarantee \in {"unknown", "user-writable", "not-user-writable"}
    BY DEF Guarantee
  <2> DEFINE looked == [run EXCEPT !.trust = Guarantee, !.undisturbed = TRUE]
             g == Guarantee
  <2>3. run' \in {Idle, [looked EXCEPT !.at = "decide"], [looked EXCEPT !.at = "read"]}
    BY <1>3 DEF Look
  <2> HIDE DEF g
  <2>4. run' \in RunType /\ run'.at \in {"idle", "decide", "read"}
    <3>1. looked = [run EXCEPT !.trust = g, !.undisturbed = TRUE] /\ g \in {"unknown", "user-writable", "not-user-writable"}
      BY <2>2 DEF g
    <3> HIDE DEF looked
    <3>2. looked \in RunType
      BY <1>1, <3>1 DEF RunType
    <3>3. CASE run' = Idle
      BY <3>3, IdleType
    <3>4. CASE run' = [looked EXCEPT !.at = "decide"]
      BY <3>2, <3>4 DEF RunType
    <3>5. CASE run' = [looked EXCEPT !.at = "read"]
      BY <3>2, <3>5 DEF RunType
    <3>6. QED
      BY <2>3, <3>3, <3>4, <3>5
  <2>5. QED
    BY <1>1, <2>1, <2>4, QuietSound
<1>4. ASSUME Compare PROVE TypeInv' /\ Frame(fs, fs')
  <2>1. UNCHANGED <<fs, platform, strong, acts>>
    BY <1>4 DEF Compare
  <2>2. \/ run' = Idle
        \/ \E s \in {"identical", "differs"} : run' = [run EXCEPT !.at = "decide", !.state = s]
    BY <1>4 DEF Compare
  <2>3. run' \in RunType /\ run'.at \in {"idle", "decide"}
    <3>1. CASE run' = Idle
      BY <3>1, IdleType
    <3>2. ASSUME NEW s \in {"identical", "differs"}, run' = [run EXCEPT !.at = "decide", !.state = s]
          PROVE  run' \in RunType /\ run'.at \in {"idle", "decide"}
      <4>1. run \in RunType
        BY <1>1
      <4>2. QED
        BY <3>2, <4>1 DEF RunType
    <3>3. QED
      BY <2>2, <3>1, <3>2
  <2>4. QED
    BY <1>1, <2>1, <2>3, QuietSound
<1>5. ASSUME Decide PROVE TypeInv' /\ Frame(fs, fs')
  <2>1. UNCHANGED <<fs, platform, acts>> /\ strong' \in BOOLEAN
    BY <1>1, <1>5 DEF Decide
  <2>2. run' \in {Idle, [run EXCEPT !.at = "make directory", !.level = Len(SkillPath) - 1]}
    BY <1>5 DEF Decide
  <2>3. Len(SkillPath) - 1 \in 1 .. Len(SkillPath) - 1 /\ Len(SkillPath) - 1 \in Nat
    <3>1. Len(SkillPath) \in Nat /\ Len(SkillPath) > 1
      BY SkillAssumption, LenProperties DEF IsPath
    <3>2. QED
      BY <3>1
  <2>4. run' \in RunType /\ run'.at # "fill" /\ (run'.at = "make directory" => run'.level \in 1 .. Len(SkillPath) - 1)
    <3>1. CASE run' = Idle
      BY <3>1, IdleType
    <3>2. CASE run' = [run EXCEPT !.at = "make directory", !.level = Len(SkillPath) - 1]
      <4>1. run \in RunType
        BY <1>1
      <4>2. QED
        BY <2>3, <3>2, <4>1 DEF RunType
    <3>3. QED
      BY <2>2, <3>1, <3>2
  <2>5. QED
    BY <1>1, <2>1, <2>4, QuietSound
<1>6. ASSUME Die PROVE TypeInv' /\ Frame(fs, fs')
  BY <1>1, <1>6, IdleType, QuietSound DEF Die
<1>7. ASSUME UNCHANGED vars PROVE TypeInv' /\ Frame(fs, fs')
  BY <1>7, FrameSame DEF vars, TypeInv, Powerless
<1>8. QED
  BY <1>2, <1>3, <1>4, <1>5, <1>6, <1>7, MakeDirectorySound, TruncateSound, FillSound, UserSound DEF Next

\* The tree stays a tree: entries lead to inodes in use, links say where they lead, and a step
\* of the command or the user keeps the types of its variables.
THEOREM TypeCorrect == Spec => []TypeInv
<1>1. Init => TypeInv
  BY InitType
<1>2. TypeInv /\ [Next]_vars => TypeInv'
  BY NextSound
<1>3. QED
  BY <1>1, <1>2, PTL DEF Spec

(***************************************************************************)
(* Two file systems of which one comes from the other: where every inode a *)
(* walk stands in is the same, so is the walk.                             *)
(***************************************************************************)
LEMMA SameLookUp ==
    ASSUME NEW f, IsFileSystem(f), NEW g, IsFileSystem(g), Frame(f, g), NEW p \in Positions(f),
           f[At(p)] = g[At(p)], NEW follow
    PROVE  LookUp(f, p, follow) = LookUp(g, p, follow)
<1> DEFINE d == At(p)
           x == Head(p.rest)
           n == f[d].entries[x]
<1>1. /\ d \in Node /\ p.rest \in Seq(Word) /\ NoRoot(p.rest)
      /\ \A y \in Name : f[d].entries[y] \in Node \cup {Nowhere}
      /\ \A y \in Name : f[d].entries[y] # Nowhere => f[f[d].entries[y]].kind # "free"
  BY AtIs, NodeTypes
<1>2. CASE Ended(p)
  BY <1>2 DEF LookUp
<1>3. CASE ~Ended(p) /\ x = ".."
  BY <1>3 DEF LookUp
<1>4. CASE ~Ended(p) /\ x # ".."
  <2>1. x \in Name
    BY <1>1, <1>4, NoRootKept DEF Ended
  <2>2. n = g[d].entries[x]
    OBVIOUS
  <2>3. n \in Node \cup {Nowhere} /\ (n # Nowhere => f[n].kind # "free")
    BY <1>1, <2>1
  <2>4. CASE n = Nowhere
    BY <1>4, <2>2, <2>4 DEF LookUp
  <2>5. CASE n # Nowhere
    <3>1. f[n].kind = g[n].kind /\ f[n].target = g[n].target
      BY <2>3, <2>5 DEF Frame
    <3> HIDE DEF n
    <3>2. QED
      BY <1>4, <2>2, <3>1 DEF LookUp, n
  <2>6. QED
    BY <2>4, <2>5
<1>5. QED
  BY <1>2, <1>3, <1>4

Related(f, g, path, follow, v, w) ==
    IsWalk(f, path, follow, v) /\ IsWalk(g, path, follow, w) /\ Frame(f, g)

LEMMA SameWalk ==
    ASSUME NEW f, NEW g, NEW path, NEW follow, NEW v, NEW w, Related(f, g, path, follow, v, w),
           \/ \A k \in Nat : Powerless(f, At(v[k]))
           \/ \A k \in Nat : Powerless(g, At(w[k]))
    PROVE  /\ \A k \in Nat : v[k] = w[k] /\ f[At(v[k])] = g[At(v[k])]
           /\ Namei(f, path, follow) = Namei(g, path, follow)
<1> USE DEF Related
<1>1. /\ IsFileSystem(f) /\ IsFileSystem(g) /\ v[0] = FromRoot(path) /\ w[0] = FromRoot(path)
      /\ MaxWalk \in Nat
  BY WalkSteps
<1>2. \A k \in Nat : /\ v[k + 1] = LookUp(f, v[k], follow) /\ v[k] \in Positions(f)
                     /\ w[k + 1] = LookUp(g, w[k], follow) /\ w[k] \in Positions(g)
  BY WalkSteps
<1>3. \A k \in Nat : v[k] = w[k] => f[At(v[k])] = g[At(v[k])]
  <2>1. \A k \in Nat : At(v[k]) \in Node
    BY <1>1, <1>2, AtIs
  <2>2. QED
    BY <2>1 DEF Frame
<1> DEFINE S == {k \in Nat : v[k] = w[k]}
<1>4. 0 \in S
  BY <1>1
<1>5. ASSUME NEW k \in Nat, k \in S PROVE k + 1 \in S
  <2>1. v[k] = w[k] /\ v[k] \in Positions(f) /\ f[At(v[k])] = g[At(v[k])]
    BY <1>2, <1>3, <1>5
  <2>2. LookUp(f, v[k], follow) = LookUp(g, v[k], follow)
    BY <1>1, <2>1, SameLookUp
  <2>3. v[k + 1] = w[k + 1]
    BY <1>2, <2>1, <2>2
  <2>4. QED
    BY <2>3
<1> HIDE DEF S
<1>6. Nat \subseteq S
  BY <1>4, <1>5, NatSteps
<1>7. \A k \in Nat : v[k] = w[k]
  BY <1>6 DEF S
<1>8. Namei(f, path, follow) = Namei(g, path, follow)
  <2>1. Walk(f, path, follow)[MaxWalk] = Walk(g, path, follow)[MaxWalk]
    BY <1>1, <1>7 DEF IsWalk
  <2>2. QED
    BY <2>1 DEF Namei
<1>9. QED
  BY <1>3, <1>7, <1>8

\* Nothing on the way to the binary is in the user's hands.
Sealed(f) == \A k \in Nat : Powerless(f, At(Walk(f, Invocation, Yes)[k]))
RunsIn(f) == LET n == Follow(f, Invocation)
             IN  IF n \in Errors \/ f[n].kind # "file" THEN "nothing" ELSE f[n].text

LEMMA SealedStays ==
    ASSUME NEW f, IsFileSystem(f), NEW g, IsFileSystem(g), Frame(f, g), Sealed(f) \/ Sealed(g)
    PROVE  Sealed(f) /\ Sealed(g) /\ RunsIn(f) = RunsIn(g)
<1>1. PICK v, w : v = Walk(f, Invocation, Yes) /\ w = Walk(g, Invocation, Yes)
  OBVIOUS
<1>2. IsWalk(f, Invocation, Yes, v) /\ IsWalk(g, Invocation, Yes, w)
  BY <1>1, SkillAssumption DEF IsWalk
<1>3. \/ \A k \in Nat : Powerless(f, At(v[k]))
      \/ \A k \in Nat : Powerless(g, At(w[k]))
  BY <1>1 DEF Sealed
<1>4. /\ \A k \in Nat : v[k] = w[k] /\ f[At(v[k])] = g[At(v[k])]
      /\ Namei(f, Invocation, Yes) = Namei(g, Invocation, Yes)
  <2>1. Related(f, g, Invocation, Yes, v, w)
    BY <1>2 DEF Related
  <2>2. QED
    BY <1>3, <2>1, SameWalk
<1>5. Sealed(f) /\ Sealed(g)
  BY <1>1, <1>3, <1>4 DEF Sealed, Powerless
<1>6. Follow(f, Invocation) = Follow(g, Invocation)
  BY <1>4, YesAndNo
<1>7. ASSUME Follow(f, Invocation) \notin Errors
      PROVE  f[Follow(f, Invocation)] = g[Follow(f, Invocation)]
  <2>1. PICK p : p = Namei(f, Invocation, Yes)
    OBVIOUS
  <2>2. p.error = "none"
    BY <1>2, <1>7, <2>1, NameiIs, YesAndNo
  <2>3. EndOf(p) = At(v[MaxWalk])
    BY <1>2, <2>1, <2>2, NameiIs
  <2>4. MaxWalk \in Nat /\ EndOf(p) = Follow(f, Invocation)
    BY <2>1, YesAndNo, SkillAssumption
  <2>5. QED
    BY <1>4, <2>3, <2>4
<1>8. RunsIn(f) = RunsIn(g)
  BY <1>6, <1>7 DEF RunsIn
<1>9. QED
  BY <1>5, <1>8

(***************************************************************************)
(* Paths.                                                                  *)
(***************************************************************************)
LEMMA PathParts ==
    ASSUME NEW p
    PROVE  /\ IsPath(p) => /\ p \in Seq(Word) /\ p # <<>> /\ Len(p) \in Nat \ {0} /\ Head(p) = "/" /\ p[1] = "/"
                           /\ \A i \in 2 .. Len(p) : p[i] # "/"
                           /\ Tail(p) \in Seq(Word) /\ NoRoot(Tail(p))
           /\ p \in Seq(Word) /\ Len(p) >= 1 /\ p[1] = "/" /\ (\A i \in 2 .. Len(p) : p[i] # "/") => IsPath(p)
<1>1. ASSUME p \in Seq(Word), p # <<>>
      PROVE  /\ Len(p) \in Nat \ {0} /\ Head(p) = p[1] /\ Tail(p) \in Seq(Word)
             /\ DOMAIN Tail(p) = 1 .. Len(p) - 1
             /\ \A i \in 1 .. Len(p) - 1 : Tail(p)[i] = p[i + 1]
  <2>1. Len(p) \in Nat \ {0}
    BY <1>1, EmptySeq, LenProperties
  <2>2. Tail(p) \in Seq(Word) /\ Len(Tail(p)) = Len(p) - 1 /\ Head(p) = p[1]
        /\ \A i \in DOMAIN Tail(p) : Tail(p)[i] = p[i + 1]
    BY <1>1, HeadIs
  <2>3. DOMAIN Tail(p) = 1 .. Len(p) - 1
    BY <2>2, LenProperties
  <2>4. QED
    BY <2>1, <2>2, <2>3
<1>2. ASSUME IsPath(p)
      PROVE  /\ p \in Seq(Word) /\ p # <<>> /\ Len(p) \in Nat \ {0} /\ Head(p) = "/" /\ p[1] = "/"
             /\ \A i \in 2 .. Len(p) : p[i] # "/"
             /\ Tail(p) \in Seq(Word) /\ NoRoot(Tail(p))
  <2>1. p \in Seq(Word) /\ p # <<>> /\ Head(p) = "/" /\ \A i \in DOMAIN Tail(p) : Tail(p)[i] # "/"
    BY <1>2 DEF IsPath
  <2>2. ASSUME NEW i \in 2 .. Len(p) PROVE p[i] # "/"
    <3>1. i - 1 \in 1 .. Len(p) - 1 /\ i - 1 + 1 = i
      BY <1>1, <2>1
    <3>2. QED
      BY <1>1, <2>1, <3>1
  <2>3. QED
    BY <1>1, <2>1, <2>2 DEF NoRoot
<1>3. ASSUME p \in Seq(Word), Len(p) >= 1, p[1] = "/", \A i \in 2 .. Len(p) : p[i] # "/"
      PROVE  IsPath(p)
  <2>1. p # <<>>
    BY <1>3, EmptySeq
  <2>2. ASSUME NEW i \in DOMAIN Tail(p) PROVE Tail(p)[i] # "/"
    <3>1. i \in 1 .. Len(p) - 1 /\ i + 1 \in 2 .. Len(p)
      BY <1>1, <1>3, <2>1
    <3>2. QED
      BY <1>1, <1>3, <2>1, <3>1
  <2>3. QED
    BY <1>1, <1>3, <2>1, <2>2 DEF IsPath
<1>4. QED
  BY <1>2, <1>3

LEMMA PathThen ==
    ASSUME NEW a, IsPath(a)
    PROVE  /\ IsTarget(a)
           /\ \A b \in Seq(Word) : NoRoot(b) => a \o b \in Seq(Word) /\ IsPath(a \o b)
           /\ \A x \in Word \ {"/"} : IsPath(Append(a, x))
           /\ Len(a) > 1 => IsPath(Front(a))
           /\ IsPath(<<"/">>) /\ Append(<<>>, "/") = <<"/">>
<1>1. /\ a \in Seq(Word) /\ a # <<>> /\ Len(a) \in Nat \ {0} /\ a[1] = "/" /\ Head(a) = "/"
      /\ \A i \in 2 .. Len(a) : a[i] # "/"
  BY PathParts
<1>2. IsTarget(a)
  BY DEF IsTarget
<1>3. ASSUME NEW b \in Seq(Word), NoRoot(b) PROVE a \o b \in Seq(Word) /\ IsPath(a \o b)
  BY <1>1, <1>2, <1>3, TargetThen
<1>4. ASSUME NEW x \in Word \ {"/"} PROVE IsPath(Append(a, x))
  <2>1. /\ Append(a, x) \in Seq(Word) /\ Len(Append(a, x)) = Len(a) + 1
        /\ \A i \in 1 .. Len(a) : Append(a, x)[i] = a[i]
        /\ Append(a, x)[Len(a) + 1] = x
    BY <1>1, AppendProperties
  <2>2. Len(Append(a, x)) >= 1 /\ Append(a, x)[1] = "/"
    BY <1>1, <2>1
  <2>3. ASSUME NEW i \in 2 .. Len(Append(a, x)) PROVE Append(a, x)[i] # "/"
    BY <1>1, <2>1
  <2>4. QED
    BY <2>1, <2>2, <2>3, PathParts
<1>5. ASSUME Len(a) > 1 PROVE IsPath(Front(a))
  <2>1. /\ Front(a) \in Seq(Word) /\ Len(Front(a)) = Len(a) - 1
        /\ \A i \in 1 .. Len(a) - 1 : Front(a)[i] = a[i]
    BY <1>1, FrontIs
  <2>2. Len(Front(a)) >= 1 /\ Front(a)[1] = "/"
    BY <1>1, <1>5, <2>1
  <2>3. ASSUME NEW i \in 2 .. Len(Front(a)) PROVE Front(a)[i] # "/"
    BY <1>1, <2>1
  <2>4. QED
    BY <2>1, <2>2, <2>3, PathParts
<1>6. IsPath(<<"/">>) /\ Append(<<>>, "/") = <<"/">>
  <2>1. <<"/">> \in Seq(Word) /\ Len(<<"/">>) = 1 /\ <<"/">>[1] = "/"
    BY DEF Word
  <2>2. IsPath(<<"/">>)
    <3>1. PICK s : s = <<"/">>
      OBVIOUS
    <3>2. s \in Seq(Word) /\ Len(s) >= 1 /\ s[1] = "/"
      BY <2>1, <3>1
    <3>3. \A i \in 2 .. Len(s) : s[i] # "/"
      <4>1. Len(s) = 1
        BY <2>1, <3>1
      <4>2. 2 .. Len(s) = {}
        BY <4>1
      <4>3. QED
        BY <4>2
    <3>4. IsPath(s)
      BY <3>2, <3>3, PathParts
    <3>5. QED
      BY <3>1, <3>4
  <2>3. /\ Append(<<>>, "/") \in Seq(Word) /\ Len(Append(<<>>, "/")) = 1
        /\ Append(<<>>, "/")[1] = "/"
    <3>1. <<>> \in Seq(Word) /\ Len(<<>>) = 0 /\ "/" \in Word /\ 0 + 1 = 1
      BY EmptySeq DEF Word
    <3>2. /\ Append(<<>>, "/") \in Seq(Word) /\ Len(Append(<<>>, "/")) = Len(<<>>) + 1
          /\ Append(<<>>, "/")[Len(<<>>) + 1] = "/"
      BY <3>1, AppendProperties
    <3>3. QED
      BY <3>1, <3>2
  <2>4. Append(<<>>, "/") = <<"/">>
    BY <2>1, <2>3, SeqEqual
  <2>5. QED
    BY <2>2, <2>4
<1>7. QED
  BY <1>2, <1>3, <1>4, <1>5, <1>6

(***************************************************************************)
(* resolution_chain, step by step.                                         *)
(***************************************************************************)
Split(cur, rest) == /\ cur \in Seq(Word) /\ rest \in Seq(Word)
                    /\ \/ cur = <<>> /\ (rest = <<>> \/ IsPath(rest))
                       \/ IsPath(cur) /\ NoRoot(rest)
Paths == {q \in Seq(Word) : IsPath(q)}
ChainType == [cur : Seq(Word), rest : Seq(Word), seen : SUBSET Paths, queued : SUBSET Seq(Word), complete : BOOLEAN]
Chains == {c \in ChainType : Split(c.cur, c.rest)}

Here(c) == Append(c.cur, Head(c.rest))
GoesBack(c, e) == /\ Head(c.rest) = ".." /\ c.cur # <<>>
                  /\ e.cur = IF Len(c.cur) > 1 THEN Front(c.cur) ELSE c.cur
                  /\ e.rest = Tail(c.rest) /\ e.seen = c.seen /\ e.complete = c.complete
\* Given up, perhaps with the link it was about to follow.
GaveUp(f, c, e) == /\ ~e.complete /\ e.rest = <<>>
                   /\ \/ e.seen = c.seen
                      \/ /\ Head(c.rest) # ".." /\ IsPath(Here(c))
                         /\ Lstat(f, Here(c)) \in Node /\ f[Lstat(f, Here(c))].kind = "link"
                         /\ e.seen = c.seen \cup {Here(c)}
Proceeds(f, c, e) == /\ Head(c.rest) # ".." /\ IsPath(Here(c))
                      /\ Lstat(f, Here(c)) \in Node /\ f[Lstat(f, Here(c))].kind # "link"
                     /\ e.cur = Here(c) /\ e.rest = Tail(c.rest)
                    /\ e.seen = c.seen \cup {Here(c)} /\ e.complete = c.complete
Restarts(f, c, e) == /\ Head(c.rest) # ".." /\ IsPath(Here(c))
                     /\ Lstat(f, Here(c)) \in Node /\ f[Lstat(f, Here(c))].kind = "link"
                     /\ e.cur = <<>> /\ e.rest = Target(f[Lstat(f, Here(c))], c.cur) \o Tail(c.rest)
                     /\ e.seen = c.seen \cup {Here(c)} /\ e.complete = c.complete
                     /\ c.cur # <<>>

LEMMA SplitParts ==
    ASSUME NEW cur, NEW rest, Split(cur, rest), rest # <<>>
    PROVE  /\ cur \in Seq(Word) /\ rest \in Seq(Word) /\ Head(rest) \in Word
           /\ Tail(rest) \in Seq(Word) /\ NoRoot(Tail(rest))
           /\ Head(rest) = ".." => cur # <<>> /\ IsPath(cur)
           /\ Head(rest) # ".." => IsPath(Append(cur, Head(rest)))
           /\ cur = <<>> => Append(cur, Head(rest)) = <<"/">>
           /\ cur # <<>> => IsPath(cur) /\ NoRoot(rest)
<1>1. cur \in Seq(Word) /\ rest \in Seq(Word) /\ Head(rest) \in Word
  BY HeadIs DEF Split
<1>2. CASE cur = <<>>
  <2>1. cur # <<>> \/ ~IsPath(cur)
    BY <1>2, PathParts
  <2>2. IsPath(rest)
    BY <1>2, <2>1 DEF Split
  <2>3. Tail(rest) \in Seq(Word) /\ NoRoot(Tail(rest)) /\ Head(rest) = "/"
    BY <2>2, PathParts
  <2>4. IsPath(<<"/">>) /\ Append(<<>>, "/") = <<"/">>
    BY <2>2, PathThen
  <2>5. QED
    BY <1>1, <1>2, <2>3, <2>4
<1>3. CASE cur # <<>>
  <2>1. IsPath(cur) /\ NoRoot(rest)
    BY <1>3 DEF Split
  <2>2. Tail(rest) \in Seq(Word) /\ NoRoot(Tail(rest)) /\ (Head(rest) # ".." => Head(rest) \in Name)
    BY <1>1, <2>1, NoRootKept
  <2>3. Head(rest) # ".." => IsPath(Append(cur, Head(rest)))
    <3>1. \A x \in Name : x \in Word \ {"/"}
      BY SkillAssumption DEF Word
    <3>2. QED
      BY <2>1, <2>2, <3>1, PathThen
  <2>4. QED
    BY <1>1, <1>3, <2>1, <2>2, <2>3
<1>4. QED
  BY <1>2, <1>3

LEMMA TargetIsPath ==
    ASSUME NEW link, IsTarget(link.target), NEW dir, IsPath(dir), NEW s \in Seq(Word), NoRoot(s)
    PROVE  IsPath(Target(link, dir) \o s) /\ Target(link, dir) \o s \in Seq(Word)
<1> DEFINE t == link.target
<1>1. /\ t \in Seq(Word) /\ t \o s \in Seq(Word)
      /\ Head(t) = "/" => IsPath(t \o s)
      /\ Head(t) # "/" => NoRoot(t) /\ NoRoot(t \o s)
  BY TargetThen
<1>2. CASE Head(t) = "/"
  BY <1>1, <1>2 DEF Target
<1>3. CASE Head(t) # "/"
  <2>1. Target(link, dir) = dir \o t
    BY <1>3 DEF Target
  <2>2. (dir \o t) \o s = dir \o (t \o s)
    <3>1. dir \in Seq(Word)
      BY PathParts
    <3>2. t \in Seq(Word)
      BY <1>1
    <3> HIDE DEF t
    <3>3. QED
      BY <3>1, <3>2, Regroup
  <2>3. IsPath(dir \o (t \o s)) /\ dir \o (t \o s) \in Seq(Word)
    BY <1>1, <1>3, PathThen
  <2>4. QED
    BY <2>1, <2>2, <2>3
<1>4. QED
  BY <1>2, <1>3

LEMMA AdvanceSteps ==
    ASSUME NEW f, IsFileSystem(f), NEW c \in Chains, c.rest # <<>>, NEW e, e = Advance(f, c)
    PROVE  /\ e \in Chains
           /\ GoesBack(c, e) \/ GaveUp(f, c, e) \/ Proceeds(f, c, e) \/ Restarts(f, c, e)
<1> DEFINE x == Head(c.rest)
           here == Here(c)
           n == Lstat(f, here)
           next == Target(f[n], c.cur) \o Tail(c.rest)
           saw == [c EXCEPT !.seen = @ \cup {here}]
<1>1. c \in ChainType /\ Split(c.cur, c.rest)
  BY DEF Chains
<1>2. /\ c.cur \in Seq(Word) /\ c.rest \in Seq(Word) /\ x \in Word
      /\ Tail(c.rest) \in Seq(Word) /\ NoRoot(Tail(c.rest))
      /\ x = ".." => c.cur # <<>> /\ IsPath(c.cur)
      /\ x # ".." => IsPath(here)
      /\ c.cur = <<>> => here = <<"/">>
      /\ c.cur # <<>> => IsPath(c.cur) /\ NoRoot(c.rest)
  BY <1>1, SplitParts DEF Here
<1>3. <<>> \in Seq(Word) /\ NoRoot(<<>>)
  BY EmptySeq DEF NoRoot
<1>4. CASE x = ".."
  <2> DEFINE up == IF Len(c.cur) > 1 THEN Front(c.cur) ELSE c.cur
  <2>1. e = [c EXCEPT !.cur = up, !.rest = Tail(@)]
    BY <1>4 DEF Advance
  <2>2. up \in Seq(Word) /\ IsPath(up)
    BY <1>2, <1>4, PathThen, PathParts
  <2> HIDE DEF up
  <2>3. /\ e \in ChainType /\ e.cur = up /\ e.rest = Tail(c.rest) /\ e.seen = c.seen /\ e.complete = c.complete
    BY <1>1, <1>2, <2>1, <2>2 DEF ChainType
  <2>4. Split(e.cur, e.rest)
    BY <1>2, <2>2, <2>3 DEF Split
  <2>5. GoesBack(c, e)
    BY <1>2, <1>4, <2>3 DEF GoesBack, up
  <2>6. QED
    BY <2>3, <2>4, <2>5 DEF Chains
<1>5. CASE x # ".." /\ n \in Errors
  <2>1. e = GiveUp(c)
    BY <1>5 DEF Advance, Pass, Here
  <2>2. e \in ChainType /\ e.cur = c.cur /\ e.rest = <<>> /\ e.seen = c.seen /\ ~e.complete
    BY <1>1, <1>3, <2>1 DEF GiveUp, ChainType
  <2>3. Split(e.cur, e.rest)
    BY <1>2, <1>3, <2>2 DEF Split
  <2>4. QED
    BY <2>2, <2>3 DEF Chains, GaveUp
<1>6. CASE x # ".." /\ n \notin Errors
  <2>1. IsPath(here) /\ n \in Node /\ here \in Paths /\ here \in Seq(Word)
    BY <1>2, <1>6, FollowIs, PathParts DEF Paths
  <2> HIDE DEF here, n
  <2>2. saw \in ChainType /\ saw.cur = c.cur /\ saw.rest = c.rest /\ saw.seen = c.seen \cup {here}
        /\ saw.complete = c.complete /\ saw.queued = c.queued
    BY <1>1, <2>1 DEF ChainType
  <2>3. CASE f[n].kind # "link"
    <3>1. e = [saw EXCEPT !.cur = here, !.rest = Tail(@)]
      BY <1>6, <2>3 DEF Advance, Pass, Here, here, n
    <3> HIDE DEF saw
    <3>2. /\ e \in ChainType /\ e.cur = here /\ e.rest = Tail(c.rest) /\ e.seen = c.seen \cup {here}
          /\ e.complete = c.complete
      BY <1>2, <2>1, <2>2, <3>1 DEF ChainType
    <3>3. Split(e.cur, e.rest)
      BY <1>2, <2>1, <3>2 DEF Split
    <3>4. Proceeds(f, c, e)
      BY <1>6, <2>1, <2>3, <3>2 DEF Proceeds, here, n
    <3>5. QED
      BY <3>2, <3>3, <3>4 DEF Chains
  <2>4. CASE f[n].kind = "link"
    <3>1. c.cur # <<>>
      <4>1. SUFFICES ASSUME c.cur = <<>> PROVE FALSE
        OBVIOUS
      <4>2. n = Root
        BY <1>2, <4>1, LstatRoot DEF n
      <4>3. QED
        BY <2>4, <4>2, NodeTypes
    <3>2. IsPath(next) /\ next \in Seq(Word)
      BY <1>2, <2>1, <2>4, <3>1, NodeTypes, TargetIsPath
    <3>3. CASE e = GiveUp(saw)
      <4> HIDE DEF saw
      <4>1. e \in ChainType /\ e.cur = c.cur /\ e.rest = <<>> /\ e.seen = c.seen \cup {here} /\ ~e.complete
        BY <1>3, <2>2, <3>3 DEF GiveUp, ChainType
      <4>2. Split(e.cur, e.rest)
        BY <1>2, <1>3, <4>1 DEF Split
      <4>3. GaveUp(f, c, e)
        BY <1>6, <2>1, <2>4, <4>1 DEF GaveUp, here, n
      <4>4. QED
        BY <4>1, <4>2, <4>3 DEF Chains
    <3>4. CASE e = [saw EXCEPT !.cur = <<>>, !.rest = next, !.queued = @ \cup {next}]
      <4> HIDE DEF saw, next
      <4>1. /\ e \in ChainType /\ e.cur = <<>> /\ e.rest = next /\ e.seen = c.seen \cup {here}
            /\ e.complete = c.complete
        BY <1>3, <2>2, <3>2, <3>4 DEF ChainType
      <4>2. Split(e.cur, e.rest)
        BY <1>3, <3>2, <4>1 DEF Split
      <4>3. Restarts(f, c, e)
        BY <1>6, <2>1, <2>4, <3>1, <4>1 DEF Restarts, here, n, next
      <4>4. QED
        BY <4>1, <4>2, <4>3 DEF Chains
    <3>5. e \in {GiveUp(saw), [saw EXCEPT !.cur = <<>>, !.rest = next, !.queued = @ \cup {next}]}
      BY <1>6, <2>4 DEF Advance, Pass, Here, here, n
    <3>6. QED
      BY <3>3, <3>4, <3>5
  <2>5. QED
    BY <2>3, <2>4
<1>7. QED
  BY <1>4, <1>5, <1>6

LEMMA TrailIs ==
    ASSUME NEW f, IsFileSystem(f), NEW seed, IsPath(seed)
    PROVE  /\ Trail(f, seed)[0] = Begin(seed)
           /\ \A k \in Nat : /\ Trail(f, seed)[k] \in Chains
                             /\ Trail(f, seed)[k + 1] = Advance(f, Trail(f, seed)[k])
<1>1. Begin(seed) \in Chains
  <2>1. seed \in Seq(Word) /\ <<>> \in Seq(Word)
    BY PathParts, EmptySeq
  <2>2. QED
    BY <2>1 DEF Begin, Chains, ChainType, Split
<1>2. ASSUME NEW c \in Chains PROVE Advance(f, c) \in Chains
  <2>1. CASE c.rest = <<>>
    BY <2>1 DEF Advance
  <2>2. CASE c.rest # <<>>
    BY <2>2, AdvanceSteps
  <2>3. QED
    BY <2>1, <2>2
<1> DEFINE s == [c \in Chains |-> Advance(f, c)]
<1>3. s \in [Chains -> Chains]
  BY <1>2
<1> HIDE DEF s
<1>4. PICK g \in [Nat -> Chains] : g[0] = Begin(seed) /\ \A k \in Nat : g[k + 1] = s[g[k]]
  BY <1>1, <1>3, Iterates
<1> DEFINE Eq(h) == h = [k \in Nat |-> IF k = 0 THEN Begin(seed) ELSE Advance(f, h[k - 1])]
<1>5. Eq(g)
  <2>1. ASSUME NEW k \in Nat PROVE g[k] = IF k = 0 THEN Begin(seed) ELSE Advance(f, g[k - 1])
    <3>1. CASE k = 0
      BY <1>4, <3>1
    <3>2. CASE k # 0
      <4>1. k - 1 \in Nat /\ k - 1 + 1 = k
        BY <3>2
      <4>2. g[k] = s[g[k - 1]] /\ g[k - 1] \in Chains
        BY <1>4, <4>1
      <4>3. QED
        BY <3>2, <4>2 DEF s
    <3>3. QED
      BY <3>1, <3>2
  <2>2. QED
    BY <1>4, <2>1
<1>6. Trail(f, seed) = CHOOSE h : Eq(h)
  BY DEF Trail
<1>7. Eq(Trail(f, seed))
  BY <1>5, <1>6
<1> DEFINE t == Trail(f, seed)
<1>8. t[0] = Begin(seed) /\ \A k \in Nat : t[k + 1] = Advance(f, t[k])
  <2>1. t = [k \in Nat |-> IF k = 0 THEN Begin(seed) ELSE Advance(f, t[k - 1])]
    BY <1>7
  <2> HIDE DEF t
  <2>2. t[0] = Begin(seed)
    BY <2>1
  <2>3. ASSUME NEW k \in Nat PROVE t[k + 1] = Advance(f, t[k])
    <3>1. k + 1 \in Nat /\ k + 1 # 0 /\ k + 1 - 1 = k
      OBVIOUS
    <3>2. t[k + 1] = IF k + 1 = 0 THEN Begin(seed) ELSE Advance(f, t[k + 1 - 1])
      BY <2>1, <3>1
    <3>3. QED
      BY <3>1, <3>2
  <2>4. QED
    BY <2>2, <2>3
<1> HIDE DEF t
<1> DEFINE T == {k \in Nat : t[k] \in Chains}
<1>9. 0 \in T /\ \A k \in Nat : k \in T => k + 1 \in T
  BY <1>1, <1>2, <1>8
<1> HIDE DEF T
<1>10. Nat \subseteq T
  BY <1>9, NatSteps
<1>11. QED
  BY <1>8, <1>10 DEF T, t

(***************************************************************************)
(* resolution_chain beside the kernel: it is a prefix of the names behind, *)
(* or at the same name of the same path.                                   *)
(***************************************************************************)
LEMMA ClearPrefix ==
    ASSUME NEW f, IsFileSystem(f), NEW inodes, NEW names, Clear(f, inodes, names), NEW m \in 1 .. Len(names)
    PROVE  /\ Clear(f, SubSeq(inodes, 1, m), SubSeq(names, 1, m))
           /\ SubSeq(inodes, 1, m) \in Seq(Node) /\ SubSeq(names, 1, m) \in Seq(Word)
           /\ Len(SubSeq(inodes, 1, m)) = m /\ Len(SubSeq(names, 1, m)) = m
           /\ \A i \in 1 .. m : SubSeq(inodes, 1, m)[i] = inodes[i] /\ SubSeq(names, 1, m)[i] = names[i]
<1> DEFINE a == SubSeq(inodes, 1, m)
           b == SubSeq(names, 1, m)
<1>1. /\ inodes \in Seq(Node) /\ names \in Seq(Word) /\ Len(names) = Len(inodes) /\ Len(names) >= 1
      /\ inodes[1] = Root /\ names[1] = "/"
      /\ \A i \in 1 .. Len(inodes) - 1 :
            /\ f[inodes[i]].kind = "dir" /\ f[inodes[i]].search
            /\ names[i + 1] \in Name /\ inodes[i + 1] = f[inodes[i]].entries[names[i + 1]]
      /\ \A i \in 1 .. Len(inodes) : f[inodes[i]].kind # "free" /\ f[inodes[i]].kind # "link"
  BY DEF Clear, Leads
<1>2. Len(inodes) \in Nat /\ Len(names) \in Nat /\ m \in Nat /\ m >= 1 /\ m <= Len(names) /\ m \in Int /\ 1 \in Int
  BY <1>1, LenProperties
<1>3. \A i \in 1 .. m : inodes[i] \in Node /\ names[i] \in Word
  BY <1>1, <1>2, ElementOfSeq
<1>4. ASSUME NEW S, NEW s \in Seq(S), \A i \in 1 .. m : s[i] \in S
      PROVE  SubSeq(s, 1, m) \in Seq(S) /\ Len(SubSeq(s, 1, m)) = m /\ \A i \in 1 .. m : SubSeq(s, 1, m)[i] = s[i]
  <2>1. /\ SubSeq(s, 1, m) \in Seq(S)
        /\ Len(SubSeq(s, 1, m)) = IF 1 <= m THEN m - 1 + 1 ELSE 0
        /\ \A i \in 1 .. m - 1 + 1 : SubSeq(s, 1, m)[i] = s[1 + i - 1]
    BY <1>2, <1>4, SubSeqProperties
  <2>2. (IF 1 <= m THEN m - 1 + 1 ELSE 0) = m /\ m - 1 + 1 = m /\ \A i \in 1 .. m : 1 + i - 1 = i
    BY <1>2
  <2>3. QED
    BY <2>1, <2>2
<1>5. a \in Seq(Node) /\ Len(a) = m /\ \A i \in 1 .. m : a[i] = inodes[i]
  BY <1>1, <1>3, <1>4
<1>6. b \in Seq(Word) /\ Len(b) = m /\ \A i \in 1 .. m : b[i] = names[i]
  BY <1>1, <1>3, <1>4
<1> HIDE DEF a, b
<1>7. a[1] = Root /\ b[1] = "/"
  BY <1>1, <1>2, <1>5, <1>6
<1>8. ASSUME NEW i \in 1 .. m - 1
      PROVE  /\ f[a[i]].kind = "dir" /\ f[a[i]].search
             /\ b[i + 1] \in Name /\ a[i + 1] = f[a[i]].entries[b[i + 1]]
  <2>1. i \in 1 .. Len(inodes) - 1 /\ i \in 1 .. m /\ i + 1 \in 1 .. m
    BY <1>1, <1>2
  <2>2. QED
    BY <1>1, <1>5, <1>6, <2>1
<1>9. ASSUME NEW i \in 1 .. m PROVE f[a[i]].kind # "free" /\ f[a[i]].kind # "link"
  <2>1. i \in 1 .. Len(inodes)
    BY <1>1, <1>2
  <2>2. QED
    BY <1>1, <1>5, <2>1
<1>10. Clear(f, a, b)
  BY <1>2, <1>5, <1>6, <1>7, <1>8, <1>9 DEF Clear, Leads
<1>11. QED
  BY <1>5, <1>6, <1>10 DEF a, b

LEMMA PrefixLstat ==
    ASSUME NEW f, IsFileSystem(f), NEW inodes, NEW names, Clear(f, inodes, names),
           NEW cur \in Seq(Word), NEW m \in Nat, m = Len(cur), m < Len(names),
           \A i \in 1 .. m : cur[i] = names[i],
           NEW n, n = Lstat(f, Append(cur, names[m + 1]))
    PROVE  n \in Errors \/ n = inodes[m + 1]
<1>1. /\ Len(names) \in Nat /\ Len(inodes) = Len(names) /\ inodes[1] = Root /\ names[1] = "/" /\ names \in Seq(Word)
      /\ \A i \in 1 .. Len(inodes) - 1 :
            names[i + 1] \in Name /\ inodes[i + 1] = f[inodes[i]].entries[names[i + 1]]
  BY LenProperties DEF Clear, Leads
<1>2. CASE m = 0
  <2>1. cur = <<>>
    BY <1>2, EmptySeq
  <2>2. Append(cur, names[m + 1]) = <<"/">>
    <3>1. names[m + 1] = "/"
      BY <1>1, <1>2
    <3>2. IsPath(<<"/">>)
      BY LstatRoot
    <3>3. Append(<<>>, "/") = <<"/">>
      BY <3>2, PathThen
    <3>4. QED
      BY <2>1, <3>1, <3>3
  <2>3. QED
    BY <1>1, <1>2, <2>2, LstatRoot
<1>3. CASE m # 0
  <2>1. m \in 1 .. Len(names) /\ m \in 1 .. Len(inodes) - 1 /\ m \in 1 .. m
    BY <1>1, <1>3
  <2>2. PICK a, b : a = SubSeq(inodes, 1, m) /\ b = SubSeq(names, 1, m)
    OBVIOUS
  <2>3. /\ Clear(f, a, b) /\ b \in Seq(Word) /\ Len(a) = m /\ Len(b) = m
        /\ \A i \in 1 .. m : a[i] = inodes[i] /\ b[i] = names[i]
    BY <2>1, <2>2, ClearPrefix
  <2>4. cur = b
    BY <2>3, SeqEqual
  <2>5. PICK x, d : x = names[m + 1] /\ d = a[Len(a)]
    OBVIOUS
  <2>6. x \in Name /\ d = inodes[m] /\ n = Lstat(f, Append(b, x)) /\ Clear(f, a, b)
    BY <1>1, <2>1, <2>3, <2>4, <2>5
  <2>7. HeadsTo(f, d, x, n)
    BY <2>5, <2>6, LstatIs
  <2>8. inodes[m + 1] = f[inodes[m]].entries[names[m + 1]]
    BY <1>1, <2>1
  <2>9. QED
    BY <2>5, <2>6, <2>7, <2>8 DEF HeadsTo
<1>4. QED
  BY <1>2, <1>3

\* Where a followed walk stands, no link is on the way.
LEMMA WalkClear ==
    ASSUME NEW f, NEW path, NEW w, IsWalk(f, path, Yes, w), NEW k \in Nat
    PROVE  /\ Clear(f, w[k].inodes, w[k].names) /\ w[k] \in Positions(f)
           /\ w[k + 1] = LookUp(f, w[k], Yes) /\ w[k + 1] \in Positions(f)
           /\ At(w[k]) \in Node /\ At(w[k]) = w[k].inodes[Len(w[k].names)]
           /\ w[k].inodes \in Seq(Node) /\ w[k].names \in Seq(Word) /\ w[k].rest \in Seq(Word) /\ NoRoot(w[k].rest)
           /\ Len(w[k].names) \in Nat \ {0} /\ Len(w[k].inodes) = Len(w[k].names)
<1>1. IsFileSystem(f) /\ \A n \in Nat : /\ w[n + 1] = LookUp(f, w[n], Yes)
                                        /\ w[n] \in Reached(f, Yes) /\ w[n] \in Positions(f)
  BY WalkSteps
<1>2. w[k] \in Reached(f, Yes) /\ w[k] \in Positions(f) /\ w[k + 1] = LookUp(f, w[k], Yes) /\ w[k + 1] \in Positions(f)
  BY <1>1
<1>3. Clear(f, w[k].inodes, w[k].names)
  BY <1>2, YesAndNo DEF Reached, Positions, Clear
<1>4. /\ At(w[k]) \in Node /\ At(w[k]) = w[k].inodes[Len(w[k].inodes)] /\ Len(w[k].inodes) \in Nat \ {0}
      /\ w[k].inodes \in Seq(Node) /\ w[k].names \in Seq(Word) /\ w[k].rest \in Seq(Word)
      /\ Len(w[k].names) = Len(w[k].inodes) /\ NoRoot(w[k].rest)
  BY <1>1, <1>2, AtIs
<1>5. QED
  BY <1>2, <1>3, <1>4

Covered(f, seen, n) == \E q \in seen : IsPath(q) /\ Lstat(f, q) = n
Beside(f, c, p) == /\ Splits(c.cur, c.rest, p.names, p.rest)
                   /\ \A m \in 1 .. Len(c.cur) : Covered(f, c.seen, p.inodes[m])
Stands(f, p) == IsFileSystem(f) /\ p \in Positions(f) /\ Clear(f, p.inodes, p.names)
Moves(f, c, e) == c \in Chains /\ c.rest # <<>> /\ e = Advance(f, c) /\ e.complete

LEMMA MovesOn ==
    ASSUME NEW f, IsFileSystem(f), NEW c, NEW e, Moves(f, c, e)
    PROVE  /\ e \in Chains /\ c.complete /\ c.seen \subseteq e.seen
           /\ c.cur \in Seq(Word) /\ c.rest \in Seq(Word) /\ Len(c.cur) \in Nat
           /\ GoesBack(c, e) \/ Proceeds(f, c, e) \/ Restarts(f, c, e)
<1>1. c \in Chains /\ c.rest # <<>> /\ e = Advance(f, c) /\ e.complete
  BY DEF Moves
<1>2. e \in Chains /\ (GoesBack(c, e) \/ GaveUp(f, c, e) \/ Proceeds(f, c, e) \/ Restarts(f, c, e))
  BY <1>1, AdvanceSteps
<1>3. GoesBack(c, e) \/ Proceeds(f, c, e) \/ Restarts(f, c, e)
  BY <1>1, <1>2 DEF GaveUp
<1>4. c.seen \subseteq e.seen /\ c.complete
  BY <1>1, <1>3 DEF GoesBack, Proceeds, Restarts
<1>5. c.cur \in Seq(Word) /\ c.rest \in Seq(Word) /\ Len(c.cur) \in Nat
  BY <1>1, LenProperties DEF Chains, ChainType
<1>6. QED
  BY <1>2, <1>3, <1>4, <1>5

LEMMA StillCovered ==
    ASSUME NEW f, NEW s, NEW t, s \subseteq t, NEW n, Covered(f, s, n)
    PROVE  Covered(f, t, n)
BY DEF Covered

\* Behind the kernel, the next prefix is one the kernel has passed.
LEMMA CatchesUp ==
    ASSUME NEW f, NEW p, Stands(f, p), NEW c, NEW e, Moves(f, c, e), Beside(f, c, p), Len(c.cur) < Len(p.names)
    PROVE  Beside(f, e, p)
<1>1. IsFileSystem(f) /\ p \in Positions(f) /\ Clear(f, p.inodes, p.names)
  BY DEF Stands
<1>2. /\ e \in Chains /\ c.seen \subseteq e.seen /\ c.cur \in Seq(Word) /\ c.rest \in Seq(Word) /\ Len(c.cur) \in Nat
      /\ GoesBack(c, e) \/ Proceeds(f, c, e) \/ Restarts(f, c, e)
      /\ c.rest # <<>>
  BY <1>1, MovesOn DEF Moves
<1>3. PICK m : m = Len(c.cur)
  OBVIOUS
<1>4. /\ Splits(c.cur, c.rest, p.names, p.rest)
      /\ \A i \in 1 .. m : Covered(f, c.seen, p.inodes[i])
  BY <1>3 DEF Beside
<1>5. /\ \A i \in 1 .. m : c.cur[i] = p.names[i]
      /\ Head(c.rest) = p.names[m + 1] /\ c.rest # <<>>
  BY <1>3, <1>4, TwoSplits
<1>6. PICK n : n = Lstat(f, Here(c))
  OBVIOUS
<1>7. n \in Errors \/ n = p.inodes[m + 1]
  <2>1. n = Lstat(f, Append(c.cur, p.names[m + 1]))
    BY <1>5, <1>6 DEF Here
  <2>2. PICK a, b, g : a = p.inodes /\ b = p.names /\ g = c.cur
    OBVIOUS
  <2>3. /\ Clear(f, a, b) /\ g \in Seq(Word) /\ m = Len(g) /\ m < Len(b) /\ m \in Nat
        /\ (\A i \in 1 .. m : g[i] = b[i]) /\ n = Lstat(f, Append(g, b[m + 1]))
    BY <1>1, <1>2, <1>3, <1>5, <2>1, <2>2
  <2>4. IsFileSystem(f)
    BY <1>1
  <2>5. n \in Errors \/ n = a[m + 1]
    BY <2>3, <2>4, PrefixLstat
  <2>6. QED
    BY <2>2, <2>5
<1>8. /\ Len(p.names) \in Nat /\ Len(p.inodes) = Len(p.names) /\ p.names \in Seq(Word) /\ p.names[1] = "/"
      /\ \A i \in 1 .. Len(p.inodes) - 1 : p.names[i + 1] \in Name
      /\ \A i \in 1 .. Len(p.inodes) : f[p.inodes[i]].kind # "link"
  BY <1>1, LenProperties DEF Clear, Leads
<1>9. m \in Nat /\ m + 1 \in 1 .. Len(p.inodes) /\ (m # 0 => m \in 1 .. Len(p.inodes) - 1)
  BY <1>2, <1>3, <1>8
<1>10. p.names[m + 1] # ".."
  <2>1. CASE m = 0
    BY <1>8, <2>1
  <2>2. CASE m # 0
    <3>1. p.names[m + 1] \in Name
      BY <1>8, <1>9, <2>2
    <3>2. QED
      BY <1>1, <3>1, NodeTypes
  <2>3. QED
    BY <2>1, <2>2
<1>11. Proceeds(f, c, e) /\ n \in Node
  <2>1. ~GoesBack(c, e)
    BY <1>5, <1>10 DEF GoesBack
  <2>2. ASSUME n \in Node PROVE f[n].kind # "link"
    <3>1. n = p.inodes[m + 1]
      BY <1>1, <1>7, <2>2, NodeTypes
    <3>2. QED
      BY <1>8, <1>9, <3>1
  <2>3. ~Restarts(f, c, e)
    BY <1>6, <2>2 DEF Restarts
  <2>4. QED
    BY <1>2, <1>6, <2>1, <2>3 DEF Proceeds
<1>12. /\ e.cur = Append(c.cur, Head(c.rest)) /\ e.rest = Tail(c.rest) /\ e.seen = c.seen \cup {Here(c)}
       /\ IsPath(Here(c))
  BY <1>11 DEF Proceeds, Here
<1>13. /\ e.cur \in Seq(Word) /\ e.rest \in Seq(Word) /\ Len(e.cur) = m + 1
       /\ e.cur \o e.rest = c.cur \o c.rest
  <2>1. e.cur \in Seq(Word) /\ e.cur \o e.rest = c.cur \o c.rest
    <3>1. PICK a, b : a = c.cur /\ b = c.rest
      OBVIOUS
    <3>2. a \in Seq(Word) /\ b \in Seq(Word) /\ b # <<>>
      BY <1>2, <1>5, <3>1
    <3>3. Append(a, Head(b)) \in Seq(Word) /\ Append(a, Head(b)) \o Tail(b) = a \o b
      BY <3>2, ShiftHead
    <3>4. QED
      BY <1>12, <3>1, <3>3
  <2>2. e.rest \in Seq(Word) /\ Head(c.rest) \in Word
    BY <1>2, <1>5, <1>12, HeadIs
  <2>3. Len(e.cur) = Len(c.cur) + 1
    BY <1>2, <1>12, <2>2, AppendProperties
  <2>4. QED
    BY <1>3, <2>1, <2>2, <2>3
<1>14. Splits(e.cur, e.rest, p.names, p.rest)
  <2>1. m + 1 <= Len(p.names)
    BY <1>8, <1>9
  <2>2. QED
    BY <1>4, <1>13, <2>1 DEF Splits
<1>15. ASSUME NEW i \in 1 .. Len(e.cur) PROVE Covered(f, e.seen, p.inodes[i])
  <2>1. CASE i \in 1 .. m
    BY <1>2, <1>4, <2>1, StillCovered
  <2>2. CASE i = m + 1
    <3>1. n = p.inodes[m + 1]
      BY <1>1, <1>7, <1>11, NodeTypes
    <3>2. Here(c) \in e.seen /\ IsPath(Here(c)) /\ Lstat(f, Here(c)) = p.inodes[i]
      BY <1>6, <1>12, <2>2, <3>1
    <3>3. QED
      BY <3>2 DEF Covered
  <2>3. QED
    BY <1>9, <1>13, <2>1, <2>2
<1>16. QED
  BY <1>14, <1>15 DEF Beside

LEMMA StandsAt ==
    ASSUME NEW f, NEW p, Stands(f, p)
    PROVE  /\ IsFileSystem(f) /\ p \in Positions(f) /\ At(p) \in Node /\ At(p) = p.inodes[Len(p.names)]
           /\ p.names \in Seq(Word) /\ p.inodes \in Seq(Node) /\ p.rest \in Seq(Word) /\ NoRoot(p.rest)
           /\ Len(p.names) \in Nat \ {0} /\ Len(p.inodes) = Len(p.names) /\ p.names # <<>>
           /\ IsPath(p.names)
<1>1. IsFileSystem(f) /\ p \in Positions(f) /\ Leads(f, p.inodes, p.names)
  BY DEF Stands, Clear
<1>2. <<>> \in Seq(Word) /\ NoRoot(<<>>)
  BY EmptySeq DEF NoRoot
<1>3. QED
  BY <1>1, <1>2, AtIs, DirectPath

\* At the same name of the same path, the two look the same name up.
LEMMA InStep ==
    ASSUME NEW f, NEW p, Stands(f, p), ~Ended(p), NEW c, NEW e, Moves(f, c, e), Beside(f, c, p),
           Len(c.cur) = Len(p.names), NEW q, q = LookUp(f, p, Yes)
    PROVE  /\ Covered(f, e.seen, At(p))
           /\ \/ Beside(f, e, q)
              \/ q.error # "none" /\ Covered(f, e.seen, At(q))
<1>1. /\ IsFileSystem(f) /\ p \in Positions(f) /\ At(p) \in Node /\ At(p) = p.inodes[Len(p.names)]
      /\ p.names \in Seq(Word) /\ p.inodes \in Seq(Node) /\ p.rest \in Seq(Word) /\ NoRoot(p.rest)
      /\ Len(p.names) \in Nat \ {0} /\ Len(p.inodes) = Len(p.names) /\ p.names # <<>>
      /\ IsPath(p.names)
  BY StandsAt
<1>2. /\ e \in Chains /\ c.seen \subseteq e.seen
      /\ GoesBack(c, e) \/ Proceeds(f, c, e) \/ Restarts(f, c, e)
  BY <1>1, MovesOn
<1>3. /\ c.cur = p.names /\ c.rest = p.rest /\ p.rest # <<>>
      /\ \A m \in 1 .. Len(p.names) : Covered(f, c.seen, p.inodes[m])
  <2>1. Splits(c.cur, c.rest, p.names, p.rest) /\ \A m \in 1 .. Len(p.names) : Covered(f, c.seen, p.inodes[m])
    BY DEF Beside
  <2>2. c.cur = p.names /\ c.rest = p.rest
    BY <2>1, TwoSplits
  <2>3. QED
    BY <2>1, <2>2 DEF Moves
<1>4. \A m \in 1 .. Len(p.names) : Covered(f, e.seen, p.inodes[m])
  BY <1>2, <1>3, StillCovered
<1>5. Covered(f, e.seen, At(p))
  <2>1. Len(p.names) \in 1 .. Len(p.names)
    BY <1>1
  <2>2. QED
    BY <1>1, <1>4, <2>1
<1>6. \/ Erred(p, q)
      \/ WentUp(f, p, q) \/ WentDown(f, p, Yes, q) \/ WentThrough(f, p, Yes, q)
  BY <1>1, LookUpSteps
<1>7. CASE Erred(p, q)
  <2>1. q.error \in Errors /\ q.inodes = p.inodes
    BY <1>7 DEF Erred
  <2>2. At(q) = At(p) /\ q.error # "none"
    BY <2>1 DEF At, Errors
  <2>3. QED
    BY <1>5, <2>2
<1>8. PICK d, x, n : d = At(p) /\ x = Head(p.rest) /\ n = Lstat(f, Append(p.names, x))
  OBVIOUS
<1>9. Here(c) = Append(p.names, x) /\ n = Lstat(f, Here(c)) /\ Head(c.rest) = x
  BY <1>3, <1>8 DEF Here
<1>10. PICK m : m = Len(p.names)
  OBVIOUS
<1>11. m \in Nat \ {0} /\ Tail(p.rest) \in Seq(Word) /\ NoRoot(Tail(p.rest))
  BY <1>1, <1>3, <1>10, NoRootKept
<1>12. CASE WentUp(f, p, q)
  <2>1. x = ".." /\ q.rest = Tail(p.rest)
        /\ IF m = 1 THEN q.inodes = p.inodes /\ q.names = p.names
           ELSE q.inodes = Front(p.inodes) /\ q.names = Front(p.names)
    BY <1>8, <1>10, <1>12 DEF WentUp
  <2>2. GoesBack(c, e)
    BY <1>2, <1>9, <2>1 DEF Proceeds, Restarts
  <2>3. /\ e.cur = IF m > 1 THEN Front(p.names) ELSE p.names
        /\ e.rest = Tail(p.rest)
    BY <1>3, <1>10, <2>2 DEF GoesBack
  <2>4. CASE m = 1
    <3>1. e.cur = p.names /\ q.names = p.names /\ q.inodes = p.inodes
      BY <2>1, <2>3, <2>4
    <3>2. Splits(e.cur, e.rest, q.names, q.rest)
      <4>1. e.cur \in Seq(Word) /\ e.rest = q.rest /\ q.rest \in Seq(Word) /\ e.cur = q.names
        BY <1>1, <1>11, <2>1, <2>3, <3>1
      <4>2. Len(e.cur) <= Len(e.cur)
        BY <4>1, LenProperties
      <4>3. QED
        BY <4>1, <4>2 DEF Splits
    <3>3. QED
      BY <1>4, <1>5, <3>1, <3>2 DEF Beside
  <2>5. CASE m # 1
    <3>1. m > 1
      BY <1>11, <2>5
    <3>2. e.cur = Front(p.names) /\ q.names = Front(p.names) /\ q.inodes = Front(p.inodes)
      BY <2>1, <2>3, <2>5, <3>1
    <3>3. /\ Front(p.names) \in Seq(Word) /\ Len(Front(p.names)) = m - 1
      BY <1>1, <1>10, FrontIs
    <3>4. \A i \in 1 .. m - 1 : Front(p.inodes)[i] = p.inodes[i]
      <4>1. p.inodes # <<>>
        BY <1>1, AtIs
      <4>2. QED
        BY <1>1, <1>10, <4>1, FrontIs
    <3>5. Splits(e.cur, e.rest, q.names, q.rest)
      <4>1. m - 1 <= m - 1
        BY <1>11
      <4>2. QED
        BY <1>11, <2>1, <2>3, <3>2, <3>3, <4>1 DEF Splits
    <3>6. ASSUME NEW i \in 1 .. Len(e.cur) PROVE Covered(f, e.seen, q.inodes[i])
      <4>1. i \in 1 .. m - 1
        BY <3>2, <3>3
      <4>2. i \in 1 .. m
        BY <1>11, <4>1
      <4>3. q.inodes[i] = p.inodes[i]
        BY <3>2, <3>4, <4>1
      <4>4. QED
        BY <1>4, <1>10, <4>2, <4>3
    <3>7. QED
      BY <1>5, <3>5, <3>6 DEF Beside
  <2>6. QED
    BY <2>4, <2>5
<1>13. ASSUME Found(f, p)
       PROVE  x \in Name /\ x # ".." /\ Entry(f, p) = f[d].entries[x] /\ (n \in Node => n = Entry(f, p))
  <2>1. x \in Name /\ x # ".." /\ Entry(f, p) = f[d].entries[x]
    BY <1>1, <1>8, <1>13, NodeTypes DEF Found, Entry
  <2>2. HeadsTo(f, d, x, n)
    <3>1. PICK a, b : a = p.inodes /\ b = p.names
      OBVIOUS
    <3>2. Clear(f, a, b) /\ d = a[Len(a)] /\ n = Lstat(f, Append(b, x))
      BY <1>1, <1>8, <3>1 DEF Stands
    <3>3. QED
      BY <1>1, <2>1, <3>2, LstatIs
  <2>3. n \in Node => n \notin Errors
    BY <1>1, NodeTypes
  <2>4. QED
    BY <2>1, <2>2, <2>3 DEF HeadsTo
<1>14. CASE WentDown(f, p, Yes, q)
  <2>1. /\ Found(f, p) /\ ~LooksThrough(f, p, Yes)
        /\ q.inodes = Append(p.inodes, Entry(f, p)) /\ q.names = Append(p.names, x) /\ q.rest = Tail(p.rest)
    BY <1>8, <1>14 DEF WentDown
  <2>2. Proceeds(f, c, e)
    <3>1. f[Entry(f, p)].kind # "link"
      BY <2>1, YesAndNo DEF LooksThrough
    <3>2. QED
      BY <1>2, <1>9, <1>13, <2>1, <3>1 DEF GoesBack, Restarts
  <2>3. n \in Node /\ n = Entry(f, p)
    BY <1>9, <1>13, <2>1, <2>2 DEF Proceeds
  <2>4. e.cur = Append(p.names, x) /\ e.rest = Tail(p.rest) /\ e.seen = c.seen \cup {Here(c)} /\ IsPath(Here(c))
    BY <1>3, <1>9, <2>2 DEF Proceeds
  <2>5. /\ Append(p.names, x) \in Seq(Word) /\ Len(Append(p.names, x)) = m + 1
        /\ Append(p.inodes, n)[m + 1] = n /\ \A i \in 1 .. m : Append(p.inodes, n)[i] = p.inodes[i]
    <3>1. x \in Word
      BY <1>1, <1>13, <2>1, NodeTypes
    <3>2. QED
      BY <1>1, <1>10, <2>3, <3>1, AppendProperties
  <2>6. Splits(e.cur, e.rest, q.names, q.rest)
    <3>1. m + 1 <= m + 1
      BY <1>11
    <3>2. QED
      BY <1>11, <2>1, <2>4, <2>5, <3>1 DEF Splits
  <2>7. ASSUME NEW i \in 1 .. Len(e.cur) PROVE Covered(f, e.seen, q.inodes[i])
    <3>1. i \in 1 .. m + 1
      BY <2>4, <2>5
    <3>2. CASE i \in 1 .. m
      BY <1>4, <1>10, <2>1, <2>3, <2>5, <3>2
    <3>3. CASE i = m + 1
      <4>1. q.inodes[i] = n
        BY <2>1, <2>3, <2>5, <3>3
      <4>2. QED
        BY <1>9, <2>4, <4>1 DEF Covered
    <3>4. QED
      BY <1>11, <3>1, <3>2, <3>3
  <2>8. QED
    BY <1>5, <2>6, <2>7 DEF Beside
<1>15. CASE WentThrough(f, p, Yes, q)
  <2>1. PICK t : t = f[Entry(f, p)].target
    OBVIOUS
  <2>2. /\ Found(f, p) /\ LooksThrough(f, p, Yes)
        /\ IF Head(t) = "/"
           THEN q.names = <<"/">> /\ q.rest = Tail(t \o Tail(p.rest))
           ELSE q.names = p.names /\ q.rest = t \o Tail(p.rest)
    BY <1>15, <2>1 DEF WentThrough
  <2>3. Restarts(f, c, e) /\ n = Entry(f, p)
    <3>1. f[Entry(f, p)].kind = "link"
      BY <2>2 DEF LooksThrough
    <3>2. Restarts(f, c, e)
      BY <1>2, <1>9, <1>13, <2>2, <3>1 DEF GoesBack, Proceeds
    <3>3. QED
      BY <1>9, <1>13, <2>2, <3>2 DEF Restarts
  <2>4. e.cur = <<>> /\ e.rest = (IF Head(t) = "/" THEN t ELSE p.names \o t) \o Tail(p.rest)
    BY <1>3, <1>9, <2>1, <2>3 DEF Restarts, Target
  <2>5. IsTarget(t)
    <3>1. f[Entry(f, p)].kind = "link" /\ Entry(f, p) \in Node
      BY <2>2 DEF LooksThrough, Found
    <3>2. QED
      BY <1>1, <2>1, <3>1, NodeTypes
  <2>6. PICK s : s = Tail(p.rest)
    OBVIOUS
  <2>7. s \in Seq(Word) /\ NoRoot(s)
    BY <1>11, <2>6
  <2>8. /\ t \in Seq(Word) /\ t \o s \in Seq(Word)
        /\ Head(t) = "/" => IsPath(t \o s)
    BY <2>5, <2>7, TargetThen
  <2>9. /\ q.names \in Seq(Word) /\ q.rest \in Seq(Word) /\ e.rest \in Seq(Word) /\ e.rest = q.names \o q.rest
    <3>1. CASE Head(t) = "/"
      <4>1. q.names = <<"/">> /\ q.rest = Tail(t \o s) /\ e.rest = t \o s
        BY <2>2, <2>4, <2>6, <3>1
      <4>2. IsPath(t \o s)
        BY <2>8, <3>1
      <4>3. PICK b : b = t \o s
        OBVIOUS
      <4>4. b \in Seq(Word) /\ b # <<>> /\ Head(b) = "/" /\ Tail(b) \in Seq(Word)
        BY <4>2, <4>3, PathParts
      <4>5. <<Head(b)>> \o Tail(b) = b
        BY <4>4, HeadTailProperties
      <4>6. <<"/">> \in Seq(Word)
        BY DEF Word
      <4>7. QED
        BY <4>1, <4>3, <4>4, <4>5, <4>6
    <3>2. CASE Head(t) # "/"
      <4>1. q.names = p.names /\ q.rest = t \o s /\ e.rest = (p.names \o t) \o s
        BY <2>2, <2>4, <2>6, <3>2
      <4>2. PICK b : b = p.names
        OBVIOUS
      <4>3. b \in Seq(Word)
        BY <1>1, <4>2
      <4>4. (b \o t) \o s = b \o (t \o s)
        <5>1. t \in Seq(Word) /\ s \in Seq(Word)
          BY <2>7, <2>8
        <5>2. QED
          BY <4>3, <5>1, Regroup
      <4>5. b \o (t \o s) \in Seq(Word)
        BY <2>8, <4>3, ConcatProperties
      <4>6. QED
        BY <2>8, <4>1, <4>2, <4>3, <4>4, <4>5
    <3>3. QED
      BY <3>1, <3>2
  <2>10. <<>> \in Seq(Word) /\ Len(<<>>) = 0 /\ <<>> \o e.rest = e.rest
    BY <2>9, EmptySeq, ConcatEmptySeq
  <2>11. Splits(e.cur, e.rest, q.names, q.rest)
    <3>1. Len(q.names) \in Nat /\ 0 <= Len(q.names)
      BY <2>9, LenProperties
    <3>2. QED
      BY <2>4, <2>9, <2>10, <3>1 DEF Splits
  <2>12. \A i \in 1 .. Len(e.cur) : Covered(f, e.seen, q.inodes[i])
    <3>1. 1 .. Len(e.cur) = {}
      BY <2>4, <2>10
    <3>2. QED
      BY <3>1
  <2>13. QED
    BY <1>5, <2>11, <2>12 DEF Beside
<1>16. QED
  BY <1>6, <1>7, <1>12, <1>14, <1>15

\* As long as resolution_chain has not given up, it has seen every inode the kernel stood in.
Behind(f, seen, w, i) == \A k \in Nat : k < i => Covered(f, seen, At(w[k]))
Abreast(f, c, w, i) == Beside(f, c, w[i]) \/ (w[i].error # "none" /\ Covered(f, c.seen, At(w[i])))
Follows(f, c, w) == c.complete => \E i \in Nat : Behind(f, c.seen, w, i) /\ Abreast(f, c, w, i)

LEMMA FollowsOn ==
    ASSUME NEW f, NEW path, NEW w, IsWalk(f, path, Yes, w), NEW c, NEW e, Moves(f, c, e), Follows(f, c, w)
    PROVE  Follows(f, e, w)
<1>1. IsFileSystem(f) /\ \A k \in Nat : Stands(f, w[k]) /\ w[k + 1] = LookUp(f, w[k], Yes)
  <2>1. IsFileSystem(f)
    BY WalkSteps
  <2>2. QED
    BY <2>1, WalkClear DEF Stands
<1>2. c.complete /\ c.seen \subseteq e.seen /\ Len(c.cur) \in Nat
  BY <1>1, MovesOn
<1>3. PICK i \in Nat : Behind(f, c.seen, w, i) /\ Abreast(f, c, w, i)
  BY <1>2 DEF Follows
<1>4. Behind(f, e.seen, w, i)
  BY <1>2, <1>3, StillCovered DEF Behind
<1>5. PICK p : p = w[i]
  OBVIOUS
<1>6. Stands(f, p) /\ w[i + 1] = LookUp(f, p, Yes)
  BY <1>1, <1>5
<1>7. CASE p.error # "none" /\ Covered(f, c.seen, At(p))
  <2>1. Covered(f, e.seen, At(p))
    BY <1>2, <1>7, StillCovered
  <2>2. QED
    BY <1>4, <1>5, <1>7, <2>1 DEF Follows, Abreast
<1>8. CASE Beside(f, c, p) /\ Len(c.cur) < Len(p.names)
  <2>1. Beside(f, e, p)
    BY <1>6, <1>8, CatchesUp
  <2>2. QED
    BY <1>4, <1>5, <2>1 DEF Follows, Abreast
<1>9. CASE Beside(f, c, p) /\ Len(c.cur) = Len(p.names)
  <2>1. CASE ~Ended(p)
    <3>1. PICK q : q = w[i + 1]
      OBVIOUS
    <3>2. /\ Covered(f, e.seen, At(p))
          /\ Beside(f, e, q) \/ (q.error # "none" /\ Covered(f, e.seen, At(q)))
      BY <1>6, <1>9, <2>1, <3>1, InStep
    <3>3. Behind(f, e.seen, w, i + 1)
      <4>1. ASSUME NEW k \in Nat, k < i + 1 PROVE Covered(f, e.seen, At(w[k]))
        <5>1. k < i \/ k = i
          BY <4>1
        <5>2. QED
          BY <1>4, <1>5, <3>2, <5>1 DEF Behind
      <4>2. QED
        BY <4>1 DEF Behind
    <3>4. i + 1 \in Nat /\ Abreast(f, e, w, i + 1)
      BY <3>1, <3>2 DEF Abreast
    <3>5. QED
      BY <3>3, <3>4 DEF Follows
  <2>2. CASE Ended(p)
    <3>1. Splits(c.cur, c.rest, p.names, p.rest) /\ c.rest # <<>>
      BY <1>9 DEF Beside, Moves
    <3>2. p.rest # <<>> /\ p.error # "none"
      <4>1. c.rest = p.rest
        BY <1>9, <3>1, TwoSplits
      <4>2. QED
        BY <2>2, <3>1, <4>1 DEF Ended
    <3>3. Covered(f, c.seen, At(p))
      <4>1. Len(p.names) \in 1 .. Len(c.cur) /\ At(p) = p.inodes[Len(p.names)]
        BY <1>6, <1>9, StandsAt
      <4>2. QED
        BY <1>9, <4>1 DEF Beside
    <3>4. QED
      BY <1>7, <3>2, <3>3
  <2>3. QED
    BY <2>1, <2>2
<1>10. Beside(f, c, p) => Len(c.cur) < Len(p.names) \/ Len(c.cur) = Len(p.names)
  <2>1. ASSUME Beside(f, c, p) PROVE Len(c.cur) <= Len(p.names)
    BY <2>1 DEF Beside, Splits
  <2>2. Len(p.names) \in Nat
    BY <1>6, StandsAt
  <2>3. QED
    BY <1>2, <2>1, <2>2
<1>11. QED
  BY <1>3, <1>5, <1>7, <1>8, <1>9, <1>10 DEF Abreast

\* The chain of a path, when it comes to its end, has every inode on the way there.
LEMMA ChainFollows ==
    ASSUME NEW f, NEW path, NEW w, IsWalk(f, path, Yes, w), NEW t, t = Trail(f, path)
    PROVE  \A k \in Nat : t[k] \in Chains /\ Follows(f, t[k], w)
<1>1. IsFileSystem(f) /\ IsPath(path) /\ w[0] = FromRoot(path) /\ Stands(f, w[0])
  <2>1. IsFileSystem(f) /\ IsPath(path) /\ w[0] = FromRoot(path) /\ 0 \in Nat
    BY WalkSteps
  <2>2. QED
    BY <2>1, WalkClear DEF Stands
<1>2. t[0] = Begin(path) /\ \A k \in Nat : t[k] \in Chains /\ t[k + 1] = Advance(f, t[k])
  BY <1>1, TrailIs
<1> DEFINE S == {k \in Nat : Follows(f, t[k], w)}
<1>3. 0 \in S
  <2>1. PICK c, p, b : c = t[0] /\ p = w[0] /\ b = path
    OBVIOUS
  <2>2. /\ c.cur = <<>> /\ c.rest = b /\ p.names = <<"/">> /\ p.rest = Tail(b)
    BY <1>1, <1>2, <2>1 DEF Begin, FromRoot
  <2>3. b \in Seq(Word) /\ b # <<>> /\ Head(b) = "/" /\ Tail(b) \in Seq(Word)
    BY <1>1, <2>1, PathParts
  <2>4. <<Head(b)>> \o Tail(b) = b
    BY <2>3, HeadTailProperties
  <2>5. <<"/">> \in Seq(Word) /\ Len(<<"/">>) = 1
    BY DEF Word
  <2>6. <<>> \in Seq(Word) /\ Len(<<>>) = 0 /\ <<>> \o b = b
    BY <2>3, EmptySeq, ConcatEmptySeq
  <2>7. Splits(c.cur, c.rest, p.names, p.rest)
    <3>1. Len(c.cur) <= Len(p.names)
      BY <2>2, <2>5, <2>6
    <3>2. QED
      BY <2>2, <2>3, <2>4, <2>5, <2>6, <3>1 DEF Splits
  <2>8. \A m \in 1 .. Len(c.cur) : Covered(f, c.seen, p.inodes[m])
    <3>1. 1 .. Len(c.cur) = {}
      BY <2>2, <2>6
    <3>2. QED
      BY <3>1
  <2>9. Behind(f, c.seen, w, 0)
    <3>1. \A k \in Nat : ~(k < 0)
      OBVIOUS
    <3>2. QED
      BY <3>1 DEF Behind
  <2>10. Abreast(f, c, w, 0)
    BY <2>1, <2>7, <2>8 DEF Abreast, Beside
  <2>11. QED
    BY <2>1, <2>9, <2>10 DEF Follows
<1>4. ASSUME NEW k \in Nat, k \in S PROVE k + 1 \in S
  <2>1. PICK c, e : c = t[k] /\ e = t[k + 1]
    OBVIOUS
  <2>2. c \in Chains /\ e = Advance(f, c) /\ Follows(f, c, w)
    BY <1>2, <1>4, <2>1
  <2>3. Follows(f, e, w)
    <3>1. CASE c.rest = <<>>
      <4>1. e = c
        BY <2>2, <3>1 DEF Advance
      <4>2. QED
        BY <2>2, <4>1
    <3>2. CASE c.rest # <<>> /\ e.complete
      <4>1. Moves(f, c, e)
        BY <2>2, <3>2 DEF Moves
      <4>2. QED
        BY <2>2, <4>1, FollowsOn
    <3>3. CASE ~e.complete
      BY <3>3 DEF Follows
    <3>4. QED
      BY <3>1, <3>2, <3>3
  <2>4. QED
    BY <2>1, <2>3
<1> HIDE DEF S
<1>5. Nat \subseteq S
  BY <1>3, <1>4, NatSteps
<1>6. QED
  BY <1>2, <1>5 DEF S

LEMMA ChainCovers ==
    ASSUME NEW f, NEW w, IsWalk(f, Invocation, Yes, w), NEW c, c = ResolutionChain(f, Invocation), c.complete,
           NEW k \in Nat
    PROVE  Covered(f, c.seen, At(w[k]))
<1>1. PICK t : t = Trail(f, Invocation)
  OBVIOUS
<1>2. PICK e : e = t[MaxWalk]
  OBVIOUS
<1>3. c.seen = e.seen /\ e.complete /\ e.rest = <<>>
  BY <1>1, <1>2 DEF ResolutionChain
<1>4. e \in Chains /\ Follows(f, e, w)
  BY <1>1, <1>2, ChainFollows, SkillAssumption
<1>5. PICK i \in Nat : Behind(f, e.seen, w, i) /\ Abreast(f, e, w, i)
  BY <1>3, <1>4 DEF Follows
<1>6. PICK p : p = w[i]
  OBVIOUS
<1>7. Stands(f, p)
  <2>1. IsFileSystem(f)
    BY WalkSteps
  <2>2. QED
    BY <1>6, <2>1, WalkClear DEF Stands
<1>8. Ended(p) /\ Covered(f, e.seen, At(p))
  <2>1. CASE Beside(f, e, p)
    <3>1. Splits(e.cur, e.rest, p.names, p.rest)
      BY <2>1 DEF Beside
    <3>2. Len(e.cur) = Len(p.names) /\ p.rest = <<>>
      BY <1>3, <3>1, TwoSplits
    <3>3. Len(p.names) \in 1 .. Len(e.cur) /\ At(p) = p.inodes[Len(p.names)]
      BY <1>7, <3>2, StandsAt
    <3>4. QED
      BY <2>1, <3>2, <3>3 DEF Beside, Ended
  <2>2. CASE p.error # "none" /\ Covered(f, e.seen, At(p))
    BY <2>2 DEF Ended
  <2>3. QED
    BY <1>5, <1>6, <2>1, <2>2 DEF Abreast
<1>9. CASE k < i
  BY <1>3, <1>5, <1>9 DEF Behind
<1>10. CASE i <= k
  <2>1. w[k] = w[i]
    BY <1>6, <1>8, <1>10, WalkStays
  <2>2. QED
    BY <1>3, <1>6, <1>8, <2>1
<1>11. QED
  BY <1>9, <1>10

(***************************************************************************)
(* The strong verdict.                                                     *)
(***************************************************************************)
LEMMA StrongVerdict ==
    ASSUME TypeInv, Guarantee = "not-user-writable"
    PROVE  Sealed(fs)
<1>1. IsFileSystem(fs) /\ IsPath(Invocation)
  BY SkillAssumption DEF TypeInv
<1>2. PICK w : w = Walk(fs, Invocation, Yes)
  OBVIOUS
<1>3. IsWalk(fs, Invocation, Yes, w)
  BY <1>1, <1>2 DEF IsWalk
<1>4. PICK chain : chain = Chain(fs, CurrentExe)
  OBVIOUS
<1>5. chain.complete /\ (\A p \in chain.seen : Shut(fs, p)) /\ platform = "macos"
  BY <1>4 DEF Guarantee
<1>6. CurrentExe = Invocation
  BY <1>5 DEF CurrentExe
<1>7. PICK c : c = ResolutionChain(fs, Invocation)
  OBVIOUS
<1>8. c.complete /\ c.seen \subseteq chain.seen
  <2> DEFINE end == Follow(fs, Invocation)
             seeds == {Invocation} \cup (IF end \in Errors THEN {} ELSE {Canonical(fs, Invocation)})
             walks == {ResolutionChain(fs, seed) : seed \in seeds}
  <2>1. chain = [seen |-> UNION {v.seen : v \in walks}, complete |-> \A v \in walks : v.complete]
    BY <1>4, <1>6 DEF Chain
  <2>2. c \in walks
    BY <1>7
  <2> HIDE DEF walks
  <2>3. QED
    BY <1>5, <2>1, <2>2
<1>9. ASSUME NEW k \in Nat PROVE Powerless(fs, At(w[k]))
  <2>1. PICK n : n = At(w[k])
    OBVIOUS
  <2>2. Covered(fs, c.seen, n)
    BY <1>3, <1>7, <1>8, <2>1, ChainCovers
  <2>3. PICK q \in c.seen : IsPath(q) /\ Lstat(fs, q) = n
    BY <2>2 DEF Covered
  <2>4. n \in Node /\ fs[n].kind # "link" /\ n \notin Errors
    <3>1. n \in Node /\ fs[n].kind # "link"
      BY <1>3, <2>1, WalkEnd, YesAndNo
    <3>2. QED
      BY <1>1, <3>1, NodeTypes
  <2>5. Follow(fs, q) = n
    BY <1>1, <2>3, <2>4, FollowIs
  <2>6. Shut(fs, q)
    BY <1>5, <1>8, <2>3
  <2>7. Answer(fs[n].writable) = "no" /\ Answer(fs[n].owner = "user") = "no"
    BY <2>3, <2>4, <2>5, <2>6 DEF Shut, WritableByThisUser, OwnedByThisUser, Errors
  <2>8. QED
    BY <2>1, <2>7 DEF Answer, Powerless
<1>10. QED
  BY <1>2, <1>9 DEF Sealed

\* While sscsb is at work, and once it has called itself not-user-writable, the binary it was
\* called by is sscsb if the way to it is sealed; and no step opens or closes that way.
StrongInv ==
    /\ TypeInv
    /\ strong => Sealed(fs) /\ RunsIn(fs) = "sscsb"
    /\ run.at # "idle" /\ Sealed(fs) => RunsIn(fs) = "sscsb"
    /\ run.trust = "not-user-writable" => run.at # "idle" /\ Sealed(fs)

LEMMA RunsIs ==
    RunsIn(fs) = Runs
BY DEF RunsIn, Runs

\* What a step makes of the verdict: a command starts from sscsb itself, the verdict is looked
\* up in Look, and is told in Decide.
Verdicts ==
    /\ run'.at # "idle" => run.at # "idle" \/ RunsIn(fs) = "sscsb"
    /\ run'.trust = "not-user-writable" =>
         \/ run.trust = "not-user-writable" /\ (run.at # "idle" => run'.at # "idle")
         \/ Guarantee = "not-user-writable" /\ run'.at # "idle" /\ run.at # "idle"
    /\ strong' => strong \/ run.trust = "not-user-writable"

LEMMA IdleIs ==
    Idle.at = "idle" /\ Idle.trust = "unknown"
BY DEF Idle

LEMMA VerdictSteps ==
    ASSUME TypeInv, [Next]_vars
    PROVE  Verdicts
<1>1. run \in RunType
  BY DEF TypeInv
<1>2. ASSUME NEW command, NEW force, NEW dry, Start(command, force, dry) PROVE Verdicts
  <2>1. Runs = "sscsb" /\ run'.at = "look" /\ run'.trust = "unknown" /\ strong' = strong
    BY <1>2 DEF Start, Idle
  <2>2. QED
    BY <2>1, RunsIs DEF Verdicts
<1>3. ASSUME Look PROVE Verdicts
  <2>1. run.at = "look" /\ strong' = strong
    BY <1>3 DEF Look
  <2>2. PICK g : g = Guarantee
    OBVIOUS
  <2>3. \/ run' = Idle
        \/ \E a \in {"decide", "read"} : run'.at = a /\ run'.trust = g
    BY <1>1, <1>3, <2>2 DEF Look, RunType
  <2>4. CASE run' = Idle
    BY <2>1, <2>4, <1>1, IdleIs DEF Verdicts
  <2>5. CASE run'.at # "idle" /\ run'.trust = g
    BY <2>1, <2>2, <2>5 DEF Verdicts
  <2>6. QED
    BY <2>3, <2>4, <2>5
<1>4. ASSUME strong' = strong, run.at # "idle", run' = Idle \/ (run'.trust = run.trust /\ run'.at # "idle")
      PROVE  Verdicts
  BY <1>1, <1>4, IdleIs DEF Verdicts
<1>5. ASSUME strong' = strong, run'.at = run.at, run'.trust = run.trust
      PROVE  Verdicts
  BY <1>5 DEF Verdicts
<1>6. ASSUME Compare PROVE Verdicts
  <2>1. strong' = strong /\ run.at = "read"
    BY <1>6 DEF Compare
  <2>2. run' = Idle \/ \E s \in {"identical", "differs"} : run' = [run EXCEPT !.at = "decide", !.state = s]
    BY <1>6 DEF Compare
  <2>3. run' = Idle \/ (run'.trust = run.trust /\ run'.at # "idle")
    BY <1>1, <2>2 DEF RunType
  <2>4. QED
    BY <1>4, <2>1, <2>3
<1>7. ASSUME Decide PROVE Verdicts
  <2>1. run.at = "decide" /\ run' \in {Idle, [run EXCEPT !.at = "make directory", !.level = Len(SkillPath) - 1]}
    BY <1>7 DEF Decide
  <2>2. strong' = strong \/ strong' = (strong \/ run.trust = "not-user-writable")
    BY <1>7 DEF Decide
  <2>3. run' = Idle \/ (run'.trust = run.trust /\ run'.at = "make directory")
    BY <1>1, <2>1 DEF RunType
  <2>4. strong' => strong \/ run.trust = "not-user-writable"
    BY <2>2
  <2>5. run'.trust = "not-user-writable" => run.trust = "not-user-writable" /\ run'.at # "idle"
    BY <2>3, IdleIs
  <2>6. run.at # "idle"
    BY <2>1
  <2>7. QED
    BY <2>4, <2>5, <2>6 DEF Verdicts
<1>8. ASSUME MakeDirectory PROVE Verdicts
  <2>1. strong' = strong /\ run.at = "make directory"
    BY <1>8 DEF MakeDirectory
  <2>2. run' \in {Idle, [run EXCEPT !.at = "truncate"], [run EXCEPT !.level = @ + 1, !.down = TRUE],
                 [run EXCEPT !.level = @ - 1]}
    BY <1>8 DEF MakeDirectory
  <2>3. run' = Idle \/ (run'.trust = run.trust /\ run'.at \in {"make directory", "truncate"})
    BY <1>1, <2>1, <2>2 DEF RunType
  <2>4. QED
    BY <1>4, <2>1, <2>3
<1>9. ASSUME Truncate PROVE Verdicts
  <2>1. strong' = strong /\ run.at = "truncate"
    BY <1>9 DEF Truncate
  <2>2. run' = Idle \/ \E o : run' = [run EXCEPT !.at = "fill", !.opened = o]
    BY <1>9 DEF Truncate
  <2>3. run' = Idle \/ (run'.trust = run.trust /\ run'.at = "fill")
    BY <1>1, <2>2 DEF RunType
  <2>4. QED
    BY <1>4, <2>1, <2>3
<1>10. ASSUME Fill \/ Die PROVE Verdicts
  <2>1. strong' = strong /\ run.at # "idle" /\ run' = Idle
    BY <1>10 DEF Fill, Die
  <2>2. QED
    BY <1>4, <2>1
<1>11. ASSUME User PROVE Verdicts
  <2>1. Act
    BY <1>11 DEF User, Chmod, Save, Remove, Create
  <2>2. strong' = strong /\ \E u : run' = [run EXCEPT !.undisturbed = u]
    BY <2>1 DEF Act
  <2>3. run'.at = run.at /\ run'.trust = run.trust
    BY <1>1, <2>2 DEF RunType
  <2>4. QED
    BY <1>5, <2>2, <2>3
<1>12. ASSUME UNCHANGED vars PROVE Verdicts
  BY <1>5, <1>12 DEF vars
<1>13. QED
  BY <1>2, <1>3, <1>6, <1>7, <1>8, <1>9, <1>10, <1>11, <1>12 DEF Next

LEMMA StrongSteps ==
    ASSUME StrongInv, [Next]_vars
    PROVE  StrongInv'
<1>1. TypeInv /\ TypeInv' /\ Frame(fs, fs') /\ Verdicts
  BY NextSound, VerdictSteps DEF StrongInv
<1>2. IsFileSystem(fs) /\ IsFileSystem(fs')
  BY <1>1 DEF TypeInv
<1>3. Sealed(fs) \/ Sealed(fs') => Sealed(fs) /\ Sealed(fs') /\ RunsIn(fs) = RunsIn(fs')
  BY <1>1, <1>2, SealedStays
<1>4. PICK s, t, x, y : s = Sealed(fs) /\ t = Sealed(fs') /\ x = RunsIn(fs) /\ y = RunsIn(fs')
  OBVIOUS
<1>5. ASSUME strong' PROVE Sealed(fs') /\ RunsIn(fs') = "sscsb"
  <2>1. strong \/ run.trust = "not-user-writable"
    BY <1>1, <1>5 DEF Verdicts
  <2>2. Sealed(fs) /\ RunsIn(fs) = "sscsb"
    BY <2>1 DEF StrongInv
  <2>3. QED
    BY <1>3, <2>2
<1>6. ASSUME run'.at # "idle", Sealed(fs') PROVE RunsIn(fs') = "sscsb"
  <2>1. Sealed(fs) /\ RunsIn(fs) = RunsIn(fs')
    BY <1>3, <1>6
  <2>2. RunsIn(fs) = "sscsb"
    BY <1>1, <1>6, <2>1 DEF Verdicts, StrongInv
  <2>3. QED
    BY <2>1, <2>2
<1>7. ASSUME run'.trust = "not-user-writable" PROVE run'.at # "idle" /\ Sealed(fs')
  <2>1. CASE run.trust = "not-user-writable" /\ (run.at # "idle" => run'.at # "idle")
    <3>1. run.at # "idle" /\ Sealed(fs)
      BY <2>1 DEF StrongInv
    <3>2. QED
      BY <1>3, <2>1, <3>1
  <2>2. CASE Guarantee = "not-user-writable" /\ run'.at # "idle"
    <3>1. Sealed(fs)
      BY <1>1, <2>2, StrongVerdict
    <3>2. QED
      BY <1>3, <2>2, <3>1
  <2>3. QED
    BY <1>1, <1>7, <2>1, <2>2 DEF Verdicts
<1>8. QED
  BY <1>1, <1>5, <1>6, <1>7 DEF StrongInv

\* The strong verdict keeps its word in every run on macOS, whatever links, chains and modes: the
\* way that resolution_chain found closed is the way the kernel goes, and nothing a process of
\* the user does opens it.
THEOREM StrongHolds == Spec => []StrongStands
<1>1. Init => StrongInv
  BY InitType, IdleType DEF Init, StrongInv, Idle
<1>2. StrongInv /\ [Next]_vars => StrongInv'
  BY StrongSteps
<1>3. StrongInv => StrongStands
  BY RunsIs DEF StrongInv, StrongStands
<1>4. QED
  BY <1>1, <1>2, <1>3, PTL DEF Spec

(***************************************************************************)
(* What install does to a skill that is not there.                         *)
(***************************************************************************)
\* A path and the path to one of the directories above it.
Extends(a, s, b) == /\ a \in Seq(Word) /\ s \in Seq(Word) /\ b \in Seq(Word)
                    /\ IsPath(a) /\ s # <<>> /\ NoRoot(s) /\ b = a \o s

LEMMA SkillAbove ==
    ASSUME NEW l \in 1 .. Len(SkillPath) - 1
    PROVE  \E s : Extends(SubSeq(SkillPath, 1, l), s, SkillPath) /\ Head(s) \in Name
<1>1. PICK b : b = SkillPath
  OBVIOUS
<1>2. /\ b \in Seq(Word) /\ IsPath(b) /\ Len(b) \in Nat /\ Len(b) > 1 /\ \A i \in 1 .. Len(b) : b[i] # ".."
      /\ \A i \in 2 .. Len(b) : b[i] # "/"
  <2>1. IsPath(b) /\ Len(b) > 1 /\ \A i \in DOMAIN b : b[i] # ".."
    BY <1>1, SkillAssumption
  <2>2. b \in Seq(Word) /\ \A i \in 2 .. Len(b) : b[i] # "/"
    BY <2>1, PathParts
  <2>3. DOMAIN b = 1 .. Len(b) /\ Len(b) \in Nat
    BY <2>2, LenProperties
  <2>4. QED
    BY <2>1, <2>2, <2>3
<1>3. PICK m : m = Len(b)
  OBVIOUS
<1>4. l \in Nat /\ l \in 1 .. m /\ l + 1 \in 1 .. m /\ m \in Int /\ l + 1 \in Int /\ m \in Nat /\ l + 1 <= m
  BY <1>1, <1>2, <1>3
<1>5. PICK a, s : a = SubSeq(b, 1, l) /\ s = SubSeq(b, l + 1, m)
  OBVIOUS
<1>6. IsPath(a) /\ a \in Seq(Word)
  <2>1. l \in 1 .. Len(SkillPath)
    BY <1>1, <1>3, <1>4
  <2>2. IsPath(SubSeq(SkillPath, 1, l))
    BY <2>1, Prefix
  <2>3. QED
    BY <1>1, <1>5, <2>2, PathParts
<1>7. /\ s \in Seq(Word) /\ Len(s) = m - l /\ \A i \in 1 .. m - l : s[i] = b[l + i]
  <2>1. \A i \in l + 1 .. m : b[i] \in Word
    <3>1. \A i \in l + 1 .. m : i \in 1 .. Len(b)
      BY <1>3, <1>4
    <3>2. QED
      BY <1>2, <3>1, ElementOfSeq
  <2>2. /\ s \in Seq(Word) /\ Len(s) = IF l + 1 <= m THEN m - (l + 1) + 1 ELSE 0
        /\ \A i \in 1 .. m - (l + 1) + 1 : s[i] = b[l + 1 + i - 1]
    BY <1>4, <1>5, <2>1, SubSeqProperties
  <2>3. (IF l + 1 <= m THEN m - (l + 1) + 1 ELSE 0) = m - l /\ m - (l + 1) + 1 = m - l
        /\ \A i \in 1 .. m - l : l + 1 + i - 1 = l + i
    BY <1>4
  <2>4. QED
    BY <2>2, <2>3
<1>8. s # <<>> /\ DOMAIN s = 1 .. m - l /\ 1 \in 1 .. m - l
  <2>1. m - l # 0 /\ 1 \in 1 .. m - l
    BY <1>4
  <2>2. QED
    BY <1>7, <2>1, EmptySeq, LenProperties
<1>9. ASSUME NEW i \in 1 .. m - l PROVE s[i] # "/" /\ s[i] # ".." /\ s[i] \in Word
  <2>1. l + i \in 2 .. m /\ l + i \in 1 .. m
    BY <1>4
  <2>2. b[l + i] \in Word
    BY <1>2, <1>3, <2>1, ElementOfSeq
  <2>3. QED
    BY <1>2, <1>3, <1>7, <2>1, <2>2
<1>10. NoRoot(s) /\ Head(s) \in Name
  <2>1. Head(s) = s[1]
    BY <1>7, <1>8, HeadIs
  <2>2. QED
    BY <1>8, <1>9, <2>1 DEF NoRoot, Word
<1>11. b = a \o s
  <2>0. 1 \in 1 .. Len(b) + 1 /\ l \in 1 - 1 .. Len(b) /\ m \in l .. Len(b)
    BY <1>2, <1>3, <1>4
  <2>1. SubSeq(b, 1, l) \o SubSeq(b, l + 1, m) = SubSeq(b, 1, m)
    BY <1>2, <2>0, ConcatAdjacentSubSeq
  <2>2. SubSeq(b, 1, m) = b
    BY <1>2, <1>3, SubSeqFull
  <2>3. QED
    BY <1>5, <2>1, <2>2
<1>12. QED
  BY <1>1, <1>2, <1>3, <1>5, <1>6, <1>7, <1>8, <1>10, <1>11 DEF Extends

LEMMA ConcatHead ==
    ASSUME NEW a \in Seq(Word), NEW s \in Seq(Word), a # <<>>
    PROVE  /\ a \o s \in Seq(Word) /\ a \o s # <<>> /\ Head(a \o s) = Head(a) /\ Tail(a \o s) = Tail(a) \o s
           /\ s # <<>> => Len(a \o s) > 1
<1>1. /\ Len(a) \in Nat \ {0} /\ Len(s) \in Nat
      /\ Tail(a) \in Seq(Word) /\ Len(Tail(a)) = Len(a) - 1 /\ Head(a) = a[1]
      /\ \A i \in 1 .. Len(a) - 1 : Tail(a)[i] = a[i + 1]
  <2>1. Len(a) \in Nat \ {0} /\ Len(s) \in Nat
    BY EmptySeq, LenProperties
  <2>2. Tail(a) \in Seq(Word) /\ Len(Tail(a)) = Len(a) - 1 /\ Head(a) = a[1]
    BY HeadIs
  <2>3. \A i \in 1 .. Len(Tail(a)) : Tail(a)[i] = a[i + 1]
    BY HeadTailProperties
  <2>4. QED
    BY <2>1, <2>2, <2>3
<1>2. PICK b, k, l : b = a \o s /\ k = Len(a) /\ l = Len(s)
  OBVIOUS
<1>3. /\ b \in Seq(Word) /\ Len(b) = k + l
      /\ \A i \in 1 .. k + l : b[i] = IF i <= k THEN a[i] ELSE s[i - k]
  BY <1>2, ConcatProperties
<1>4. k \in Nat \ {0} /\ l \in Nat /\ 1 \in 1 .. k + l /\ 1 <= k /\ k + l # 0
  BY <1>1, <1>2
<1>5. b # <<>>
  BY <1>3, <1>4, EmptySeq
<1>6. Head(b) = a[1]
  <2>1. Head(b) = b[1]
    BY <1>3, <1>5, HeadIs
  <2>2. QED
    BY <1>3, <1>4, <2>1
<1>7. Tail(b) = Tail(a) \o s
  <2>1. PICK u, v, t : u = Tail(b) /\ t = Tail(a) /\ v = t \o s
    OBVIOUS
  <2>2. u \in Seq(Word) /\ Len(u) = k + l - 1 /\ \A i \in 1 .. k + l - 1 : u[i] = b[i + 1]
    <3>1. u \in Seq(Word) /\ Len(u) = Len(b) - 1 /\ \A i \in 1 .. Len(u) : u[i] = b[i + 1]
      BY <1>3, <1>5, <2>1, HeadTailProperties
    <3>2. Len(u) = k + l - 1
      BY <1>3, <1>4, <3>1
    <3>3. QED
      BY <3>1, <3>2
  <2>3. t \in Seq(Word) /\ Len(t) = k - 1 /\ \A i \in 1 .. k - 1 : t[i] = a[i + 1]
    BY <1>1, <1>2, <2>1
  <2>4. /\ v \in Seq(Word) /\ Len(v) = k - 1 + l
        /\ \A i \in 1 .. k - 1 + l : v[i] = IF i <= k - 1 THEN t[i] ELSE s[i - (k - 1)]
    BY <1>2, <2>1, <2>3, ConcatProperties
  <2>5. k + l - 1 = k - 1 + l
    BY <1>4
  <2>6. ASSUME NEW i \in 1 .. k + l - 1 PROVE u[i] = v[i]
    <3>1. PICK j : j = i + 1
      OBVIOUS
    <3>2. j \in 1 .. k + l /\ i \in 1 .. k - 1 + l /\ u[i] = b[j]
      BY <1>4, <2>2, <3>1
    <3>3. b[j] = IF j <= k THEN a[j] ELSE s[j - k]
      BY <1>3, <3>2
    <3>4. v[i] = IF i <= k - 1 THEN t[i] ELSE s[i - (k - 1)]
      BY <2>4, <3>2
    <3>5. j - k = i - (k - 1) /\ (j <= k <=> i <= k - 1) /\ (i <= k - 1 => i \in 1 .. k - 1)
      BY <1>4, <3>1
    <3>6. CASE i <= k - 1
      <4>1. t[i] = a[j] /\ j <= k
        BY <2>3, <3>1, <3>5, <3>6
      <4>2. QED
        BY <3>2, <3>3, <3>4, <3>6, <4>1
    <3>7. CASE ~(i <= k - 1)
      <4>1. b[j] = s[j - k] /\ v[i] = s[i - (k - 1)]
        BY <3>3, <3>4, <3>5, <3>7
      <4>2. QED
        BY <3>2, <3>5, <4>1
    <3>8. QED
      BY <3>6, <3>7
  <2>7. u = v
    BY <2>2, <2>4, <2>5, <2>6, SeqEqual
  <2>8. QED
    BY <2>1, <2>7
<1>8. ASSUME s # <<>> PROVE Len(b) > 1
  <2>1. l # 0
    BY <1>2, <1>8, EmptySeq
  <2>2. QED
    BY <1>3, <1>4, <2>1
<1>9. QED
  BY <1>1, <1>2, <1>3, <1>5, <1>6, <1>7, <1>8

\* The longer path goes where the shorter one goes, to where that ends; on the way there every
\* link is followed.
Ahead(v, w, s) == /\ w.inodes = v.inodes /\ w.names = v.names /\ w.hops = v.hops /\ w.error = v.error
                  /\ w.rest = v.rest \o s

LEMMA AheadStep ==
    ASSUME NEW f, IsFileSystem(f), NEW v \in Positions(f), NEW w \in Positions(f), NEW s \in Seq(Word), s # <<>>,
           Ahead(v, w, s), ~Ended(v), NEW x, x = LookUp(f, v, Yes), x.error = "none",
           NEW follow, NEW y, y = LookUp(f, w, follow)
    PROVE  ~Ended(w) /\ Ahead(x, y, s)
<1>1. PICK a, b : a = v.rest /\ b = w.rest
  OBVIOUS
<1>2. /\ a \in Seq(Word) /\ a # <<>> /\ b = a \o s /\ NoRoot(a)
      /\ v.error = "none" /\ w.error = "none" /\ w.inodes = v.inodes /\ w.names = v.names /\ w.hops = v.hops
  <2>1. a \in Seq(Word) /\ NoRoot(a)
    BY <1>1, AtIs
  <2>2. QED
    BY <1>1, <2>1 DEF Ahead, Ended
<1>3. b \in Seq(Word) /\ b # <<>> /\ Head(b) = Head(a) /\ Tail(b) = Tail(a) \o s /\ Len(b) > 1
  BY <1>2, ConcatHead
<1>4. Tail(a) \in Seq(Word) /\ NoRoot(Tail(a))
  BY <1>2, NoRootKept
<1>5. ~Ended(w)
  BY <1>1, <1>2, <1>3 DEF Ended
<1>6. /\ At(w) = At(v) /\ Head(w.rest) = Head(v.rest) /\ Entry(f, w) = Entry(f, v)
      /\ Passable(f, w) <=> Passable(f, v)
      /\ Found(f, w) <=> Found(f, v)
      /\ LooksThrough(f, w, follow) <=> LooksThrough(f, v, Yes)
  <2>1. At(w) = At(v) /\ Head(w.rest) = Head(v.rest)
    BY <1>1, <1>2, <1>3 DEF At
  <2>2. Entry(f, w) = Entry(f, v)
    BY <2>1 DEF Entry
  <2>3. LooksThrough(f, w, follow) <=> LooksThrough(f, v, Yes)
    BY <1>1, <1>3, <2>2, YesAndNo DEF LooksThrough
  <2>4. QED
    BY <2>1, <2>2, <2>3 DEF Passable, Found
<1>7. ~Erred(v, x)
  BY DEF Erred, Errors
<1>8. \/ WentUp(f, v, x) \/ WentDown(f, v, Yes, x) \/ WentThrough(f, v, Yes, x)
  BY <1>7, LookUpSteps
<1>9. \/ Erred(w, y) /\ y.error \in Cause(f, w, follow)
      \/ WentUp(f, w, y) \/ WentDown(f, w, follow, y) \/ WentThrough(f, w, follow, y)
  BY <1>5, LookUpSteps
<1>10. ".." \notin Name
  BY NodeTypes
<1>11. CASE WentUp(f, v, x)
  <2>1. Passable(f, v) /\ Head(v.rest) = ".."
    BY <1>11 DEF WentUp
  <2>2. Cause(f, w, follow) = {} /\ ~Found(f, w)
    BY <1>6, <1>10, <2>1 DEF Cause, Found
  <2>3. WentUp(f, w, y)
    BY <1>9, <2>2 DEF WentDown, WentThrough
  <2>4. QED
    BY <1>1, <1>2, <1>3, <1>5, <1>11, <2>3 DEF WentUp, Ahead
<1>12. CASE WentDown(f, v, Yes, x)
  <2>1. Found(f, v) /\ ~LooksThrough(f, v, Yes)
    BY <1>12 DEF WentDown
  <2>2. Passable(f, v) /\ Head(v.rest) # ".." /\ Entry(f, v) # Nowhere
    BY <1>10, <2>1, NodeTypes DEF Found
  <2>3. Cause(f, w, follow) = {} /\ ~WentUp(f, w, y)
    BY <1>6, <2>1, <2>2 DEF Cause, WentUp
  <2>4. WentDown(f, w, follow, y)
    BY <1>6, <1>9, <2>1, <2>3 DEF WentThrough
  <2>5. QED
    BY <1>1, <1>2, <1>3, <1>5, <1>6, <1>12, <2>4 DEF WentDown, Ahead
<1>13. CASE WentThrough(f, v, Yes, x)
  <2>1. Found(f, v) /\ LooksThrough(f, v, Yes) /\ v.hops # MaxHops
    BY <1>13 DEF WentThrough
  <2>2. Passable(f, v) /\ Head(v.rest) # ".." /\ Entry(f, v) # Nowhere
    BY <1>10, <2>1, NodeTypes DEF Found
  <2>3. Cause(f, w, follow) = {} /\ ~WentUp(f, w, y)
    BY <1>2, <1>6, <2>1, <2>2 DEF Cause, WentUp
  <2>4. WentThrough(f, w, follow, y)
    BY <1>6, <1>9, <2>1, <2>3 DEF WentDown
  <2>5. PICK t, r : t = f[Entry(f, v)].target /\ r = Tail(a)
    OBVIOUS
  <2>6. /\ IF Head(t) = "/"
           THEN x.inodes = <<Root>> /\ x.names = <<"/">> /\ x.rest = Tail(t \o r)
           ELSE x.inodes = v.inodes /\ x.names = v.names /\ x.rest = t \o r
        /\ x.hops = v.hops + 1 /\ x.error = "none"
    BY <1>1, <1>13, <2>5 DEF WentThrough
  <2>7. /\ IF Head(t) = "/"
           THEN y.inodes = <<Root>> /\ y.names = <<"/">> /\ y.rest = Tail(t \o (r \o s))
           ELSE y.inodes = w.inodes /\ y.names = w.names /\ y.rest = t \o (r \o s)
        /\ y.hops = w.hops + 1 /\ y.error = "none"
    BY <1>1, <1>3, <1>6, <2>4, <2>5 DEF WentThrough
  <2>8. IsTarget(t)
    <3>1. Entry(f, v) \in Node /\ f[Entry(f, v)].kind = "link"
      BY <2>1 DEF Found, LooksThrough
    <3>2. QED
      BY <2>5, <3>1, NodeTypes
  <2>9. r \in Seq(Word) /\ t \in Seq(Word) /\ t \o r \in Seq(Word) /\ t \o r # <<>>
    <3>1. r \in Seq(Word) /\ NoRoot(r)
      BY <1>4, <2>5
    <3>2. t \in Seq(Word) /\ t \o r \in Seq(Word) /\ t # <<>>
      BY <2>8, <3>1, TargetThen
    <3>3. QED
      BY <3>1, <3>2, ConcatHead
  <2>10. t \o (r \o s) = (t \o r) \o s
    <3>1. t \in Seq(Word) /\ r \in Seq(Word) /\ s \in Seq(Word)
      BY <2>9
    <3>2. QED
      BY <3>1, Regroup
  <2>11. Tail((t \o r) \o s) = Tail(t \o r) \o s
    <3>1. PICK u : u = t \o r
      OBVIOUS
    <3>2. Tail(u \o s) = Tail(u) \o s
      BY <2>9, <3>1, ConcatHead
    <3>3. QED
      BY <3>1, <3>2
  <2>12. QED
    BY <1>2, <1>5, <2>6, <2>7, <2>10, <2>11 DEF Ahead
<1>14. QED
  BY <1>8, <1>11, <1>12, <1>13

LEMMA AheadWalk ==
    ASSUME NEW f, NEW a, NEW s, NEW b, Extends(a, s, b), NEW v, IsWalk(f, a, Yes, v),
           NEW follow, NEW w, IsWalk(f, b, follow, w), NEW m \in Nat, ~Ended(v[m])
    PROVE  Ahead(v[m], w[m], s)
<1>1. /\ IsFileSystem(f) /\ v[0] = FromRoot(a) /\ w[0] = FromRoot(b)
      /\ \A k \in Nat : v[k + 1] = LookUp(f, v[k], Yes) /\ v[k] \in Positions(f)
      /\ \A k \in Nat : w[k + 1] = LookUp(f, w[k], follow) /\ w[k] \in Positions(f)
  BY WalkSteps
<1>2. \A k \in Nat : k <= m => ~Ended(v[k])
  <2>1. ASSUME NEW k \in Nat, k <= m, Ended(v[k]) PROVE FALSE
    <3>1. v[m] = v[k]
      BY <2>1, WalkStays
    <3>2. QED
      BY <2>1, <3>1
  <2>2. QED
    BY <2>1
<1>3. s \in Seq(Word) /\ s # <<>> /\ a \in Seq(Word) /\ a # <<>> /\ b = a \o s
  BY PathParts DEF Extends
<1> DEFINE S == {k \in Nat : k <= m => Ahead(v[k], w[k], s)}
<1>4. 0 \in S
  <2>1. Tail(b) = Tail(a) \o s
    BY <1>3, ConcatHead
  <2>2. Ahead(v[0], w[0], s)
    <3>1. PICK x, y : x = v[0] /\ y = w[0]
      OBVIOUS
    <3>2. /\ x.inodes = <<Root>> /\ x.names = <<"/">> /\ x.rest = Tail(a) /\ x.hops = 0 /\ x.error = "none"
          /\ y.inodes = <<Root>> /\ y.names = <<"/">> /\ y.rest = Tail(b) /\ y.hops = 0 /\ y.error = "none"
      BY <1>1, <3>1 DEF FromRoot
    <3>3. Ahead(x, y, s)
      BY <2>1, <3>2 DEF Ahead
    <3>4. QED
      BY <3>1, <3>3
  <2>3. QED
    BY <2>2
<1>5. ASSUME NEW k \in Nat, k \in S PROVE k + 1 \in S
  <2>1. ASSUME k + 1 <= m PROVE Ahead(v[k + 1], w[k + 1], s)
    <3>1. k <= m /\ k + 1 \in Nat
      BY <2>1
    <3>2. ~Ended(v[k]) /\ ~Ended(v[k + 1]) /\ Ahead(v[k], w[k], s)
      BY <1>2, <1>5, <2>1, <3>1
    <3>3. v[k + 1].error = "none"
      BY <3>2 DEF Ended
    <3>4. PICK p, q, x, y : p = v[k] /\ q = w[k] /\ x = v[k + 1] /\ y = w[k + 1]
      OBVIOUS
    <3>5. /\ p \in Positions(f) /\ q \in Positions(f) /\ Ahead(p, q, s) /\ ~Ended(p)
          /\ x = LookUp(f, p, Yes) /\ x.error = "none" /\ y = LookUp(f, q, follow)
      BY <1>1, <3>2, <3>3, <3>4
    <3>6. Ahead(x, y, s)
      BY <1>1, <1>3, <3>5, AheadStep
    <3>7. QED
      BY <3>4, <3>6
  <2>2. QED
    BY <2>1
<1> HIDE DEF S
<1>6. Nat \subseteq S
  BY <1>4, <1>5, NatSteps
<1>7. m \in S /\ m <= m
  BY <1>6
<1>8. QED
  BY <1>7 DEF S

\* g is f with a new entry, where there was none.
Grows(f, d, x, i, g, s) == Adds(f, d, x, i, g, s) /\ f[d].entries[x] = Nowhere /\ f[d].kind = "dir"

LEMMA GrowsParts ==
    ASSUME NEW f, NEW d, NEW x, NEW i, NEW g, NEW s, Grows(f, d, x, i, g, s)
    PROVE  /\ IsFileSystem(f) /\ IsFileSystem(g) /\ Frame(f, g)
           /\ d \in Node /\ x \in Name /\ i \in Inodes /\ i.kind # "free"
           /\ s \in Node /\ f[s].kind = "free" /\ s # d /\ s # Nowhere /\ g[s] = i
           /\ \A m \in Node : m # s /\ m # d => g[m] = f[m]
           /\ g[d].kind = f[d].kind /\ g[d].search = f[d].search
           /\ \A y \in Name : g[d].entries[y] = IF y = x THEN s ELSE f[d].entries[y]
<1>1. Adds(f, d, x, i, g, s) /\ f[d].entries[x] = Nowhere
  BY DEF Grows
<1>2. Added(f, d, x, i, g, s) /\ IsFileSystem(g) /\ Frame(f, g)
  BY <1>1, AddSound
<1>3. IsFileSystem(f) /\ d \in Node /\ x \in Name /\ i \in Inodes /\ i.kind # "free"
  BY <1>1 DEF Adds
<1>4. /\ s \in Node /\ f[s].kind = "free" /\ s # d /\ g[s] = i
      /\ \A m \in Node : m # s /\ m # d => g[m] = f[m]
  BY <1>2 DEF Added
<1>5. f[d] \in Inodes /\ f[d].entries \in [Name -> Node \cup {Nowhere}] /\ s # Nowhere
  <2>1. f[d] \in Inodes
    BY <1>3, InodeIs
  <2>2. s # Nowhere
    BY <1>3, <1>4, NodeTypes
  <2>3. QED
    BY <2>1, <2>2 DEF Inodes
<1>6. /\ g[d].kind = f[d].kind /\ g[d].search = f[d].search
      /\ \A y \in Name : g[d].entries[y] = IF y = x THEN s ELSE f[d].entries[y]
  <2>1. g[d] = [f[d] EXCEPT !.entries = [f[d].entries EXCEPT ![x] = s]]
    BY <1>2 DEF Added
  <2>2. PICK e : e = [f[d].entries EXCEPT ![x] = s]
    OBVIOUS
  <2>3. g[d].kind = f[d].kind /\ g[d].search = f[d].search /\ g[d].entries = e
    BY <1>5, <2>1, <2>2 DEF Inodes
  <2>4. \A y \in Name : e[y] = IF y = x THEN s ELSE f[d].entries[y]
    BY <1>5, <2>2
  <2>5. QED
    BY <2>3, <2>4
<1>7. QED
  BY <1>2, <1>3, <1>4, <1>5, <1>6

\* As long as the new entry is not what a walk looks for, it goes the same way.
LEMMA GrowsStep ==
    ASSUME NEW f, NEW d, NEW x, NEW i, NEW g, NEW s, Grows(f, d, x, i, g, s),
           NEW p \in Positions(f), ~Ended(p), f[At(p)].kind # "free",
           NEW follow, LookUp(f, p, follow).error = "none"
    PROVE  LookUp(g, p, follow) = LookUp(f, p, follow)
<1>1. /\ IsFileSystem(f) /\ IsFileSystem(g) /\ Frame(f, g)
      /\ d \in Node /\ x \in Name /\ f[s].kind = "free"
      /\ \A m \in Node : m # s /\ m # d => g[m] = f[m]
      /\ g[d].kind = f[d].kind /\ g[d].search = f[d].search
      /\ \A y \in Name : g[d].entries[y] = IF y = x THEN s ELSE f[d].entries[y]
  BY GrowsParts
<1>2. f[d].entries[x] = Nowhere
  BY DEF Grows
<1>3. At(p) \in Node /\ p.rest \in Seq(Word) /\ NoRoot(p.rest) /\ p.rest # <<>> /\ p.error = "none"
  BY <1>1, AtIs DEF Ended
<1>4. CASE At(p) # d
  <2>1. f[At(p)] = g[At(p)]
    BY <1>1, <1>3, <1>4
  <2>2. QED
    BY <1>1, <2>1, SameLookUp
<1>5. CASE At(p) = d
  <2>1. PICK y : y = Head(p.rest)
    OBVIOUS
  <2>2. CASE f[d].kind # "dir" \/ ~f[d].search \/ y = ".."
    BY <1>1, <1>3, <1>5, <2>1, <2>2 DEF LookUp
  <2>3. CASE f[d].kind = "dir" /\ f[d].search /\ y # ".."
    <3>1. y \in Name
      BY <1>3, <2>1, <2>3, NoRootKept
    <3>2. y # x
      <4>1. SUFFICES ASSUME y = x PROVE FALSE
        OBVIOUS
      <4>2. Cause(f, p, follow) = {"ENOENT"} /\ ~Found(f, p)
        <5>1. Entry(f, p) = Nowhere
          BY <1>5, <2>1, <4>1, <1>1 DEF Entry, Grows
        <5>2. f[At(p)].kind = "dir" /\ f[At(p)].search /\ Head(p.rest) # ".."
          BY <1>5, <2>1, <2>3
        <5>3. QED
          <6>1. Head(p.rest) \in Name /\ Nowhere \notin Node
            BY <1>1, <2>1, <3>1, NodeTypes
          <6>2. QED
            BY <5>1, <5>2, <6>1 DEF Cause, Passable, Found
      <4>3. ~WentUp(f, p, LookUp(f, p, follow))
        BY <2>1, <2>3 DEF WentUp
      <4>4. Erred(p, LookUp(f, p, follow))
        BY <1>1, <4>2, <4>3, LookUpSteps DEF WentDown, WentThrough
      <4>5. QED
        BY <4>4 DEF Erred, Errors
    <3>3. PICK n : n = f[d].entries[y]
      OBVIOUS
    <3>4. g[d].entries[y] = n
      BY <1>1, <3>1, <3>2, <3>3
    <3>5. n \in Node \cup {Nowhere} /\ (n # Nowhere => f[n].kind # "free")
      BY <1>1, <3>1, <3>3, NodeTypes
    <3>6. CASE n = Nowhere
      BY <1>3, <1>5, <1>1, <2>1, <2>3, <3>3, <3>4, <3>6 DEF LookUp
    <3>7. CASE n # Nowhere
      <4>1. f[n].kind = g[n].kind /\ f[n].target = g[n].target
        BY <1>1, <3>5, <3>7 DEF Frame
      <4>2. /\ f[At(p)].entries[Head(p.rest)] = n /\ g[At(p)].entries[Head(p.rest)] = n
            /\ g[At(p)].kind = f[At(p)].kind /\ g[At(p)].search = f[At(p)].search
        BY <1>1, <1>5, <2>1, <3>3, <3>4
      <4>3. QED
        BY <4>1, <4>2 DEF LookUp
    <3>8. QED
      BY <3>6, <3>7
  <2>4. QED
    BY <2>2, <2>3
<1>6. QED
  BY <1>4, <1>5

LEMMA GrowsWalk ==
    ASSUME NEW f, NEW d, NEW x, NEW i, NEW g, NEW s, Grows(f, d, x, i, g, s), NEW path, NEW follow,
           NEW v, IsWalk(f, path, follow, v), NEW w, IsWalk(g, path, follow, w), NEW m \in Nat, ~Ended(v[m])
    PROVE  w[m] = v[m]
<1>1. /\ IsFileSystem(f) /\ v[0] = FromRoot(path) /\ w[0] = FromRoot(path)
      /\ \A k \in Nat : v[k + 1] = LookUp(f, v[k], follow) /\ v[k] \in Positions(f) /\ w[k + 1] = LookUp(g, w[k], follow)
  BY WalkSteps
<1>2. \A k \in Nat : k <= m => ~Ended(v[k])
  <2>1. ASSUME NEW k \in Nat, k <= m, Ended(v[k]) PROVE FALSE
    <3>1. v[m] = v[k]
      BY <2>1, WalkStays
    <3>2. QED
      BY <2>1, <3>1
  <2>2. QED
    BY <2>1
<1> DEFINE S == {k \in Nat : k <= m => w[k] = v[k]}
<1>3. 0 \in S
  BY <1>1
<1>4. ASSUME NEW k \in Nat, k \in S PROVE k + 1 \in S
  <2>1. ASSUME k + 1 <= m PROVE w[k + 1] = v[k + 1]
    <3>1. k <= m /\ k + 1 \in Nat
      BY <2>1
    <3>2. ~Ended(v[k]) /\ ~Ended(v[k + 1]) /\ w[k] = v[k] /\ v[k + 1].error = "none"
      BY <1>2, <1>4, <2>1, <3>1 DEF Ended
    <3>3. PICK p : p = v[k]
      OBVIOUS
    <3>4. p \in Positions(f) /\ ~Ended(p) /\ LookUp(f, p, follow).error = "none" /\ f[At(p)].kind # "free"
      <4>1. p \in Positions(f) /\ ~Ended(p)
        BY <1>1, <3>2, <3>3
      <4>2. LookUp(f, p, follow) = v[k + 1]
        BY <1>1, <3>3
      <4>3. LookUp(f, p, follow).error = "none"
        BY <3>2, <4>2
      <4>4. f[At(p)].kind # "free"
        BY <1>1, <3>3, WalkEnd
      <4>5. QED
        BY <4>1, <4>3, <4>4
    <3>5. LookUp(g, p, follow) = LookUp(f, p, follow)
      BY <3>4, GrowsStep
    <3>6. QED
      BY <1>1, <3>2, <3>3, <3>5
  <2>2. QED
    BY <2>1
<1> HIDE DEF S
<1>5. Nat \subseteq S
  BY <1>3, <1>4, NatSteps
<1>6. m \in S /\ m <= m
  BY <1>5
<1>7. QED
  BY <1>6 DEF S

\* Where the walk ended for want of the entry, it now goes on to the new inode.
Lacks(f, d, x, path, follow, v, m) ==
    /\ IsWalk(f, path, follow, v) /\ m \in Nat
    /\ ~Ended(v[m]) /\ At(v[m]) = d /\ f[d].search /\ Head(v[m].rest) = x
WalksOn(v, w, m, s) == At(w[m + 1]) = s /\ w[m + 1].rest = Tail(v[m].rest) /\ w[m + 1].error = "none"

LEMMA FindsNew ==
    ASSUME NEW f, NEW d, NEW x, NEW i, NEW g, NEW s, Grows(f, d, x, i, g, s), i.kind # "link",
           NEW path, NEW follow, NEW v, NEW m, Lacks(f, d, x, path, follow, v, m),
           NEW w, IsWalk(g, path, follow, w)
    PROVE  WalksOn(v, w, m, s)
<1>0. IsWalk(f, path, follow, v) /\ m \in Nat /\ ~Ended(v[m]) /\ At(v[m]) = d /\ f[d].search /\ Head(v[m].rest) = x
  BY DEF Lacks
<1>1. w[m] = v[m]
  BY <1>0, GrowsWalk
<1>2. PICK p, q : p = w[m] /\ q = w[m + 1]
  OBVIOUS
<1>3. p \in Positions(g) /\ q = LookUp(g, p, follow) /\ IsFileSystem(g) /\ IsFileSystem(f)
  <2>1. IsFileSystem(g) /\ w[m] \in Positions(g) /\ w[m + 1] = LookUp(g, w[m], follow)
    BY <1>0, WalkSteps
  <2>2. QED
    BY <1>2, <2>1, GrowsParts
<1>4. ~Ended(p) /\ At(p) = d /\ Head(p.rest) = x /\ p.rest = v[m].rest
  BY <1>0, <1>1, <1>2
<1>5. /\ g[d].kind = "dir" /\ g[d].search /\ x \in Name /\ g[d].entries[x] = s /\ s \in Node /\ s # Nowhere
      /\ g[s].kind # "link" /\ g[s].kind # "free"
  <2>1. f[d].kind = "dir"
    BY DEF Grows
  <2>2. QED
    BY <1>0, <2>1, GrowsParts
<1>6. /\ Passable(g, p) /\ Entry(g, p) = s /\ ~LooksThrough(g, p, follow) /\ x # ".."
  BY <1>3, <1>4, <1>5, NodeTypes DEF Passable, Entry, LooksThrough
<1>7. Cause(g, p, follow) = {}
  BY <1>4, <1>5, <1>6 DEF Cause
<1>8. ~WentUp(g, p, q) /\ ~WentThrough(g, p, follow, q)
  BY <1>4, <1>6 DEF WentUp, WentThrough
<1>9. WentDown(g, p, follow, q)
  BY <1>3, <1>4, <1>7, <1>8, LookUpSteps
<1>10. q.inodes = Append(p.inodes, s) /\ q.rest = Tail(p.rest) /\ q.error = "none"
  BY <1>6, <1>9 DEF WentDown
<1>11. At(q) = s
  <2>1. p.inodes \in Seq(Node)
    BY <1>3, AtIs
  <2>2. QED
    BY <1>5, <1>10, <2>1, AppendProperties DEF At
<1>12. QED
  BY <1>2, <1>4, <1>10, <1>11 DEF WalksOn

LEMMA WalkFails ==
    ASSUME NEW f, NEW path, NEW follow, NEW w, IsWalk(f, path, follow, w), NEW m \in Nat, w[m].error # "none"
    PROVE  EndOf(Namei(f, path, follow)) \in Errors
<1>1. MaxWalk \in Nat
  BY SkillAssumption
<1>2. PICK p, e : p = Namei(f, path, follow) /\ e = w[MaxWalk]
  OBVIOUS
<1>3. /\ p.error # "none" => EndOf(p) \in Errors
      /\ Ended(e) => p = e
      /\ ~Ended(e) => p.error = "ELOOP"
  BY <1>2, NameiIs
<1>4. CASE Ended(e)
  <2>1. Ended(w[m])
    BY DEF Ended
  <2>2. w[m] = e
    <3>1. CASE m <= MaxWalk
      BY <1>1, <1>2, <2>1, <3>1, WalkStays
    <3>2. CASE MaxWalk <= m
      BY <1>1, <1>2, <1>4, <3>2, WalkStays
    <3>3. QED
      BY <1>1, <3>1, <3>2
  <2>3. QED
    BY <1>2, <1>3, <1>4, <2>2
<1>5. CASE ~Ended(e)
  BY <1>2, <1>3, <1>5
<1>6. QED
  BY <1>4, <1>5

\* Where a path without its last names ends for want of one.
LEMMA VacantIs ==
    ASSUME NEW f, IsFileSystem(f), NEW a, IsPath(a), NEW p, p = Namei(f, a, No), Vacant(p)
    PROVE  /\ p = Namei(f, a, Yes)
           /\ At(p) \in Node /\ f[At(p)].kind = "dir" /\ f[At(p)].search
           /\ Head(p.rest) \in Name /\ f[At(p)].entries[Head(p.rest)] = Nowhere
           /\ p.rest \in Seq(Word) /\ Tail(p.rest) = <<>> /\ p.rest # <<>>
<1>1. PICK w : IsWalk(f, a, No, w)
  BY DEF IsWalk
<1>2. p.error = "ENOENT" /\ Len(p.rest) = 1
  BY DEF Vacant
<1>3. EndOf(p) \in Errors
  BY <1>1, <1>2, NameiIs
<1>4. p = Namei(f, a, Yes)
  <2>1. Lstat(f, a) \in Errors
    BY <1>3, YesAndNo
  <2>2. Namei(f, a, TRUE) = Namei(f, a, FALSE)
    BY <2>1, FollowIs
  <2>3. QED
    BY <2>2 DEF Yes, No
<1>5. /\ At(p) \in Node /\ f[At(p)].kind = "dir" /\ f[At(p)].search
      /\ Head(p.rest) \in Name /\ f[At(p)].entries[Head(p.rest)] = Nowhere
  BY <1>1, <1>2, MissingIs
<1>6. p.rest \in Seq(Word)
  <2>1. w[MaxWalk] \in Positions(f) /\ p.rest = w[MaxWalk].rest
    BY <1>1, NameiIs, WalkSteps
  <2>2. QED
    BY <2>1, AtIs
<1>7. p.rest # <<>> /\ Tail(p.rest) = <<>>
  <2>1. p.rest # <<>>
    BY <1>2, <1>6, EmptySeq
  <2>2. ~(Len(p.rest) > 1)
    BY <1>2
  <2>3. QED
    BY <1>6, <2>1, <2>2, HeadIs
<1>8. QED
  BY <1>4, <1>5, <1>6, <1>7

\* A directory that was made is empty: what was to be in it is still missing.
LEMMA StillMissing ==
    ASSUME NEW f, NEW a, NEW s, NEW b, Extends(a, s, b), IsPath(b), Head(s) \in Name,
           NEW p, p = Namei(f, a, No), Vacant(p),
           NEW i, i.kind = "dir", i.entries = Empty, NEW g, NEW n, Grows(f, At(p), Head(p.rest), i, g, n)
    PROVE  Lstat(g, b) \in Errors
<1>1. PICK d, x : d = At(p) /\ x = Head(p.rest)
  OBVIOUS
<1>2. IsFileSystem(f) /\ IsFileSystem(g) /\ n \in Node /\ g[n] = i /\ Grows(f, d, x, i, g, n)
  BY <1>1, GrowsParts
<1>3. s \in Seq(Word) /\ s # <<>> /\ IsPath(a)
  BY DEF Extends
<1>4. p = Namei(f, a, Yes) /\ f[d].search /\ p.error = "ENOENT"
      /\ p.rest \in Seq(Word) /\ Tail(p.rest) = <<>> /\ p.rest # <<>>
  BY <1>1, <1>2, <1>3, VacantIs DEF Vacant
<1>5. PICK u, v, w : IsWalk(f, a, Yes, u) /\ IsWalk(f, b, No, v) /\ IsWalk(g, b, No, w)
  BY <1>2, <1>3 DEF IsWalk
<1>6. PICK m \in Nat : ~Ended(u[m]) /\ u[m].inodes = p.inodes /\ u[m].rest = p.rest
  BY <1>4, <1>5, MissingIs
<1>7. Ahead(u[m], v[m], s)
  BY <1>5, <1>6, AheadWalk
<1>8. ~Ended(v[m]) /\ At(v[m]) = d /\ Head(v[m].rest) = x /\ Tail(v[m].rest) = s
  <2>1. PICK r, q : r = u[m] /\ q = v[m]
    OBVIOUS
  <2>2. q.inodes = p.inodes /\ q.error = r.error /\ q.rest = p.rest \o s /\ ~Ended(r)
    BY <1>6, <1>7, <2>1 DEF Ahead
  <2>3. PICK c : c = p.rest
    OBVIOUS
  <2>4. c \o s # <<>> /\ Head(c \o s) = Head(c) /\ Tail(c \o s) = Tail(c) \o s
    BY <1>3, <1>4, <2>3, ConcatHead
  <2>5. Tail(c) \o s = s
    BY <1>3, <1>4, <2>3, ConcatEmptySeq
  <2>6. At(q) = d /\ q.error = "none"
    BY <1>1, <2>2 DEF At, Ended
  <2>7. QED
    BY <1>1, <2>1, <2>2, <2>3, <2>4, <2>5, <2>6 DEF Ended
<1>9. WalksOn(v, w, m, n)
  <2>1. i.kind # "link"
    OBVIOUS
  <2>2. Lacks(f, d, x, b, No, v, m)
    BY <1>4, <1>5, <1>8 DEF Lacks
  <2>3. QED
    BY <1>2, <1>5, <2>1, <2>2, FindsNew
<1>10. PICK q, y : q = w[m + 1] /\ y = w[m + 1 + 1]
  OBVIOUS
<1>11. At(q) = n /\ q.rest = s /\ q.error = "none"
  BY <1>8, <1>9, <1>10 DEF WalksOn
<1>12. m + 1 \in Nat /\ m + 1 + 1 \in Nat
  OBVIOUS
<1>13. q \in Positions(g) /\ y = LookUp(g, q, No) /\ ~Ended(q)
  <2>1. q \in Positions(g) /\ y = LookUp(g, q, No)
    BY <1>5, <1>10, <1>12, WalkSteps
  <2>2. QED
    BY <1>3, <1>11, <2>1 DEF Ended
<1>14. Head(q.rest) \in Name /\ Entry(g, q) = Nowhere
  <2>1. g[n].entries[Head(s)] = Nowhere
    BY <1>2 DEF Empty
  <2>2. QED
    BY <1>11, <2>1 DEF Entry
<1>15. Head(q.rest) # ".." /\ ~Found(g, q)
  BY <1>2, <1>14, NodeTypes DEF Found
<1>16. Erred(q, y)
  BY <1>2, <1>13, <1>15, LookUpSteps DEF WentUp, WentDown, WentThrough
<1>17. w[m + 1 + 1].error # "none"
  BY <1>10, <1>16 DEF Erred, Errors
<1>18. EndOf(Namei(g, b, No)) \in Errors
  BY <1>5, <1>12, <1>17, WalkFails
<1>19. QED
  BY <1>18, YesAndNo

\* The file that was missing is found where it was made.
LEMMA FoundWhereMade ==
    ASSUME NEW f, NEW b, IsPath(b), NEW p, p = Namei(f, b, No), Vacant(p),
           NEW i, i.kind = "file", NEW g, NEW n, Grows(f, At(p), Head(p.rest), i, g, n)
    PROVE  Lstat(g, b) = n
<1>1. PICK d, x : d = At(p) /\ x = Head(p.rest)
  OBVIOUS
<1>2. IsFileSystem(f) /\ IsFileSystem(g) /\ n \in Node /\ g[n] = i /\ Grows(f, d, x, i, g, n)
  BY <1>1, GrowsParts
<1>3. f[d].search /\ p.error = "ENOENT" /\ Tail(p.rest) = <<>>
  BY <1>1, <1>2, VacantIs DEF Vacant
<1>4. PICK v, w : IsWalk(f, b, No, v) /\ IsWalk(g, b, No, w)
  BY <1>2 DEF IsWalk
<1>5. PICK m \in Nat : m < MaxWalk /\ ~Ended(v[m]) /\ v[m].inodes = p.inodes /\ v[m].rest = p.rest
  BY <1>3, <1>4, MissingIs
<1>6. At(v[m]) = d /\ Head(v[m].rest) = x /\ i.kind # "link"
  BY <1>1, <1>5 DEF At
<1>7. PICK q : q = w[m + 1]
  OBVIOUS
<1>8. At(q) = n /\ q.rest = <<>> /\ q.error = "none"
  <2>1. Lacks(f, d, x, b, No, v, m)
    BY <1>3, <1>4, <1>5, <1>6 DEF Lacks
  <2>2. WalksOn(v, w, m, n)
    BY <1>2, <1>4, <1>6, <2>1, FindsNew
  <2>3. QED
    BY <1>3, <1>5, <1>7, <2>2 DEF WalksOn
<1>9. MaxWalk \in Nat /\ m + 1 \in Nat /\ m + 1 <= MaxWalk
  <2>1. MaxWalk \in Nat
    BY SkillAssumption
  <2>2. QED
    BY <1>5, <2>1
<1>10. w[MaxWalk] = q
  <2>1. Ended(q)
    BY <1>8 DEF Ended
  <2>2. QED
    BY <1>4, <1>7, <1>9, <2>1, WalkStays
<1>11. PICK e : e = Namei(g, b, No)
  OBVIOUS
<1>12. e = q
  <2>1. Ended(q)
    BY <1>8 DEF Ended
  <2>2. QED
    BY <1>4, <1>10, <1>11, <2>1, NameiIs
<1>13. QED
  BY <1>8, <1>11, <1>12, YesAndNo DEF EndOf

\* The skill is missing as long as an install has found it so, may not overwrite, and nobody
\* came between.
Missed == Lstat(fs, SkillPath) \in Errors
Careful == /\ run.undisturbed
           /\ \/ run.at = "decide" /\ run.state = "missing"
              \/ run.at \in {"make directory", "truncate"} /\ ~run.force
HarmlessInv == TypeInv /\ (Careful => Missed)

LEMMA MakeDirectoryMisses ==
    ASSUME TypeInv, MakeDirectory, Missed
    PROVE  Missed'
<1>1. PICK a : a = SubSeq(SkillPath, 1, run.level)
  OBVIOUS
<1>2. PICK p : p = Namei(fs, a, No)
  OBVIOUS
<1>3. \/ UNCHANGED fs
      \/ Vacant(p) /\ fs[At(p)].writable /\ fs' = Add(fs, At(p), Head(p.rest), Inode("dir"))
  <2> DEFINE q == Namei(fs, SubSeq(SkillPath, 1, run.level), FALSE)
  <2>1. \/ UNCHANGED fs
        \/ Vacant(q) /\ fs[At(q)].writable /\ fs' = Add(fs, At(q), Head(q.rest), Inode("dir"))
    BY DEF MakeDirectory
  <2>2. p = q
    BY <1>1, <1>2 DEF No
  <2> HIDE DEF q
  <2>3. QED
    BY <2>1, <2>2
<1>4. CASE UNCHANGED fs
  BY <1>4 DEF Missed
<1>5. CASE Vacant(p) /\ fs[At(p)].writable /\ fs' = Add(fs, At(p), Head(p.rest), Inode("dir"))
  <2>1. run.level \in 1 .. Len(SkillPath) - 1 /\ IsFileSystem(fs) /\ IsPath(SkillPath)
    BY SkillAssumption DEF TypeInv, MakeDirectory
  <2>2. PICK s : Extends(a, s, SkillPath) /\ Head(s) \in Name
    BY <1>1, <2>1, SkillAbove
  <2>3. IsPath(a)
    BY <2>2 DEF Extends
  <2>4. /\ At(p) \in Node /\ fs[At(p)].kind = "dir"
        /\ Head(p.rest) \in Name /\ fs[At(p)].entries[Head(p.rest)] = Nowhere
    BY <1>2, <1>5, <2>1, <2>3, VacantIs
  <2>5. PICK i, n : i = Inode("dir") /\ n = Spare(fs)
    OBVIOUS
  <2>6. i \in Inodes /\ i.kind = "dir" /\ i.owner = "user" /\ i.entries = Empty
    BY <2>5, EmptyInode
  <2>7. \E m \in Node : fs[m].kind = "free"
    BY DEF MakeDirectory, Room
  <2>8. Adds(fs, At(p), Head(p.rest), i, fs', n)
    BY <1>5, <2>1, <2>4, <2>5, <2>6, <2>7 DEF Adds
  <2>9. Grows(fs, At(p), Head(p.rest), i, fs', n)
    BY <2>4, <2>8 DEF Grows
  <2>10. Lstat(fs', SkillPath) \in Errors
    BY <1>2, <1>5, <2>1, <2>2, <2>6, <2>9, StillMissing
  <2>11. QED
    BY <2>10 DEF Missed
<1>6. QED
  BY <1>3, <1>4, <1>5

LEMMA HarmlessSteps ==
    ASSUME HarmlessInv, [Next]_vars
    PROVE  HarmlessInv'
<1>1. TypeInv /\ TypeInv' /\ run \in RunType
  BY NextSound DEF HarmlessInv, TypeInv
<1>2. SUFFICES ASSUME Careful' PROVE Missed'
  BY <1>1 DEF HarmlessInv
<1>3. run'.undisturbed /\ run'.at \in {"decide", "make directory", "truncate"}
  BY <1>2 DEF Careful
<1>4. Careful => Missed
  BY DEF HarmlessInv
<1>5. ASSUME NEW command, NEW force, NEW dry, Start(command, force, dry) PROVE FALSE
  BY <1>3, <1>5 DEF Start, Idle
<1>6. ASSUME Look PROVE Missed'
  <2>1. (UNCHANGED fs /\ Lstat(fs, SkillPath) = "ENOENT") \/ run' = Idle \/ run'.at = "read"
    BY <1>1, <1>6 DEF Look, RunType
  <2>2. UNCHANGED fs /\ Lstat(fs, SkillPath) = "ENOENT"
    BY <1>3, <2>1, IdleIs
  <2>3. QED
    BY <2>2 DEF Missed, Errors
<1>7. ASSUME Compare PROVE FALSE
  <2>1. run' = Idle \/ \E s \in {"identical", "differs"} : run' = [run EXCEPT !.at = "decide", !.state = s]
    BY <1>7 DEF Compare
  <2>2. run' = Idle \/ (run'.at = "decide" /\ run'.state # "missing")
    BY <1>1, <2>1 DEF RunType
  <2>3. QED
    BY <1>2, <2>2, IdleIs DEF Careful
<1>8. ASSUME Decide PROVE Missed'
  <2>1. run.at = "decide" /\ UNCHANGED fs
        /\ (run' = Idle \/ (Writes /\ run' = [run EXCEPT !.at = "make directory", !.level = Len(SkillPath) - 1]))
    BY <1>8 DEF Decide
  <2>2. Writes /\ run'.undisturbed = run.undisturbed /\ run'.force = run.force /\ run'.at = "make directory"
    BY <1>1, <1>3, <2>1, IdleIs DEF RunType
  <2>3. ~run.force
    BY <1>2, <2>2 DEF Careful
  <2>4. run.undisturbed /\ run.state = "missing"
    BY <1>3, <2>2, <2>3 DEF Writes
  <2>5. Missed
    BY <1>4, <2>1, <2>4 DEF Careful
  <2>6. QED
    BY <2>1, <2>5 DEF Missed
<1>9. ASSUME MakeDirectory PROVE Missed'
  <2>1. run.at = "make directory"
        /\ run' \in {Idle, [run EXCEPT !.at = "truncate"], [run EXCEPT !.level = @ + 1, !.down = TRUE],
                     [run EXCEPT !.level = @ - 1]}
    BY <1>9 DEF MakeDirectory
  <2>2. run'.undisturbed = run.undisturbed /\ run'.force = run.force /\ run'.at \in {"make directory", "truncate"}
    BY <1>1, <1>3, <2>1, IdleIs DEF RunType
  <2>3. run.undisturbed /\ ~run.force
    BY <1>2, <2>2 DEF Careful
  <2>4. Missed
    BY <1>4, <2>1, <2>3 DEF Careful
  <2>5. QED
    BY <1>1, <1>9, <2>4, MakeDirectoryMisses
<1>10. ASSUME Truncate PROVE FALSE
  <2>1. run' = Idle \/ \E o : run' = [run EXCEPT !.at = "fill", !.opened = o]
    BY <1>10 DEF Truncate
  <2>2. run' = Idle \/ run'.at = "fill"
    BY <1>1, <2>1 DEF RunType
  <2>3. QED
    BY <1>3, <2>2, IdleIs
<1>11. ASSUME Fill \/ Die PROVE FALSE
  BY <1>3, <1>11, IdleIs DEF Fill, Die
<1>12. ASSUME User PROVE FALSE
  <2>1. run' = [run EXCEPT !.undisturbed = run.at = "idle"]
    BY <1>12 DEF User, Chmod, Save, Remove, Create, Act
  <2>2. run'.at = run.at /\ run'.undisturbed = (run.at = "idle")
    BY <1>1, <2>1 DEF RunType
  <2>3. QED
    BY <1>3, <2>2
<1>13. ASSUME UNCHANGED vars PROVE Missed'
  <2>1. UNCHANGED <<fs, run>>
    BY <1>13 DEF vars
  <2>2. QED
    BY <1>2, <1>4, <2>1 DEF Careful, Missed
<1>14. QED
  BY <1>5, <1>6, <1>7, <1>8, <1>9, <1>10, <1>11, <1>12, <1>13 DEF Next

\* Where an install may write, with the skill missing: into a new file, at the skill's path.
LEMMA TruncateHarms ==
    ASSUME TypeInv, Truncate, Missed, NEW n \in Node
    PROVE  /\ fs[n].kind = "file" => fs'[n].text = fs[n].text
           /\ fs[n].kind = "free" /\ fs'[n].kind = "file" => n = Lstat(fs', SkillPath)
<1>1. IsFileSystem(fs) /\ IsPath(SkillPath)
  BY SkillAssumption DEF TypeInv
<1>2. PICK p : p = Namei(fs, SkillPath, TRUE)
  OBVIOUS
<1>3. p = Namei(fs, SkillPath, No) /\ p.error # "none"
  <2>1. p = Namei(fs, SkillPath, FALSE) /\ Follow(fs, SkillPath) \in Errors
    BY <1>1, <1>2, FollowIs DEF Missed
  <2>2. EndOf(p) \in Errors
    BY <1>2, <2>1 DEF Follow
  <2>3. PICK w : IsWalk(fs, SkillPath, No, w)
    BY <1>1 DEF IsWalk
  <2>4. p = Namei(fs, SkillPath, No)
    BY <2>1 DEF No
  <2>5. p.error = "none" => EndOf(p) \notin Errors
    BY <2>3, <2>4, NameiIs
  <2>6. QED
    BY <2>2, <2>4, <2>5
<1>4. \/ UNCHANGED fs
      \/ Vacant(p) /\ fs[At(p)].writable /\ fs' = Add(fs, At(p), Head(p.rest), Inode("file"))
  <2> DEFINE q == Namei(fs, SkillPath, TRUE)
  <2>1. \/ q.error = "none"
        \/ UNCHANGED fs
        \/ Vacant(q) /\ fs[At(q)].writable /\ fs' = Add(fs, At(q), Head(q.rest), Inode("file"))
    BY DEF Truncate
  <2>2. p = q
    BY <1>2
  <2> HIDE DEF q
  <2>3. QED
    BY <1>3, <2>1, <2>2
<1>5. CASE UNCHANGED fs
  BY <1>5
<1>6. CASE Vacant(p) /\ fs[At(p)].writable /\ fs' = Add(fs, At(p), Head(p.rest), Inode("file"))
  <2>1. PICK d, x, i, s : d = At(p) /\ x = Head(p.rest) /\ i = Inode("file") /\ s = Spare(fs)
    OBVIOUS
  <2>2. d \in Node /\ fs[d].kind = "dir" /\ x \in Name /\ fs[d].entries[x] = Nowhere
    BY <1>1, <1>3, <1>6, <2>1, VacantIs
  <2>3. i \in Inodes /\ i.kind = "file" /\ i.owner = "user" /\ i.entries = Empty
    BY <2>1, EmptyInode
  <2>4. \E m \in Node : fs[m].kind = "free"
    BY DEF Truncate, Room
  <2>5. Adds(fs, d, x, i, fs', s)
    BY <1>1, <1>6, <2>1, <2>2, <2>3, <2>4 DEF Adds
  <2>6. Grows(fs, d, x, i, fs', s)
    BY <2>2, <2>5 DEF Grows
  <2>7. fs[s].kind = "free" /\ (\A m \in Node : m # s /\ m # d => fs'[m] = fs[m])
    BY <2>6, GrowsParts
  <2>8. Lstat(fs', SkillPath) = s
    BY <1>1, <1>3, <1>6, <2>1, <2>3, <2>6, FoundWhereMade
  <2>9. fs[n].kind = "file" => fs'[n] = fs[n]
    BY <2>2, <2>7
  <2>10. fs[n].kind = "free" /\ fs'[n].kind = "file" => n = s
    BY <2>2, <2>7
  <2>11. QED
    BY <2>8, <2>9, <2>10
<1>7. QED
  BY <1>4, <1>5, <1>6

\* No install takes away or replaces what a maintainer has written, unless told to or unless
\* somebody comes between its look and its write, on any file system, links included.
THEOREM InstallIsHarmless == Spec => InstallHarmless
<1>1. Init => HarmlessInv
  <2>1. Init => TypeInv /\ run.at = "idle"
    BY InitType, IdleType DEF Init
  <2>2. QED
    BY <2>1 DEF HarmlessInv, Careful
<1>2. HarmlessInv /\ [Next]_vars => HarmlessInv'
  BY HarmlessSteps
<1> DEFINE Harmless == Truncate /\ ~run.force /\ run.undisturbed =>
                         \A n \in Node :
                            /\ fs[n].kind = "file" => fs'[n].text = fs[n].text
                            /\ fs[n].kind = "free" /\ fs'[n].kind = "file" => n = Lstat(fs', SkillPath)
<1>3. HarmlessInv /\ [Next]_vars => [Harmless]_vars
  <2> SUFFICES ASSUME HarmlessInv, Truncate, ~run.force, run.undisturbed, NEW n \in Node
               PROVE  /\ fs[n].kind = "file" => fs'[n].text = fs[n].text
                      /\ fs[n].kind = "free" /\ fs'[n].kind = "file" => n = Lstat(fs', SkillPath)
    OBVIOUS
  <2>1. run.at = "truncate"
    BY DEF Truncate
  <2>2. TypeInv /\ Missed
    BY <2>1 DEF HarmlessInv, Careful
  <2>3. QED
    BY <2>2, TruncateHarms
<1> HIDE DEF Harmless
<1>4. Spec => [][Harmless]_vars
  BY <1>1, <1>2, <1>3, PTL DEF Spec
<1>5. QED
  BY <1>4 DEF InstallHarmless, Harmless

(***************************************************************************)
(* The weak verdict: what resolution_chain finds open is on the kernel's   *)
(* way.                                                                    *)
(***************************************************************************)
Passed(w) == {At(w[k]) : k \in Nat}
NeverFails(w) == \A k \in Nat : w[k].error = "none"

AllPassed(s, w) == \A i \in 1 .. Len(s) : s[i] \in Passed(w)

LEMMA InodesPassed ==
    ASSUME NEW f, NEW path, NEW w, IsWalk(f, path, Yes, w), NEW k \in Nat
    PROVE  AllPassed(w[k].inodes, w)
<1>1. /\ IsFileSystem(f) /\ w[0] = FromRoot(path)
      /\ \A j \in Nat : w[j + 1] = LookUp(f, w[j], Yes) /\ w[j] \in Positions(f)
  BY WalkSteps
<1>2. \A j \in Nat : At(w[j]) \in Passed(w)
  BY DEF Passed
<1>3. ASSUME NEW j \in Nat, NEW n, w[j].inodes = <<n>> PROVE AllPassed(<<n>>, w)
  <2>1. At(w[j]) = n
    BY <1>3 DEF At
  <2>2. QED
    BY <1>2, <2>1 DEF AllPassed
<1> DEFINE S == {j \in Nat : AllPassed(w[j].inodes, w)}
<1>4. 0 \in S
  <2>1. w[0].inodes = <<Root>>
    BY <1>1 DEF FromRoot
  <2>2. QED
    BY <1>3, <2>1
<1>5. ASSUME NEW j \in Nat, j \in S PROVE j + 1 \in S
  <2>1. PICK p, q : p = w[j] /\ q = w[j + 1]
    OBVIOUS
  <2>2. p \in Positions(f) /\ q = LookUp(f, p, Yes) /\ j + 1 \in Nat /\ AllPassed(p.inodes, w)
    BY <1>1, <1>5, <2>1
  <2>3. PICK a, l : a = p.inodes /\ l = Len(a)
    OBVIOUS
  <2>4. a \in Seq(Node) /\ l \in Nat \ {0} /\ a # <<>> /\ \A i \in 1 .. l : a[i] \in Passed(w)
    BY <1>1, <2>2, <2>3, AtIs DEF AllPassed
  <2>5. ASSUME q.inodes = a PROVE AllPassed(q.inodes, w)
    BY <2>2, <2>3, <2>5
  <2>6. ASSUME q.inodes = <<Root>> PROVE AllPassed(q.inodes, w)
    BY <1>3, <2>1, <2>2, <2>6
  <2>7. ASSUME q.inodes = Front(a) PROVE AllPassed(q.inodes, w)
    <3>1. Len(Front(a)) = l - 1 /\ \A i \in 1 .. l - 1 : Front(a)[i] = a[i]
      BY <2>3, <2>4, FrontIs
    <3>2. \A i \in 1 .. l - 1 : i \in 1 .. l
      BY <2>4
    <3>3. AllPassed(Front(a), w)
      BY <2>4, <3>1, <3>2 DEF AllPassed
    <3>4. QED
      BY <2>7, <3>3
  <2>8. ASSUME NEW n \in Node, q.inodes = Append(a, n) PROVE AllPassed(q.inodes, w)
    <3>1. /\ Len(Append(a, n)) = l + 1 /\ Append(a, n)[l + 1] = n
          /\ \A i \in 1 .. l : Append(a, n)[i] = a[i]
      BY <2>3, <2>4, AppendProperties
    <3>2. At(q) = n
      BY <2>8, <3>1 DEF At
    <3>3. \A i \in 1 .. l + 1 : i \in 1 .. l \/ i = l + 1
      BY <2>4
    <3>4. n \in Passed(w)
      BY <1>2, <2>1, <2>2, <3>2
    <3>5. AllPassed(Append(a, n), w)
      BY <2>4, <3>1, <3>3, <3>4 DEF AllPassed
    <3>6. QED
      BY <2>8, <3>5
  <2>9. AllPassed(q.inodes, w)
    <3>1. CASE Ended(p)
      <4>1. q = p
        BY <2>2, <3>1 DEF LookUp
      <4>2. QED
        BY <2>2, <4>1
    <3>2. CASE ~Ended(p)
      <4>1. Erred(p, q) \/ WentUp(f, p, q) \/ WentDown(f, p, Yes, q) \/ WentThrough(f, p, Yes, q)
        BY <1>1, <2>2, <3>2, LookUpSteps
      <4>2. \/ q.inodes = a \/ q.inodes = <<Root>> \/ q.inodes = Front(a)
            \/ \E n \in Node : q.inodes = Append(a, n)
        BY <2>3, <4>1 DEF Erred, WentUp, WentDown, WentThrough, Found
      <4>3. QED
        BY <2>5, <2>6, <2>7, <2>8, <4>2
    <3>3. QED
      BY <3>1, <3>2
  <2>10. QED
    BY <2>1, <2>2, <2>9
<1> HIDE DEF S
<1>6. Nat \subseteq S
  BY <1>4, <1>5, NatSteps
<1>7. QED
  BY <1>6 DEF S

\* A walk, and a longer one that goes the same way with more to come, whatever links each has
\* followed before.
Along(v, w, s) == /\ w.inodes = v.inodes /\ w.names = v.names /\ w.rest = v.rest \o s
                  /\ v.error = "none" /\ w.error = "none"

LEMMA AlongStep ==
    ASSUME NEW f, IsFileSystem(f), NEW v \in Positions(f), NEW w \in Positions(f), NEW s \in Seq(Word),
           Along(v, w, s), ~Ended(v), NEW x, x = LookUp(f, v, Yes), x.error = "none",
           NEW y, y = LookUp(f, w, Yes), y.error = "none"
    PROVE  ~Ended(w) /\ Along(x, y, s)
<1>1. PICK a, b : a = v.rest /\ b = w.rest
  OBVIOUS
<1>2. /\ a \in Seq(Word) /\ a # <<>> /\ b = a \o s /\ NoRoot(a)
      /\ w.error = "none" /\ w.inodes = v.inodes /\ w.names = v.names
  <2>1. a \in Seq(Word) /\ NoRoot(a)
    BY <1>1, AtIs
  <2>2. QED
    BY <1>1, <2>1 DEF Along, Ended
<1>3. b \in Seq(Word) /\ b # <<>> /\ Head(b) = Head(a) /\ Tail(b) = Tail(a) \o s
  BY <1>2, ConcatHead
<1>4. ~Ended(w)
  BY <1>1, <1>2, <1>3 DEF Ended
<1>5. /\ At(w) = At(v) /\ Head(w.rest) = Head(v.rest) /\ Entry(f, w) = Entry(f, v)
      /\ LooksThrough(f, w, Yes) <=> LooksThrough(f, v, Yes)
  <2>1. At(w) = At(v) /\ Head(w.rest) = Head(v.rest)
    BY <1>1, <1>2, <1>3 DEF At
  <2>2. Entry(f, w) = Entry(f, v)
    BY <2>1 DEF Entry
  <2>3. QED
    BY <2>1, <2>2, YesAndNo DEF LooksThrough
<1>6. ~Erred(v, x) /\ ~Erred(w, y)
  BY DEF Erred, Errors
<1>7. \/ WentUp(f, v, x) \/ WentDown(f, v, Yes, x) \/ WentThrough(f, v, Yes, x)
  BY <1>6, LookUpSteps
<1>8. \/ WentUp(f, w, y) \/ WentDown(f, w, Yes, y) \/ WentThrough(f, w, Yes, y)
  BY <1>4, <1>6, LookUpSteps
<1>9. ".." \notin Name
  BY NodeTypes
<1>10. CASE WentUp(f, v, x)
  <2>1. WentUp(f, w, y)
    BY <1>5, <1>8, <1>9, <1>10 DEF WentUp, WentDown, WentThrough, Found
  <2>2. QED
    BY <1>1, <1>2, <1>3, <1>4, <1>10, <2>1 DEF WentUp, Along
<1>11. CASE WentDown(f, v, Yes, x)
  <2>1. WentDown(f, w, Yes, y)
    BY <1>5, <1>8, <1>9, <1>11 DEF WentUp, WentDown, WentThrough, Found
  <2>2. QED
    BY <1>1, <1>2, <1>3, <1>4, <1>5, <1>11, <2>1 DEF WentDown, Along
<1>12. CASE WentThrough(f, v, Yes, x)
  <2>1. Found(f, v) /\ LooksThrough(f, v, Yes)
    BY <1>12 DEF WentThrough
  <2>2. WentThrough(f, w, Yes, y)
    BY <1>5, <1>8, <1>9, <2>1 DEF WentUp, WentDown, Found
  <2>3. PICK t, r : t = f[Entry(f, v)].target /\ r = Tail(a)
    OBVIOUS
  <2>4. /\ IF Head(t) = "/"
           THEN x.inodes = <<Root>> /\ x.names = <<"/">> /\ x.rest = Tail(t \o r)
           ELSE x.inodes = v.inodes /\ x.names = v.names /\ x.rest = t \o r
        /\ x.error = "none"
    BY <1>1, <1>12, <2>3 DEF WentThrough
  <2>5. /\ IF Head(t) = "/"
           THEN y.inodes = <<Root>> /\ y.names = <<"/">> /\ y.rest = Tail(t \o (r \o s))
           ELSE y.inodes = w.inodes /\ y.names = w.names /\ y.rest = t \o (r \o s)
        /\ y.error = "none"
    BY <1>1, <1>3, <1>5, <2>2, <2>3 DEF WentThrough
  <2>6. IsTarget(t)
    <3>1. Entry(f, v) \in Node /\ f[Entry(f, v)].kind = "link"
      BY <2>1 DEF Found, LooksThrough
    <3>2. QED
      BY <2>3, <3>1, NodeTypes
  <2>7. r \in Seq(Word) /\ t \in Seq(Word) /\ t \o r \in Seq(Word) /\ t \o r # <<>>
    <3>1. r \in Seq(Word) /\ NoRoot(r)
      BY <1>2, <2>3, NoRootKept
    <3>2. t \in Seq(Word) /\ t \o r \in Seq(Word) /\ t # <<>>
      BY <2>6, <3>1, TargetThen
    <3>3. QED
      BY <3>1, <3>2, ConcatHead
  <2>8. t \o (r \o s) = (t \o r) \o s
    BY <2>7, Regroup
  <2>9. Tail((t \o r) \o s) = Tail(t \o r) \o s
    <3>1. PICK u : u = t \o r
      OBVIOUS
    <3>2. Tail(u \o s) = Tail(u) \o s
      BY <2>7, <3>1, ConcatHead
    <3>3. QED
      BY <3>1, <3>2
  <2>10. QED
    BY <1>2, <1>4, <2>4, <2>5, <2>8, <2>9 DEF Along
<1>13. QED
  BY <1>7, <1>10, <1>11, <1>12

LEMMA UsedGrows ==
    ASSUME NEW f, NEW path, NEW follow, NEW w, IsWalk(f, path, follow, w), NEW k \in Nat, NEW m \in Nat, k <= m
    PROVE  w[k].used \subseteq w[m].used
<1> DEFINE S == {j \in Nat : k <= j => w[k].used \subseteq w[j].used}
<1>1. /\ IsFileSystem(f)
      /\ \A j \in Nat : w[j + 1] = LookUp(f, w[j], follow) /\ w[j] \in Positions(f)
  BY WalkSteps
<1>2. 0 \in S
  <2>1. k <= 0 => k = 0
    OBVIOUS
  <2>2. QED
    BY <2>1
<1>3. ASSUME NEW j \in Nat, j \in S PROVE j + 1 \in S
  <2>1. PICK p, q : p = w[j] /\ q = w[j + 1]
    OBVIOUS
  <2>2. p \in Positions(f) /\ q = LookUp(f, p, follow)
    BY <1>1, <2>1
  <2>3. p.used \subseteq q.used
    <3>1. CASE Ended(p)
      BY <2>2, <3>1 DEF LookUp
    <3>2. CASE ~Ended(p)
      <4>1. Erred(p, q) \/ WentUp(f, p, q) \/ WentDown(f, p, follow, q) \/ WentThrough(f, p, follow, q)
        BY <1>1, <2>2, <3>2, LookUpSteps
      <4>2. QED
        BY <4>1 DEF Erred, WentUp, WentDown, WentThrough
    <3>3. QED
      BY <3>1, <3>2
  <2>4. k <= j + 1 => k <= j \/ k = j + 1
    OBVIOUS
  <2>5. QED
    BY <1>3, <2>1, <2>3, <2>4
<1> HIDE DEF S
<1>4. Nat \subseteq S
  BY <1>2, <1>3, NatSteps
<1>5. m \in S
  BY <1>4
<1>6. QED
  BY <1>5 DEF S

\* Whatever the kernel passes on a path that exists, it looks something up there, or ends there,
\* or goes up again.
LEMMA PassedIs ==
    ASSUME NEW f, NEW path, NEW w, IsWalk(f, path, Yes, w), NEW p, p = Namei(f, path, Yes), p.error = "none",
           NEW n \in Passed(w)
    PROVE  \/ n \in p.used \cup {At(p)}
           \/ \E k \in 0 .. MaxWalk : ~Ended(w[k]) /\ Head(w[k].rest) = ".." /\ At(w[k]) = n
<1>1. /\ IsFileSystem(f) /\ MaxWalk \in Nat
      /\ \A j \in Nat : w[j + 1] = LookUp(f, w[j], Yes) /\ w[j] \in Positions(f)
  BY WalkSteps
<1>2. PICK k \in Nat : n = At(w[k])
  BY DEF Passed
<1>3. PICK e : e = w[MaxWalk]
  OBVIOUS
<1>4. p = e /\ e.error = "none" /\ e.rest = <<>>
  BY <1>3, NameiIs
<1>5. Ended(e)
  BY <1>4 DEF Ended
<1>6. CASE MaxWalk <= k
  <2>1. w[k] = e
    BY <1>1, <1>3, <1>5, <1>6, WalkStays
  <2>2. QED
    BY <1>2, <1>4, <2>1
<1>7. CASE k <= MaxWalk /\ Ended(w[k])
  <2>1. w[k] = e
    BY <1>1, <1>3, <1>7, WalkStays
  <2>2. QED
    BY <1>2, <1>4, <2>1
<1>8. CASE k < MaxWalk /\ ~Ended(w[k])
  <2>1. PICK u, q : u = w[k] /\ q = w[k + 1]
    OBVIOUS
  <2>2. u \in Positions(f) /\ q = LookUp(f, u, Yes) /\ ~Ended(u) /\ At(u) = n
    BY <1>1, <1>2, <1>8, <2>1
  <2>3. Erred(u, q) \/ WentUp(f, u, q) \/ WentDown(f, u, Yes, q) \/ WentThrough(f, u, Yes, q)
    BY <1>1, <2>2, LookUpSteps
  <2>4. k + 1 \in Nat /\ k + 1 <= MaxWalk /\ k \in 0 .. MaxWalk
    BY <1>1, <1>8
  <2>5. CASE Erred(u, q)
    <3>1. q.error # "none"
      BY <2>5 DEF Erred, Errors
    <3>2. Ended(w[k + 1])
      BY <2>1, <3>1 DEF Ended
    <3>3. q = e
      BY <1>1, <1>3, <2>1, <2>4, <3>2, WalkStays
    <3>4. QED
      BY <1>4, <3>1, <3>3
  <2>6. CASE WentUp(f, u, q)
    <3>1. Head(u.rest) = ".."
      BY <2>6 DEF WentUp
    <3>2. QED
      BY <2>1, <2>2, <2>4, <3>1
  <2>7. CASE WentDown(f, u, Yes, q) \/ WentThrough(f, u, Yes, q)
    <3>1. n \in q.used
      BY <2>2, <2>7 DEF WentDown, WentThrough
    <3>2. q.used \subseteq e.used
      BY <1>1, <1>3, <2>1, <2>4, UsedGrows
    <3>3. QED
      BY <1>4, <3>1, <3>2
  <2>8. QED
    BY <2>3, <2>5, <2>6, <2>7
<1>9. QED
  BY <1>1, <1>6, <1>7, <1>8

\* What a name leads to that the kernel comes by is on the kernel's way, links and all.
Accompanied(w, u, s) == \E m \in Nat : Along(u, w[m], s)

LEMMA FollowPassed ==
    ASSUME NEW f, NEW path, NEW w, IsWalk(f, path, Yes, w), NeverFails(w),
           NEW i \in Nat, ~Ended(w[i]), NEW here, here = Append(w[i].names, Head(w[i].rest)),
           NEW n, n = Follow(f, here), n \notin Errors
    PROVE  n \in Passed(w)
<1>1. /\ IsFileSystem(f) /\ MaxWalk \in Nat
      /\ \A j \in Nat : w[j + 1] = LookUp(f, w[j], Yes) /\ w[j] \in Positions(f)
  BY WalkSteps
<1>2. PICK p, a, x, s : p = w[i] /\ a = p.names /\ x = Head(p.rest) /\ s = Tail(p.rest)
  OBVIOUS
<1>3. /\ Clear(f, p.inodes, a) /\ a \in Seq(Word) /\ Len(a) \in Nat \ {0} /\ p.rest \in Seq(Word) /\ NoRoot(p.rest)
      /\ p \in Positions(f)
  BY <1>2, WalkClear
<1>4. p.rest # <<>> /\ p.error = "none"
  BY <1>2 DEF Ended
<1>5. x \in Word /\ x # "/" /\ s \in Seq(Word) /\ p.rest = <<x>> \o s
  <2>1. PICK b : b = p.rest
    OBVIOUS
  <2>2. b \in Seq(Word) /\ b # <<>> /\ NoRoot(b)
    BY <1>3, <1>4, <2>1
  <2>3. Head(b) \in Word /\ Tail(b) \in Seq(Word) /\ 1 \in DOMAIN b /\ Head(b) = b[1]
    BY <2>2, HeadIs
  <2>4. Head(b) # "/"
    BY <2>2, <2>3 DEF NoRoot
  <2>5. <<Head(b)>> \o Tail(b) = b
    BY <2>2, HeadTailProperties
  <2>6. QED
    BY <1>2, <2>1, <2>3, <2>4, <2>5
<1>6. PICK B : B = <<x>>
  OBVIOUS
<1>7. B \in Seq(Word) /\ NoRoot(B)
  BY <1>5, <1>6 DEF NoRoot
<1>8. here = a \o B /\ IsPath(a \o B)
  <2>1. Append(a, x) = a \o <<x>>
    BY <1>3, <1>5, AppendIsConcat
  <2>2. IsPath(a \o B)
    BY <1>1, <1>3, <1>7, DirectPath DEF Clear
  <2>3. QED
    BY <1>2, <1>6, <2>1, <2>2
<1>9. PICK v : IsWalk(f, a \o B, Yes, v)
  BY <1>1, <1>8 DEF IsWalk
<1>10. \A j \in Nat : v[j + 1] = LookUp(f, v[j], Yes) /\ v[j] \in Positions(f)
  BY <1>9, WalkSteps
<1>11. \A j \in Nat : v[j].error = "none"
  <2>1. EndOf(Namei(f, a \o B, Yes)) \notin Errors
    BY <1>8, YesAndNo
  <2>2. QED
    BY <1>9, <2>1, WalkFails
<1>12. PICK l : l = Len(a) - 1
  OBVIOUS
<1>13. l \in Nat
  BY <1>3, <1>12
<1>14. v[l].inodes = p.inodes /\ v[l].names = a /\ v[l].rest = B
  BY <1>3, <1>7, <1>9, <1>12, DirectWalk
<1> DEFINE Z == {j \in Nat : Accompanied(w, v[l + j], s)}
<1>15. 0 \in Z
  <2>1. Along(v[l], w[i], s)
    BY <1>2, <1>4, <1>5, <1>6, <1>11, <1>13, <1>14 DEF Along
  <2>2. l + 0 = l
    BY <1>13
  <2>3. Accompanied(w, v[l + 0], s)
    BY <2>1, <2>2 DEF Accompanied
  <2>4. QED
    BY <2>3
<1>16. ASSUME NEW j \in Nat, j \in Z PROVE j + 1 \in Z
  <2>1. PICK m \in Nat : Along(v[l + j], w[m], s)
    BY <1>16 DEF Accompanied
  <2>2. l + j \in Nat /\ l + (j + 1) = l + j + 1 /\ l + j + 1 \in Nat /\ m + 1 \in Nat
    BY <1>13
  <2>3. PICK u, y, q, z : u = v[l + j] /\ q = v[l + j + 1] /\ y = w[m] /\ z = w[m + 1]
    OBVIOUS
  <2>4. /\ u \in Positions(f) /\ q = LookUp(f, u, Yes) /\ q.error = "none"
        /\ y \in Positions(f) /\ z = LookUp(f, y, Yes) /\ z.error = "none"
        /\ Along(u, y, s)
    BY <1>1, <1>10, <1>11, <2>1, <2>2, <2>3 DEF NeverFails
  <2>5. CASE Ended(u)
    <3>1. q = u
      BY <2>4, <2>5 DEF LookUp
    <3>2. Accompanied(w, q, s)
      BY <2>3, <2>4, <3>1 DEF Accompanied
    <3>3. QED
      BY <2>2, <2>3, <3>2
  <2>6. CASE ~Ended(u)
    <3>1. Along(q, z, s)
      BY <1>1, <1>5, <2>4, <2>6, AlongStep
    <3>2. Accompanied(w, q, s)
      BY <2>2, <2>3, <3>1 DEF Accompanied
    <3>3. QED
      BY <2>2, <2>3, <3>2
  <2>7. QED
    BY <2>5, <2>6
<1> HIDE DEF Z
<1>17. Nat \subseteq Z
  BY <1>15, <1>16, NatSteps
<1>18. n = At(v[MaxWalk]) /\ Ended(v[MaxWalk])
  <2>1. n = EndOf(Namei(f, a \o B, Yes))
    BY <1>8, YesAndNo
  <2>2. PICK q, e : q = Namei(f, a \o B, Yes) /\ e = v[MaxWalk]
    OBVIOUS
  <2>3. /\ q.error # "none" => EndOf(q) \in Errors
        /\ q.error = "none" => e.error = "none" /\ e.rest = <<>> /\ EndOf(q) = At(e)
    BY <1>9, <2>2, NameiIs
  <2>4. EndOf(q) = At(e) /\ e.rest = <<>>
    BY <2>1, <2>2, <2>3
  <2>5. QED
    BY <2>1, <2>2, <2>4 DEF Ended
<1>19. l <= MaxWalk
  <2>1. SUFFICES ASSUME MaxWalk <= l PROVE FALSE \/ l <= MaxWalk
    BY <1>1, <1>13
  <2>2. v[l] = v[MaxWalk]
    BY <1>1, <1>9, <1>13, <1>18, <2>1, WalkStays
  <2>3. v[l].rest # <<>> /\ v[l].error = "none"
    BY <1>6, <1>11, <1>13, <1>14
  <2>4. QED
    BY <1>18, <2>2, <2>3 DEF Ended
<1>20. PICK j : j = MaxWalk - l
  OBVIOUS
<1>21. j \in Nat /\ l + j = MaxWalk
  BY <1>1, <1>13, <1>19, <1>20
<1>22. PICK m \in Nat : Along(v[MaxWalk], w[m], s)
  <2>1. j \in Z
    BY <1>17, <1>21
  <2>2. QED
    BY <1>21, <2>1 DEF Z, Accompanied
<1>23. n = At(w[m])
  BY <1>18, <1>22 DEF Along, At
<1>24. QED
  BY <1>23 DEF Passed

\* What the chain may have seen of a path that exists: on the kernel's way, or a link it follows.
Met(f, w, q) == /\ Lstat(f, q) \in Node
                /\ f[Lstat(f, q)].kind # "link" => Lstat(f, q) \in Passed(w)
                /\ Follow(f, q) \notin Errors => Follow(f, q) \in Passed(w)
AllMet(f, w, seen) == \A q \in seen : IsPath(q) /\ Met(f, w, q)

LEMMA MetHere ==
    ASSUME NEW f, NEW path, NEW w, IsWalk(f, path, Yes, w), NeverFails(w), NEW i \in Nat, NEW p, p = w[i],
           NEW c \in Chains, c.rest # <<>>, Head(c.rest) # "..", Beside(f, c, p),
           NEW n, n = Lstat(f, Here(c)), n \in Node
    PROVE  IsPath(Here(c)) /\ Met(f, w, Here(c))
<1>1. /\ IsFileSystem(f) /\ Stands(f, p) /\ Clear(f, p.inodes, p.names) /\ p \in Positions(f)
      /\ w[i + 1] = LookUp(f, p, Yes)
  <2>1. IsFileSystem(f)
    BY WalkSteps
  <2>2. QED
    BY <2>1, WalkClear DEF Stands
<1>2. /\ p.names \in Seq(Word) /\ Len(p.names) \in Nat \ {0} /\ Len(p.inodes) = Len(p.names)
      /\ p.rest \in Seq(Word) /\ NoRoot(p.rest)
  BY <1>1, StandsAt
<1>3. PICK here : here = Here(c)
  OBVIOUS
<1>4. IsPath(here) /\ c.cur \in Seq(Word) /\ Len(c.cur) \in Nat
  <2>1. Split(c.cur, c.rest)
    BY DEF Chains
  <2>2. IsPath(Append(c.cur, Head(c.rest))) /\ c.cur \in Seq(Word)
    BY <2>1, SplitParts
  <2>3. QED
    BY <1>3, <2>2, LenProperties DEF Here
<1>5. n \notin Errors
  BY <1>1, NodeTypes
<1>6. ASSUME f[n].kind # "link", n \in Passed(w) PROVE Met(f, w, here)
  <2>1. Follow(f, here) = n
    BY <1>1, <1>3, <1>4, <1>5, <1>6, FollowIs
  <2>2. QED
    BY <1>3, <1>6, <2>1 DEF Met
<1>7. Splits(c.cur, c.rest, p.names, p.rest)
  BY DEF Beside
<1>8. CASE Len(c.cur) < Len(p.names)
  <2>1. PICK m : m = Len(c.cur)
    OBVIOUS
  <2>2. /\ \A j \in 1 .. m : c.cur[j] = p.names[j]
        /\ Head(c.rest) = p.names[m + 1]
    BY <1>7, <1>8, <2>1, TwoSplits
  <2>3. m \in Nat /\ m < Len(p.names) /\ m + 1 \in 1 .. Len(p.inodes)
    BY <1>2, <1>4, <1>8, <2>1
  <2>4. n = Lstat(f, Append(c.cur, p.names[m + 1]))
    BY <2>2 DEF Here
  <2>5. n = p.inodes[m + 1]
    <3>1. PICK a, b, g : a = p.inodes /\ b = p.names /\ g = c.cur
      OBVIOUS
    <3>2. /\ Clear(f, a, b) /\ g \in Seq(Word) /\ m = Len(g) /\ m < Len(b) /\ m \in Nat
          /\ (\A j \in 1 .. m : g[j] = b[j]) /\ n = Lstat(f, Append(g, b[m + 1]))
      BY <1>1, <1>4, <2>1, <2>2, <2>3, <2>4, <3>1
    <3>3. n \in Errors \/ n = a[m + 1]
      <4>1. IsFileSystem(f)
        BY <1>1
      <4>2. QED
        BY <3>2, <4>1, PrefixLstat
    <3>4. QED
      BY <1>5, <3>1, <3>3
  <2>6. f[n].kind # "link"
    BY <1>1, <2>3, <2>5 DEF Clear
  <2>7. n \in Passed(w)
    <3>1. AllPassed(p.inodes, w)
      BY InodesPassed
    <3>2. QED
      BY <2>3, <2>5, <3>1 DEF AllPassed
  <2>8. QED
    BY <1>3, <1>4, <1>6, <2>6, <2>7
<1>9. CASE Len(c.cur) = Len(p.names)
  <2>1. c.cur = p.names /\ c.rest = p.rest
    BY <1>7, <1>9, TwoSplits
  <2>2. PICK x, d : x = Head(p.rest) /\ d = At(p)
    OBVIOUS
  <2>3. here = Append(p.names, x) /\ n = Lstat(f, Append(p.names, x)) /\ x # ".." /\ p.rest # <<>>
    BY <1>3, <2>1, <2>2 DEF Here
  <2>4. ~Ended(p)
    BY <2>3 DEF NeverFails, Ended
  <2>5. x \in Name
    BY <1>2, <2>2, <2>3, NoRootKept
  <2>6. n = Entry(f, p)
    <3>1. PICK a, b : a = p.inodes /\ b = p.names
      OBVIOUS
    <3>2. Clear(f, a, b) /\ d = a[Len(a)] /\ n = Lstat(f, Append(b, x))
      BY <1>1, <2>2, <2>3, <3>1 DEF At
    <3>3. HeadsTo(f, d, x, n)
      BY <1>1, <2>5, <3>2, LstatIs
    <3>4. QED
      BY <1>5, <2>2, <3>3 DEF HeadsTo, Entry
  <2>7. CASE f[n].kind # "link"
    <3>1. PICK q : q = w[i + 1]
      OBVIOUS
    <3>2. q = LookUp(f, p, Yes) /\ q.error = "none"
      BY <1>1, <3>1 DEF NeverFails
    <3>3. ~Erred(p, q) /\ ~WentUp(f, p, q) /\ ~WentThrough(f, p, Yes, q)
      BY <2>2, <2>3, <2>6, <2>7, <3>2 DEF Erred, WentUp, WentThrough, LooksThrough, Errors
    <3>4. WentDown(f, p, Yes, q)
      BY <1>1, <2>4, <3>2, <3>3, LookUpSteps
    <3>5. q.inodes = Append(p.inodes, n) /\ p.inodes \in Seq(Node)
      BY <1>1, <2>6, <3>4, AtIs DEF WentDown
    <3>6. At(q) = n
      BY <3>5, AppendProperties DEF At
    <3>7. n \in Passed(w)
      BY <3>1, <3>6 DEF Passed
    <3>8. QED
      BY <1>3, <1>4, <1>6, <2>7, <3>7
  <2>8. CASE f[n].kind = "link"
    <3>1. here = Append(w[i].names, Head(w[i].rest)) /\ ~Ended(w[i])
      BY <2>2, <2>3, <2>4
    <3>2. Follow(f, here) \notin Errors => Follow(f, here) \in Passed(w)
      BY <3>1, FollowPassed
    <3>3. QED
      BY <1>3, <1>4, <2>8, <3>2 DEF Met
  <2>9. QED
    BY <2>7, <2>8
<1>10. Len(c.cur) <= Len(p.names)
  BY <1>7 DEF Splits
<1>11. QED
  BY <1>2, <1>4, <1>8, <1>9, <1>10

\* Up to where it gives up, the chain sees nothing that is not on the kernel's way.
LEMMA ChainMeets ==
    ASSUME NEW f, NEW path, NEW w, IsWalk(f, path, Yes, w), NeverFails(w)
    PROVE  AllMet(f, w, ResolutionChain(f, path).seen)
<1>1. PICK t : t = Trail(f, path)
  OBVIOUS
<1>2. IsFileSystem(f) /\ IsPath(path) /\ MaxWalk \in Nat
  BY WalkSteps
<1>3. /\ t[0] = Begin(path) /\ \A k \in Nat : t[k] \in Chains /\ t[k + 1] = Advance(f, t[k])
      /\ \A k \in Nat : Follows(f, t[k], w)
  BY <1>1, <1>2, TrailIs, ChainFollows
<1> DEFINE Sound(c) == AllMet(f, w, c.seen) /\ (c.complete \/ c.rest = <<>>)
           S == {k \in Nat : Sound(t[k])}
<1>4. 0 \in S
  <2>1. Sound(t[0])
    BY <1>3 DEF Begin, AllMet
  <2>2. QED
    BY <2>1
<1>5. ASSUME NEW k \in Nat, k \in S PROVE k + 1 \in S
  <2>1. PICK c, e : c = t[k] /\ e = t[k + 1]
    OBVIOUS
  <2>2. c \in Chains /\ e = Advance(f, c) /\ Follows(f, c, w) /\ AllMet(f, w, c.seen) /\ (c.complete \/ c.rest = <<>>)
    BY <1>3, <1>5, <2>1
  <2>3. CASE c.rest = <<>>
    <3>1. e = c
      BY <2>2, <2>3 DEF Advance
    <3>2. Sound(e)
      BY <2>2, <3>1
    <3>3. QED
      BY <2>1, <3>2
  <2>4. CASE c.rest # <<>>
    <3>1. c.complete
      BY <2>2, <2>4
    <3>2. PICK i \in Nat : Abreast(f, c, w, i)
      BY <2>2, <3>1 DEF Follows
    <3>3. Beside(f, c, w[i])
      BY <3>2 DEF Abreast, NeverFails
    <3>4. GoesBack(c, e) \/ GaveUp(f, c, e) \/ Proceeds(f, c, e) \/ Restarts(f, c, e)
      BY <1>2, <2>2, <2>4, AdvanceSteps
    <3>5. e.complete \/ e.rest = <<>>
      BY <3>1, <3>4 DEF GoesBack, GaveUp, Proceeds, Restarts
    <3>6. \/ e.seen = c.seen
          \/ e.seen = c.seen \cup {Here(c)} /\ Head(c.rest) # ".." /\ Lstat(f, Here(c)) \in Node
      BY <3>4 DEF GoesBack, GaveUp, Proceeds, Restarts
    <3>7. ASSUME Head(c.rest) # "..", Lstat(f, Here(c)) \in Node PROVE IsPath(Here(c)) /\ Met(f, w, Here(c))
      BY <2>2, <2>4, <3>3, <3>7, MetHere
    <3>8. AllMet(f, w, e.seen)
      BY <2>2, <3>6, <3>7 DEF AllMet
    <3>9. Sound(e)
      BY <3>5, <3>8
    <3>10. QED
      BY <2>1, <3>9
  <2>5. QED
    BY <2>3, <2>4
<1> HIDE DEF S
<1>6. Nat \subseteq S
  BY <1>4, <1>5, NatSteps
<1>7. AllMet(f, w, t[MaxWalk].seen)
  BY <1>2, <1>6 DEF S
<1>8. QED
  BY <1>1, <1>7 DEF ResolutionChain

\* The path without links passes nothing that the path with links does not.
LEMMA CanonicalPasses ==
    ASSUME NEW f, NEW path, NEW w, IsWalk(f, path, Yes, w), NEW b, b = Canonical(f, path),
           Follow(f, path) \notin Errors
    PROVE  IsPath(b) /\ \E v : IsWalk(f, b, Yes, v) /\ NeverFails(v) /\ Passed(v) \subseteq Passed(w)
<1>1. IsFileSystem(f) /\ MaxWalk \in Nat
  BY WalkSteps
<1>2. PICK e, a : e = w[MaxWalk] /\ a = e.inodes
  OBVIOUS
<1>3. b = e.names
  <2>1. b = Namei(f, path, Yes).names
    BY YesAndNo
  <2>2. PICK p : p = Namei(f, path, Yes)
    OBVIOUS
  <2>3. p.names = e.names
    BY <1>2, <2>2, NameiIs
  <2>4. QED
    BY <2>1, <2>2, <2>3
<1>4. Clear(f, a, b) /\ b \in Seq(Word) /\ Len(b) \in Nat \ {0} /\ Len(a) = Len(b)
  BY <1>1, <1>2, <1>3, WalkClear
<1>5. PICK B : B = <<>>
  OBVIOUS
<1>6. B \in Seq(Word) /\ NoRoot(B)
  BY <1>5, EmptySeq DEF NoRoot
<1>7. IsPath(b)
  BY <1>1, <1>4, <1>6, DirectPath DEF Clear
<1>8. PICK v : IsWalk(f, b, Yes, v)
  BY <1>1, <1>7 DEF IsWalk
<1>9. PICK l : l = Len(b) - 1
  OBVIOUS
<1>10. l \in Nat /\ \A k \in 0 .. l : k + 1 \in 1 .. Len(a)
  BY <1>4, <1>9
<1>11. /\ \A k \in 0 .. l : At(v[k]) = a[k + 1] /\ v[k].error = "none"
       /\ v[l].rest = B
  <2>1. IsWalk(f, b \o B, Yes, v)
    <3>1. b \o B = b
      BY <1>4, <1>5, ConcatEmptySeq
    <3>2. QED
      BY <1>8, <3>1
  <2>2. \A k \in 0 .. Len(b) - 1 : At(v[k]) = a[k + 1] /\ v[k].error = "none"
    BY <1>4, <1>6, <2>1, DirectWalk
  <2>3. v[Len(b) - 1].rest = B
    BY <1>4, <1>6, <2>1, DirectWalk
  <2>4. QED
    BY <1>9, <2>2, <2>3
<1>12. AllPassed(a, w)
  BY <1>1, <1>2, InodesPassed
<1>13. ASSUME NEW k \in Nat PROVE v[k].error = "none" /\ At(v[k]) \in Passed(w)
  <2>1. ASSUME NEW j \in 0 .. l PROVE v[j].error = "none" /\ At(v[j]) \in Passed(w)
    BY <1>10, <1>11, <1>12 DEF AllPassed
  <2>2. CASE k <= l
    <3>1. k \in 0 .. l
      BY <1>10, <2>2
    <3>2. QED
      BY <2>1, <3>1
  <2>3. CASE l <= k
    <3>1. Ended(v[l])
      BY <1>5, <1>11 DEF Ended
    <3>2. v[k] = v[l]
      BY <1>8, <1>10, <2>3, <3>1, WalkStays
    <3>3. l \in 0 .. l
      BY <1>10
    <3>4. QED
      BY <2>1, <3>2, <3>3
  <2>4. QED
    BY <1>10, <2>2, <2>3
<1>14. NeverFails(v) /\ Passed(v) \subseteq Passed(w)
  BY <1>13 DEF NeverFails, Passed
<1>15. QED
  BY <1>7, <1>8, <1>14

LEMMA StillMet ==
    ASSUME NEW f, NEW v, NEW w, Passed(v) \subseteq Passed(w), NEW seen, AllMet(f, v, seen)
    PROVE  AllMet(f, w, seen)
BY DEF AllMet, Met

LEMMA AllChainMeets ==
    ASSUME NEW f, NEW path, NEW w, IsWalk(f, path, Yes, w), NeverFails(w)
    PROVE  AllMet(f, w, Chain(f, path).seen)
<1> DEFINE end == Follow(f, path)
           seeds == {path} \cup (IF end \in Errors THEN {} ELSE {Canonical(f, path)})
           walks == {ResolutionChain(f, seed) : seed \in seeds}
<1>1. Chain(f, path).seen = UNION {r.seen : r \in walks}
  BY DEF Chain
<1>2. ASSUME NEW seed \in seeds PROVE AllMet(f, w, ResolutionChain(f, seed).seen)
  <2>1. CASE seed = path
    BY <2>1, ChainMeets
  <2>2. CASE end \notin Errors /\ seed = Canonical(f, path)
    <3>1. PICK v : IsWalk(f, seed, Yes, v) /\ NeverFails(v) /\ Passed(v) \subseteq Passed(w)
      BY <2>2, CanonicalPasses
    <3>2. AllMet(f, v, ResolutionChain(f, seed).seen)
      BY <3>1, ChainMeets
    <3>3. QED
      BY <3>1, <3>2, StillMet
  <2>3. QED
    BY <2>1, <2>2
<1> HIDE DEF seeds
<1>3. \A r \in walks : AllMet(f, w, r.seen)
  BY <1>2
<1> HIDE DEF walks
<1>4. QED
  BY <1>1, <1>3 DEF AllMet

\* What excuses the weak verdict, or earns it.
Earned == \/ Replaceable
          \/ \E p \in Chain(fs, CurrentExe).seen : OwnedLink(p)
          \/ \E n \in LeftAgain : Power(n)

LEMMA WeakVerdict ==
    ASSUME TypeInv, Runs = "sscsb", Guarantee = "user-writable"
    PROVE  Earned
<1>1. IsFileSystem(fs) /\ IsPath(Invocation) /\ MaxWalk \in Nat
  BY SkillAssumption DEF TypeInv
<1>2. Follow(fs, Invocation) \notin Errors
  BY DEF Runs
<1>3. PICK w : w = Walk(fs, Invocation, Yes)
  OBVIOUS
<1>4. IsWalk(fs, Invocation, Yes, w)
  BY <1>1, <1>3 DEF IsWalk
<1>5. NeverFails(w)
  <2>1. EndOf(Namei(fs, Invocation, Yes)) \notin Errors
    BY <1>2, YesAndNo
  <2>2. QED
    BY <1>4, <2>1, WalkFails DEF NeverFails
<1>6. PICK exe : exe = CurrentExe
  OBVIOUS
<1>7. AllMet(fs, w, Chain(fs, exe).seen)
  <2>1. CASE exe = Invocation
    BY <1>4, <1>5, <2>1, AllChainMeets
  <2>2. CASE exe = Canonical(fs, Invocation)
    <3>1. PICK v : IsWalk(fs, exe, Yes, v) /\ NeverFails(v) /\ Passed(v) \subseteq Passed(w)
      BY <1>2, <1>4, <2>2, CanonicalPasses
    <3>2. AllMet(fs, v, Chain(fs, exe).seen)
      BY <3>1, AllChainMeets
    <3>3. QED
      BY <3>1, <3>2, StillMet
  <2>3. exe = Invocation \/ exe = Canonical(fs, Invocation)
    BY <1>6 DEF CurrentExe
  <2>4. QED
    BY <2>1, <2>2, <2>3
<1>8. PICK q \in Chain(fs, exe).seen : UserCanReplace(fs, q)
  <2>1. \E q \in Chain(fs, exe).seen : UserCanReplace(fs, q)
    BY <1>6 DEF Guarantee
  <2>2. QED
    BY <2>1
<1>9. Met(fs, w, q)
  BY <1>7 DEF AllMet
<1>10. ASSUME NEW n \in Passed(w), Power(n) PROVE Earned
  <2>1. PICK p : p = Namei(fs, Invocation, Yes)
    OBVIOUS
  <2>2. p.error = "none"
    <3>1. EndOf(p) \notin Errors
      BY <1>2, <2>1, YesAndNo
    <3>2. p.error # "none" => EndOf(p) \in Errors
      BY <1>4, <2>1, NameiIs
    <3>3. QED
      BY <3>1, <3>2
  <2>3. \/ n \in p.used \cup {At(p)}
        \/ \E k \in 0 .. MaxWalk : ~Ended(w[k]) /\ Head(w[k].rest) = ".." /\ At(w[k]) = n
    BY <1>4, <2>1, <2>2, PassedIs
  <2>4. CASE n \in p.used \cup {At(p)}
    <3>1. Replaceable
      BY <1>10, <2>1, <2>4 DEF Replaceable, Yes
    <3>2. QED
      BY <3>1 DEF Earned
  <2>5. CASE \E k \in 0 .. MaxWalk : ~Ended(w[k]) /\ Head(w[k].rest) = ".." /\ At(w[k]) = n
    <3>1. n \in LeftAgain
      BY <1>3, <2>5 DEF LeftAgain, Yes
    <3>2. QED
      BY <1>10, <3>1 DEF Earned
  <2>6. QED
    BY <2>3, <2>4, <2>5
<1>11. CASE WritableByThisUser(fs, q) = "yes"
  <2>1. PICK n : n = Follow(fs, q)
    OBVIOUS
  <2>2. n \notin Errors /\ Answer(fs[n].writable) = "yes"
    BY <1>11, <2>1 DEF WritableByThisUser
  <2>3. n \in Passed(w)
    BY <1>9, <2>1, <2>2 DEF Met
  <2>4. Power(n)
    BY <2>2 DEF Answer, Power
  <2>5. QED
    BY <1>10, <2>3, <2>4
<1>12. CASE OwnedByThisUser(fs, q) = "yes"
  <2>1. PICK n : n = Lstat(fs, q)
    OBVIOUS
  <2>2. Answer(fs[n].owner = "user") = "yes"
    BY <1>12, <2>1 DEF OwnedByThisUser
  <2>3. CASE fs[n].kind = "link"
    <3>1. OwnedLink(q)
      BY <1>12, <2>1, <2>3 DEF OwnedLink
    <3>2. QED
      BY <1>6, <3>1 DEF Earned
  <2>4. CASE fs[n].kind # "link"
    <3>1. n \in Passed(w)
      BY <1>9, <2>1, <2>4 DEF Met
    <3>2. Power(n)
      BY <2>2 DEF Answer, Power
    <3>3. QED
      BY <1>10, <3>1, <3>2
  <2>5. QED
    BY <2>3, <2>4
<1>13. QED
  BY <1>8, <1>11, <1>12 DEF UserCanReplace

\* Undisturbed, a check tells what it would still find.
Current == run.at \in {"read", "decide"} /\ run.undisturbed => run.trust = Guarantee
WeakInv == TypeInv /\ Current

LEMMA GuaranteeStays ==
    ASSUME UNCHANGED <<fs, platform>>
    PROVE  Guarantee' = Guarantee
BY DEF Guarantee, CurrentExe

LEMMA WeakSteps ==
    ASSUME WeakInv, [Next]_vars
    PROVE  WeakInv'
<1>1. TypeInv /\ TypeInv' /\ run \in RunType /\ Current
  BY NextSound DEF WeakInv, TypeInv
<1>2. SUFFICES ASSUME run'.at \in {"read", "decide"}, run'.undisturbed PROVE run'.trust = Guarantee'
  BY <1>1 DEF WeakInv, Current
<1>3. ASSUME NEW command, NEW force, NEW dry, Start(command, force, dry) PROVE FALSE
  BY <1>2, <1>3 DEF Start, Idle
<1>4. ASSUME Look PROVE run'.trust = Guarantee'
  <2>1. PICK g : g = Guarantee
    OBVIOUS
  <2>2. UNCHANGED <<fs, platform>> /\ (run'.trust = g \/ run' = Idle)
    BY <1>1, <1>4, <2>1 DEF Look, RunType
  <2>3. Guarantee' = g
    BY <2>1, <2>2, GuaranteeStays
  <2>4. QED
    BY <1>2, <2>2, <2>3, IdleIs
<1>5. ASSUME Compare PROVE run'.trust = Guarantee'
  <2>1. run' = Idle \/ \E s \in {"identical", "differs"} : run' = [run EXCEPT !.at = "decide", !.state = s]
    BY <1>5 DEF Compare
  <2>2. run.at = "read" /\ UNCHANGED <<fs, platform>>
    BY <1>5 DEF Compare
  <2>3. run'.undisturbed = run.undisturbed /\ run'.trust = run.trust
    BY <1>1, <1>2, <2>1, IdleIs DEF RunType
  <2>4. QED
    BY <1>1, <1>2, <2>2, <2>3, GuaranteeStays DEF Current
<1>6. ASSUME Decide PROVE FALSE
  <2>1. run' \in {Idle, [run EXCEPT !.at = "make directory", !.level = Len(SkillPath) - 1]}
    BY <1>6 DEF Decide
  <2>2. run'.at \in {"idle", "make directory"}
    BY <1>1, <2>1, IdleIs DEF RunType
  <2>3. QED
    BY <1>2, <2>2
<1>7. ASSUME MakeDirectory PROVE FALSE
  <2>1. run.at = "make directory"
        /\ run' \in {Idle, [run EXCEPT !.at = "truncate"], [run EXCEPT !.level = @ + 1, !.down = TRUE],
                     [run EXCEPT !.level = @ - 1]}
    BY <1>7 DEF MakeDirectory
  <2>2. run'.at \in {"idle", "make directory", "truncate"}
    BY <1>1, <2>1, IdleIs DEF RunType
  <2>3. QED
    BY <1>2, <2>2
<1>8. ASSUME Truncate PROVE FALSE
  <2>1. run' = Idle \/ \E o : run' = [run EXCEPT !.at = "fill", !.opened = o]
    BY <1>8 DEF Truncate
  <2>2. run'.at \in {"idle", "fill"}
    BY <1>1, <2>1, IdleIs DEF RunType
  <2>3. QED
    BY <1>2, <2>2
<1>9. ASSUME Fill \/ Die PROVE FALSE
  BY <1>2, <1>9, IdleIs DEF Fill, Die
<1>10. ASSUME User PROVE FALSE
  <2>1. run' = [run EXCEPT !.undisturbed = run.at = "idle"]
    BY <1>10 DEF User, Chmod, Save, Remove, Create, Act
  <2>2. run'.at = run.at /\ run'.undisturbed = (run.at = "idle")
    BY <1>1, <2>1 DEF RunType
  <2>3. QED
    BY <1>2, <2>2
<1>11. ASSUME UNCHANGED vars PROVE run'.trust = Guarantee'
  <2>1. UNCHANGED <<fs, platform>> /\ UNCHANGED run
    BY <1>11 DEF vars
  <2>2. QED
    BY <1>1, <1>2, <2>1, GuaranteeStays DEF Current
<1>12. QED
  BY <1>3, <1>4, <1>5, <1>6, <1>7, <1>8, <1>9, <1>10, <1>11 DEF Next

\* The weak verdict is true as well: where sscsb says that its binary can be replaced, somebody
\* with the powers of the user can do so, but for the two things it counts without need.
THEOREM WeakHolds == Spec => []WeakIsEarned
<1>1. Init => WeakInv
  <2>1. Init => TypeInv /\ run.at = "idle"
    BY InitType, IdleType DEF Init
  <2>2. QED
    BY <2>1 DEF WeakInv, Current
<1>2. WeakInv /\ [Next]_vars => WeakInv'
  BY WeakSteps
<1>3. WeakInv => WeakIsEarned
  <2>1. ASSUME WeakInv, Runs = "sscsb", run.at = "decide", run.undisturbed, run.trust = "user-writable" PROVE Earned
    <3>1. TypeInv /\ Guarantee = "user-writable"
      BY <2>1 DEF WeakInv, Current
    <3>2. QED
      BY <2>1, <3>1, WeakVerdict
  <2>2. QED
    BY <2>1 DEF WeakIsEarned, Earned
<1>4. QED
  BY <1>1, <1>2, <1>3, PTL DEF Spec
=============================================================================
