------------------------------- MODULE History -------------------------------
(***************************************************************************)
(* The commits of a repository and how they hang together (git's, not the  *)
(* tool's): a constant graph, of which the state machines use parts.       *)
(***************************************************************************)
EXTENDS Naturals, Sequences, FiniteSets

CONSTANTS
    Commit,
    NoCommit,       \* git's all-zero object name
    Parents,        \* Parents[c]: the sequence of c's parents, first parent first
    Anc,            \* Anc[c]: the commits reachable from c, c included
    SignatureOf     \* SignatureOf[c]: the signature on c

ASSUME GraphAssumption ==
    /\ IsFiniteSet(Commit)
    /\ Parents \in [Commit -> Seq(Commit)]
    /\ Anc \in [Commit -> SUBSET Commit]
    /\ \A c \in Commit :
         Anc[c] = {c} \cup UNION {Anc[Parents[c][i]] : i \in DOMAIN Parents[c]}
    /\ \A c \in Commit : \A d \in Anc[c] : Anc[d] \subseteq Anc[c]
    /\ \A c \in Commit : \A i \in DOMAIN Parents[c] : c \notin Anc[Parents[c][i]]
    /\ NoCommit \notin Commit

Tip == Commit \cup {NoCommit}

Reach(c) == IF c = NoCommit THEN {} ELSE Anc[c]

IsMerge(c) == Len(Parents[c]) > 1

ParentSet(c) == {Parents[c][i] : i \in DOMAIN Parents[c]}
=============================================================================
