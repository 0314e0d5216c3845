---------------------------- MODULE SignerPolicy ----------------------------
(***************************************************************************)
(* .sscsb/policy/signers.toml and what the tool derives from it: which     *)
(* files parse, which keys reach the generated allowed_signers file and    *)
(* for which signature namespaces, what git then says of a signature, and  *)
(* which signer the protected-branch gate resolves it to.                  *)
(*                                                                         *)
(* A policy file is the sequence of its [[signer]] tables, in file order:  *)
(* the order matters, git and the gate both take the first match.          *)
(***************************************************************************)
EXTENDS Naturals, Sequences

CONSTANTS
    Principal,      \* the `principal` strings
    Lower,          \* Lower[p]: p.to_ascii_lowercase()
    SshKey,         \* key material a signer may register as ssh_public_key
    GpgKey,         \* ... or as gpg_fingerprint
    GpgUid,         \* GpgUid[k]: what git's %GS prints for a good gpg signature
    NoKey,
    NoPrincipal

ASSUME PrincipalAssumption ==
    /\ Lower \in [Principal -> Principal]
    /\ \A p \in Principal : Lower[Lower[p]] = Lower[p]
    /\ NoPrincipal \notin Principal

ASSUME KeyAssumption ==
    /\ SshKey \cap GpgKey = {}
    /\ NoKey \notin SshKey \cup GpgKey

Key == SshKey \cup GpgKey

Class == {"human", "ci", "ai"}

\* "other" stands for every value of `class` that parse_signers refuses.
Entry == [principal : Principal,
          ssh       : SshKey \cup {NoKey},
          gpg       : GpgKey \cup {NoKey},
          class     : Class \cup {"other"},
          hw        : BOOLEAN]

KeysOf(e) == {e.ssh, e.gpg} \ {NoKey}

(***************************************************************************)
(* parse_signers: one principal (up to case) is one signer, one key is one *)
(* signer, and the class is one of three. Anything else refuses the file.  *)
(***************************************************************************)
UniquePrincipals(f) ==
    \A i, j \in DOMAIN f : i # j => Lower[f[i].principal] # Lower[f[j].principal]

UniqueKeysPerClass(f) ==            \* mutant: duplicates are looked for within a class
    \A i, j \in DOMAIN f : (i # j /\ f[i].class = f[j].class) => KeysOf(f[i]) \cap KeysOf(f[j]) = {}

UniqueKeys(f) ==
    \A i, j \in DOMAIN f : i # j => KeysOf(f[i]) \cap KeysOf(f[j]) = {}

Parses(f) ==
    /\ UniquePrincipals(f)
    /\ UniqueKeys(f)
    /\ \A i \in DOMAIN f : f[i].class \in Class

(***************************************************************************)
(* allowed_signers: the lines that are emitted, and their namespaces.      *)
(***************************************************************************)
ScanNamespace == "sscsb-scan-record"

Emitted(f, agents) ==
    {i \in DOMAIN f : f[i].ssh # NoKey /\ (f[i].class = "ai" => agents)}

Namespaces(e) == IF e.class = "human" THEN {"git", ScanNamespace} ELSE {"git"}

\* The first of a set of line numbers; 0 when there is none.
First(S) == IF S = {} THEN 0 ELSE CHOOSE i \in S : \A j \in S : i <= j

\* The line ssh-keygen settles on for key k under namespace ns.
AnchorLine(f, agents, k, ns) ==
    First({i \in Emitted(f, agents) : f[i].ssh = k /\ ns \in Namespaces(f[i])})

(***************************************************************************)
(* What git reports of a signature, sig.state saying whether there is one  *)
(* and whether it is intact: %G?, and %GS when it is "G".                  *)
(***************************************************************************)
Signature == [state : {"none", "bad", "intact"}, key : Key]

GitStatus(f, agents, sig) ==
    CASE sig.state = "none" -> "N"
      [] sig.state = "bad"  -> "B"
      [] OTHER -> IF sig.key \in GpgKey \/ AnchorLine(f, agents, sig.key, "git") # 0
                  THEN "G" ELSE "U"

GitSigner(f, agents, sig) ==
    IF sig.key \in GpgKey THEN GpgUid[sig.key]
    ELSE f[AnchorLine(f, agents, sig.key, "git")].principal

\* The signer a good signature belongs to: by principal, else by gpg key id.
MatchedSigner(f, agents, sig) ==
    First({i \in DOMAIN f : \/ f[i].principal = GitSigner(f, agents, sig)
                            \/ sig.key \in GpgKey /\ f[i].gpg = sig.key})

(***************************************************************************)
(* The class gate of check_signing_for_range: no problem for this commit.  *)
(***************************************************************************)
SignedByHuman(f, agents, requireHw, sig) ==
    /\ GitStatus(f, agents, sig) = "G"
    /\ LET m == MatchedSigner(f, agents, sig)
       IN  /\ m # 0
           /\ f[m].class = "human"
           /\ requireHw => f[m].hw

(***************************************************************************)
(* Review evidence of a merge: the reviewer named by the trailer is an     *)
(* approved human and did not author the merged work. NoPrincipal stands   *)
(* for a trailer that is missing, carries no identity, or comes with a     *)
(* malformed Review-evidence value.                                        *)
(***************************************************************************)
ReviewEvidence(f, reviewer, authors) ==
    /\ reviewer # NoPrincipal
    /\ LET m == First({i \in DOMAIN f : Lower[f[i].principal] = Lower[reviewer]})
       IN  /\ m # 0
           /\ f[m].class = "human"
           /\ \A a \in authors : Lower[a] # Lower[reviewer]

=============================================================================
