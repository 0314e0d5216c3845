----------------------------- MODULE GateProofs -----------------------------
(***************************************************************************)
(* Proofs about the two gates a push meets. PushGate: its types, that a    *)
(* protected branch carries nothing the gate did not vouch for, that no    *)
(* range leaves a secret out, and that a push discards only what its clone *)
(* has seen. PolicyGate: which edits of a range a green run has looked at, *)
(* and that the pushes leave no commit of the default branch out, in any   *)
(* history.                                                                *)
(***************************************************************************)
EXTENDS PushGate, PolicyGate, FiniteSetTheorems, WellFoundedInduction, TLAPS

(***************************************************************************)
(* The pre-push gate.                                                      *)
(***************************************************************************)
LEMMA ReachInCommit ==
    ASSUME NEW c \in Tip
    PROVE  Reach(c) \subseteq Commit
BY GraphAssumption DEF Reach, Tip

LEMMA BaseInCommit == BaseHistory \subseteq Commit
BY ReachInCommit, EnvironmentAssumption DEF BaseHistory, Tip

LEMMA NoUpdateTyped == NoUpdate \in Update
BY DEF NoUpdate, Update, Tip

\* The updates a push asks for are updates, and what the hook notes down of
\* them are commits.
LEMMA PushTyped ==
    ASSUME TypeOK, NEW w \in Clone, NEW targets \in Targets(w), NEW b \in DOMAIN targets,
           NEW u, u = [old |-> remote[b], new |-> targets[b]], NEW cfg, NEW scan
    PROVE  /\ b \in Branch
           /\ u \in Update
           /\ Checked(w, b, u, cfg) \subseteq Commit
           /\ Unchecked(b, u, cfg) \subseteq Commit
           /\ UnscannedBy(w, u, cfg, scan) \subseteq Commit
<1>1. b \in Branch /\ targets[b] \in Tip
  BY DEF Targets, TypeOK, Tip
<1>2. u \in Update
  BY <1>1 DEF TypeOK, Update
<1>3. ~IsDeletion(u) => Anc[u.new] \subseteq Commit
  BY <1>1, GraphAssumption DEF IsDeletion, Tip
<1>4. QED
  BY <1>1, <1>2, <1>3 DEF Checked, Unchecked, UnscannedBy, CommitsInRange

LEMMA NextTyped == TypeOK /\ [Next]_vars => TypeOK'
<1> SUFFICES ASSUME TypeOK, [Next]_vars PROVE TypeOK'
  OBVIOUS
<1>1. ASSUME NEW w \in Clone, NEW c \in Commit, CommitLocally(w, c) PROVE TypeOK'
  BY <1>1 DEF CommitLocally, TypeOK
<1>2. ASSUME NEW w \in Clone, NEW prune \in BOOLEAN, Fetch(w, prune) PROVE TypeOK'
  <2>1. UNION {Reach(remote[b]) : b \in Branch} \subseteq Commit
    BY ReachInCommit DEF TypeOK
  <2>2. objects' \in [Clone -> SUBSET Commit]
    BY <1>2, <2>1 DEF Fetch, TypeOK
  <2>3. tracking' \in [Clone -> [Branch -> Tip]]
    BY <1>2 DEF Fetch, TypeOK
  <2>4. QED
    BY <1>2, <2>2, <2>3 DEF Fetch, TypeOK
<1>3. ASSUME NEW w \in Clone, NEW targets \in Targets(w), NEW force \in BOOLEAN,
             PrePush(w, targets, force)
      PROVE  TypeOK'
  <2> DEFINE U == [b \in DOMAIN targets |-> [old |-> remote[b], new |-> targets[b]]]
  <2>1. DOMAIN U = DOMAIN targets
    OBVIOUS
  <2>2. PICK f \in PolicyFiles, cfg \in Configs, scan \in ScanModes :
             /\ vouched' = vouched \cup UNION {Checked(w, b, U[b], cfg) : b \in DOMAIN U}
             /\ waived' = waived \cup UNION {Unchecked(b, U[b], cfg) : b \in DOMAIN U}
             /\ unscanned' = unscanned
                  \cup UNION {UnscannedBy(w, U[b], cfg, scan) : b \in DOMAIN U}
    BY <1>3 DEF PrePush
  <2>3. \A b \in DOMAIN U : /\ U[b] \in Update
                            /\ Checked(w, b, U[b], cfg) \subseteq Commit
                            /\ Unchecked(b, U[b], cfg) \subseteq Commit
                            /\ UnscannedBy(w, U[b], cfg, scan) \subseteq Commit
    BY <2>1, PushTyped
  <2>4. vouched' \subseteq Commit /\ waived' \subseteq Commit /\ unscanned' \subseteq Commit
    <3> HIDE DEF U
    <3> QED BY <2>2, <2>3 DEF TypeOK
  <2>5. inFlight' \in [Clone -> [Branch -> Update]]
    <3>1. inFlight' = [inFlight EXCEPT ![w] =
                        [b \in Branch |-> IF b \in DOMAIN U THEN U[b] ELSE NoUpdate]]
      BY <1>3 DEF PrePush
    <3> HIDE DEF U
    <3> QED BY <3>1, <2>3, NoUpdateTyped DEF TypeOK
  <2>6. QED
    BY <1>3, <2>4, <2>5 DEF PrePush, TypeOK
<1>4. ASSUME NEW w \in Clone, NEW b \in Branch, Deliver(w, b) PROVE TypeOK'
  <2>1. inFlight[w][b].new \in Tip
    BY DEF TypeOK, Update
  <2>2. tracking' \in [Clone -> [Branch -> Tip]]
    BY <1>4, <2>1 DEF Deliver, TypeOK
  <2>3. inFlight' \in [Clone -> [Branch -> Update]]
    BY <1>4, NoUpdateTyped DEF Deliver, TypeOK
  <2>4. QED
    BY <1>4, <2>1, <2>2, <2>3 DEF Deliver, TypeOK
<1>5. ASSUME NEW w \in Clone, NEW b \in Branch, Drop(w, b) PROVE TypeOK'
  BY <1>5, NoUpdateTyped DEF Drop, TypeOK
<1>6. CASE UNCHANGED vars
  BY <1>6 DEF vars, TypeOK
<1>7. QED
  BY <1>1, <1>2, <1>3, <1>4, <1>5, <1>6 DEF Next

LEMMA InitTyped == Init => TypeOK
BY BaseInCommit, NoUpdateTyped, EnvironmentAssumption DEF Init, TypeOK, Tip

\* Type correctness: every reachable state of the push gate is well formed.
THEOREM TypeCorrect == Spec => []TypeOK
BY InitTyped, NextTyped, PTL DEF Spec

-----------------------------------------------------------------------------
(***************************************************************************)
(* A protected branch carries only vouched history. The update is judged   *)
(* relative to the tip the hook saw, so the invariant has to say what an   *)
(* update in flight will bring; a protected branch must exist, since the   *)
(* range of a new branch leaves out what is on any tracking ref.           *)
(***************************************************************************)
LEMMA InitGate == Established /\ Init => GateInv
<1> SUFFICES ASSUME Established, Init PROVE GateInv
  OBVIOUS
<1>1. ProtectedExist
  BY DEF Established, Init, ProtectedExist
<1>2. InFlightCleared
  BY EnvironmentAssumption DEF Init, InFlightCleared, NoUpdate
<1>3. ProtectedVouched
  BY EnvironmentAssumption DEF Init, ProtectedVouched, ProtectedHistory, BaseHistory
<1>4. QED
  BY <1>1, <1>2, <1>3, InitTyped DEF GateInv

\* What the hook notes down of an update it lets through covers its range.
LEMMA AcceptedRange ==
    ASSUME TypeOK, NEW w \in Clone, NEW b \in Protected, NEW u \in Update, NEW cfg,
           u.old # NoCommit, ~IsDeletion(u)
    PROVE  Anc[u.new] \ Anc[u.old] \subseteq Checked(w, b, u, cfg) \cup Unchecked(b, u, cfg)
<1>1. CASE cfg.present /\ cfg.signing
  BY <1>1 DEF Checked, NeedsSigning, CommitsInRange
<1>2. CASE ~(cfg.present /\ cfg.signing)
  BY <1>2 DEF Unchecked
<1>3. QED
  BY <1>1, <1>2

LEMMA NextGate == Established /\ GateInv /\ [Next]_vars => GateInv'
<1> SUFFICES ASSUME Established, GateInv, [Next]_vars PROVE GateInv'
  OBVIOUS
<1> USE DEF GateInv
<1>0. TypeOK'
  BY NextTyped
<1>1. ASSUME NEW w \in Clone, NEW c \in Commit, CommitLocally(w, c) PROVE GateInv'
  BY <1>0, <1>1 DEF CommitLocally, ProtectedExist, InFlightCleared, ProtectedVouched,
                    ProtectedHistory
<1>2. ASSUME NEW w \in Clone, NEW prune \in BOOLEAN, Fetch(w, prune) PROVE GateInv'
  BY <1>0, <1>2 DEF Fetch, ProtectedExist, InFlightCleared, ProtectedVouched,
                    ProtectedHistory
<1>3. ASSUME NEW w \in Clone, NEW targets \in Targets(w), NEW force \in BOOLEAN,
             PrePush(w, targets, force)
      PROVE  GateInv'
  <2> DEFINE U == [b \in DOMAIN targets |-> [old |-> remote[b], new |-> targets[b]]]
  <2>1. PICK cfg \in Configs :
             /\ vouched' = vouched \cup UNION {Checked(w, b, U[b], cfg) : b \in DOMAIN U}
             /\ waived' = waived \cup UNION {Unchecked(b, U[b], cfg) : b \in DOMAIN U}
    BY <1>3 DEF PrePush
  <2>2. /\ inFlight' = [inFlight EXCEPT ![w] =
                         [b \in Branch |-> IF b \in DOMAIN U THEN U[b] ELSE NoUpdate]]
        /\ remote' = remote
    BY <1>3 DEF PrePush
  <2>3. \A b \in DOMAIN U : U[b] \in Update /\ U[b].old = remote[b]
    BY PushTyped
  <2> HIDE DEF U
  <2>4. ProtectedExist'
    BY <2>2 DEF ProtectedExist
  <2>5. ProtectedVouched'
    BY <2>1, <2>2 DEF ProtectedVouched, ProtectedHistory
  <2>6. ASSUME NEW v \in Clone, NEW b \in Protected, inFlight'[v][b].new # NoCommit
        PROVE  /\ inFlight'[v][b].old # NoCommit
               /\ Anc[inFlight'[v][b].new] \ Anc[inFlight'[v][b].old]
                    \subseteq vouched' \cup waived'
    <3>0. b \in Branch
      BY EnvironmentAssumption
    <3>1. CASE v = w /\ b \in DOMAIN U
      <4>1. inFlight'[v][b] = U[b]
        BY <2>2, <3>0, <3>1 DEF TypeOK
      <4>2. U[b].old # NoCommit /\ ~IsDeletion(U[b])
        BY <2>3, <2>6, <3>1, <4>1 DEF ProtectedExist, IsDeletion
      <4>3. Anc[U[b].new] \ Anc[U[b].old]
              \subseteq Checked(w, b, U[b], cfg) \cup Unchecked(b, U[b], cfg)
        BY <2>3, <3>1, <4>2, AcceptedRange
      <4>4. QED
        BY <2>1, <3>1, <4>1, <4>2, <4>3
    <3>2. CASE v = w /\ b \notin DOMAIN U
      BY <2>2, <2>6, <3>0, <3>2 DEF TypeOK, NoUpdate
    <3>3. CASE v # w
      BY <2>1, <2>2, <2>6, <3>0, <3>3 DEF TypeOK, InFlightCleared
    <3>4. QED
      BY <3>1, <3>2, <3>3
  <2>7. InFlightCleared'
    BY <2>6 DEF InFlightCleared
  <2>8. QED
    BY <1>0, <2>4, <2>5, <2>7
<1>4. ASSUME NEW w \in Clone, NEW b \in Branch, Deliver(w, b) PROVE GateInv'
  <2> DEFINE u == inFlight[w][b]
  <2>1. b \in Protected => u.new # NoCommit
    BY <1>4 DEF Deliver, Established, IsDeletion
  <2>2. \A d \in Branch : remote'[d] = IF d = b THEN u.new ELSE remote[d]
    BY <1>4 DEF Deliver, TypeOK
  <2>3. ProtectedExist'
    BY <2>1, <2>2, EnvironmentAssumption DEF ProtectedExist
  <2>4. InFlightCleared'
    <3>1. \A v \in Clone, d \in Branch :
            inFlight'[v][d] = inFlight[v][d] \/ inFlight'[v][d] = NoUpdate
      BY <1>4 DEF Deliver, TypeOK
    <3>2. vouched' = vouched /\ waived' = waived
      BY <1>4 DEF Deliver
    <3>3. QED
      BY <3>1, <3>2, EnvironmentAssumption DEF InFlightCleared, NoUpdate
  <2>5. b \in Protected => Reach(u.new) \subseteq BaseHistory \cup vouched \cup waived
    <3> SUFFICES ASSUME b \in Protected
                 PROVE  Reach(u.new) \subseteq BaseHistory \cup vouched \cup waived
      OBVIOUS
    <3>1. u.old = remote[b] /\ u.new # NoCommit
      BY <1>4, <2>1 DEF Deliver
    <3>2. Anc[u.new] \ Anc[u.old] \subseteq vouched \cup waived /\ u.old # NoCommit
      BY <3>1 DEF InFlightCleared
    <3>3. Reach(remote[b]) \subseteq BaseHistory \cup vouched \cup waived
      BY DEF ProtectedVouched, ProtectedHistory
    <3>4. QED
      BY <3>1, <3>2, <3>3 DEF Reach
  <2>6. ProtectedVouched'
    <3>1. \A d \in Protected : Reach(remote'[d]) \subseteq BaseHistory \cup vouched \cup waived
      BY <2>2, <2>5, EnvironmentAssumption DEF ProtectedVouched, ProtectedHistory
    <3>2. vouched' = vouched /\ waived' = waived
      BY <1>4 DEF Deliver
    <3>3. QED
      BY <3>1, <3>2 DEF ProtectedVouched, ProtectedHistory
  <2>7. QED
    BY <1>0, <2>3, <2>4, <2>6
<1>5. ASSUME NEW w \in Clone, NEW b \in Branch, Drop(w, b) PROVE GateInv'
  <2>1. \A v \in Clone, d \in Branch :
          inFlight'[v][d] = inFlight[v][d] \/ inFlight'[v][d] = NoUpdate
    BY <1>5 DEF Drop, TypeOK
  <2>2. InFlightCleared'
    BY <1>5, <2>1, EnvironmentAssumption DEF Drop, InFlightCleared, NoUpdate
  <2>3. QED
    BY <1>0, <1>5, <2>2 DEF Drop, ProtectedExist, ProtectedVouched, ProtectedHistory
<1>6. CASE UNCHANGED vars
  BY <1>0, <1>6 DEF vars, ProtectedExist, InFlightCleared, ProtectedVouched,
                    ProtectedHistory
<1>7. QED
  BY <1>1, <1>2, <1>3, <1>4, <1>5, <1>6 DEF Next

\* On a forge that keeps its protected branches, and once these exist, every
\* commit reachable from one of them was there from the start, was accepted by
\* some clone's signing check, or came through a hook with no gate.
THEOREM ProtectedIsVouched == Established /\ Spec => []ProtectedVouched
<1>1. GateInv => ProtectedVouched
  BY DEF GateInv
<1>2. Established /\ GateInv /\ [Next]_vars => (Established /\ GateInv)'
  BY NextGate DEF Established
<1>3. QED
  BY <1>1, <1>2, InitGate, PTL DEF Spec

-----------------------------------------------------------------------------
(***************************************************************************)
(* No agent's commit lands. What parse_signers refuses is what makes this  *)
(* true: with one signer per principal and per key, the line git settles   *)
(* on and the signer the gate matches are the one entry that registers the *)
(* signing key.                                                            *)
(***************************************************************************)
LEMMA FirstOfOne ==
    ASSUME NEW S, NEW i \in Nat, S \subseteq {i}, First(S) # 0
    PROVE  First(S) = i
<1>1. S = {i}
  BY DEF First
<1>2. \E j \in S : \A k \in S : j <= k
  BY <1>1
<1>3. First(S) \in S
  BY <1>1, <1>2 DEF First
<1>4. QED
  BY <1>1, <1>3

\* An accepted ssh signature was made with a key registered to a human.
LEMMA HumanKey ==
    ASSUME NEW f \in Seq(Entry), Parses(f), NEW agents, NEW hw, NEW sig \in Signature,
           sig.key \in SshKey, SignedByHuman(f, agents, hw, sig)
    PROVE  \E i \in DOMAIN f : f[i].ssh = sig.key /\ f[i].class = "human"
<1> DEFINE lines == {i \in Emitted(f, agents) :
                       f[i].ssh = sig.key /\ "git" \in Namespaces(f[i])}
           l     == First(lines)
           hits  == {i \in DOMAIN f : \/ f[i].principal = GitSigner(f, agents, sig)
                                      \/ sig.key \in GpgKey /\ f[i].gpg = sig.key}
           m     == First(hits)
<1>1. sig.key \notin GpgKey /\ sig.key # NoKey
  BY KeyAssumption
<1>2. l # 0 /\ m # 0 /\ f[m].class = "human"
  <2>0. m = MatchedSigner(f, agents, sig)
    BY DEF MatchedSigner
  <2>1. GitStatus(f, agents, sig) = "G" /\ m # 0 /\ f[m].class = "human"
    <3> HIDE DEF m
    <3> QED BY <2>0 DEF SignedByHuman
  <2>2. l = AnchorLine(f, agents, sig.key, "git")
    BY DEF AnchorLine
  <2>3. l # 0
    <3> HIDE DEF l
    <3> QED BY <1>1, <2>1, <2>2 DEF GitStatus, Signature
  <2>4. QED
    BY <2>1, <2>3
<1>3. lines # {}
  BY <1>2 DEF First
<1>4. PICK i \in lines : TRUE
  BY <1>3
<1>5. i \in DOMAIN f /\ i \in Nat /\ f[i] \in Entry /\ f[i].ssh = sig.key
  BY <1>4 DEF Emitted
<1>6. lines \subseteq {i}
  BY <1>1, <1>5 DEF Parses, UniqueKeys, KeysOf, Emitted
<1>7. l = i
  <2> HIDE DEF lines
  <2> QED BY <1>2, <1>5, <1>6, FirstOfOne
<1>8. GitSigner(f, agents, sig) = f[i].principal
  BY <1>1, <1>7 DEF GitSigner, AnchorLine
<1>9. hits \subseteq {i}
  BY <1>1, <1>5, <1>8 DEF Parses, UniquePrincipals
<1>10. m = i
  <2> HIDE DEF hits
  <2> QED BY <1>2, <1>5, <1>9, FirstOfOne
<1>11. QED
  BY <1>2, <1>5, <1>10

\* Every commit the signing check accepted carries an intact signature that is
\* not an agent's.
VouchedSigned ==
    \A c \in vouched : SignatureOf[c].state = "intact" /\ SignatureOf[c].key \notin AgentKeys

LEMMA AcceptedSigned ==
    ASSUME NEW f \in PolicyFiles, Parses(f), NEW cfg, NEW c \in Commit,
           CommitAccepted(f, cfg, c)
    PROVE  SignatureOf[c].state = "intact" /\ SignatureOf[c].key \notin AgentKeys
<1>1. SignatureOf[c] \in Signature /\ f \in Seq(Entry)
  BY AttributeAssumption, EnvironmentAssumption
<1>2. SignedByHuman(f, cfg.agents, cfg.hardware, SignatureOf[c])
  BY DEF CommitAccepted
<1>3. SignatureOf[c].state = "intact"
  BY <1>1, <1>2 DEF SignedByHuman, GitStatus, Signature
<1>4. ASSUME SignatureOf[c].key \in AgentKeys PROVE FALSE
  <2>1. SignatureOf[c].key \in SshKey
    BY <1>4 DEF AgentKeys
  <2>2. PICK i \in DOMAIN f : f[i].ssh = SignatureOf[c].key /\ f[i].class = "human"
    BY <1>1, <1>2, <2>1, HumanKey
  <2>3. PICK j \in DOMAIN f : f[j].ssh = SignatureOf[c].key /\ f[j].class # "human"
    BY <1>4, <2>2 DEF AgentKeys
  <2>4. KeysOf(f[i]) \cap KeysOf(f[j]) = {}
    BY <2>2, <2>3 DEF Parses, UniqueKeys
  <2>5. SignatureOf[c].key # NoKey
    BY <2>1, KeyAssumption
  <2>6. QED
    BY <2>2, <2>3, <2>4, <2>5 DEF KeysOf
<1>5. QED
  BY <1>3, <1>4

LEMMA NextVouched == TypeOK /\ VouchedSigned /\ [Next]_vars => VouchedSigned'
<1> SUFFICES ASSUME TypeOK, VouchedSigned, [Next]_vars PROVE VouchedSigned'
  OBVIOUS
<1>1. ASSUME NEW w \in Clone, NEW targets \in Targets(w), NEW force \in BOOLEAN,
             PrePush(w, targets, force)
      PROVE  VouchedSigned'
  <2> DEFINE U == [b \in DOMAIN targets |-> [old |-> remote[b], new |-> targets[b]]]
  <2>1. PICK f \in PolicyFiles, cfg \in Configs, scan \in ScanModes :
             /\ cfg.present => \A b \in DOMAIN U : \E head \in objects[w] :
                                  UpdateAccepted(w, b, U[b], f, cfg, scan, head)
             /\ vouched' = vouched \cup UNION {Checked(w, b, U[b], cfg) : b \in DOMAIN U}
    BY <1>1 DEF PrePush
  <2>2. \A b \in DOMAIN U : Checked(w, b, U[b], cfg) \subseteq Commit
    BY PushTyped
  <2> HIDE DEF U
  <2>3. ASSUME NEW b \in DOMAIN U, NEW c \in Checked(w, b, U[b], cfg)
        PROVE  SignatureOf[c].state = "intact" /\ SignatureOf[c].key \notin AgentKeys
    <3>1. /\ cfg.present /\ ~IsDeletion(U[b]) /\ NeedsSigning(b, cfg)
          /\ c \in CommitsInRange(w, U[b])
      BY <2>3 DEF Checked
    <3>2. SigningClean(w, U[b], f, cfg)
      BY <2>1, <3>1 DEF UpdateAccepted
    <3>3. Parses(f) /\ CommitAccepted(f, cfg, c) /\ c \in Commit
      BY <2>2, <3>1, <3>2 DEF SigningClean
    <3>4. QED
      BY <3>3, AcceptedSigned
  <2>4. QED
    BY <2>1, <2>3 DEF VouchedSigned, AgentKeys
<1>2. ASSUME vouched' = vouched PROVE VouchedSigned'
  BY <1>2 DEF VouchedSigned, AgentKeys
<1>3. QED
  BY <1>1, <1>2 DEF Next, vars, CommitLocally, Fetch, Deliver, Drop

\* "An AI may not land on a protected branch", for every policy file, history
\* and interleaving of pushes: an agent's commit reaches an established
\* protected branch only through a checkout whose hook has no gate.
THEOREM NoAgentLands == Established /\ Spec => []AgentNeverLands
<1>1. Init => VouchedSigned
  BY DEF Init, VouchedSigned
<1>2. ProtectedVouched /\ VouchedSigned => AgentNeverLands
  BY DEF ProtectedVouched, VouchedSigned, AgentNeverLands
<1>3. Spec => []VouchedSigned
  BY <1>1, NextVouched, TypeCorrect, PTL DEF Spec
<1>4. QED
  BY <1>2, <1>3, ProtectedIsVouched, PTL

-----------------------------------------------------------------------------
(***************************************************************************)
(* The gate implements its promise: a run of the hook is a Clear step, an  *)
(* update that arrives is a Land step, everything else stutters.           *)
(***************************************************************************)
LEMMA StepRefines ==
    Established /\ GateInv /\ [Next]_vars =>
        [Promise!Next]_<<ProtectedHistory, BaseHistory \cup vouched \cup waived>>
<1> SUFFICES ASSUME Established, GateInv, [Next]_vars
             PROVE  Promise!Next \/ UNCHANGED <<ProtectedHistory, vouched, waived>>
  BY DEF BaseHistory
<1>0. TypeOK /\ TypeOK' /\ GateInv'
  BY NextGate, NextTyped DEF GateInv
<1>1. ASSUME NEW w \in Clone, NEW targets \in Targets(w), NEW force \in BOOLEAN,
             PrePush(w, targets, force)
      PROVE  Promise!Next
  <2> DEFINE gained == (vouched' \cup waived') \ (vouched \cup waived)
  <2>1. gained \in SUBSET Commit
    BY <1>0 DEF TypeOK
  <2>2. vouched \subseteq vouched' /\ waived \subseteq waived'
    BY <1>1 DEF PrePush
  <2>3. BaseHistory \cup vouched' \cup waived' = (BaseHistory \cup vouched \cup waived) \cup gained
    BY <2>2
  <2>4. ProtectedHistory' = ProtectedHistory
    BY <1>1 DEF PrePush, ProtectedHistory
  <2>5. BaseHistory' = BaseHistory
    BY DEF BaseHistory
  <2>6. Promise!Clear
    <3> HIDE DEF gained
    <3> QED BY <2>1, <2>3, <2>4, <2>5 DEF Promise!Clear
  <2>7. QED
    BY <2>6 DEF Promise!Next
<1>2. ASSUME NEW w \in Clone, NEW b \in Branch, Deliver(w, b) PROVE Promise!Next
  <2>1. vouched' = vouched /\ waived' = waived /\ BaseHistory' = BaseHistory
    BY <1>2 DEF Deliver, BaseHistory
  <2>2. ProtectedHistory' \subseteq BaseHistory \cup vouched \cup waived
    BY <1>0, <2>1 DEF GateInv, ProtectedVouched
  <2>3. QED
    BY <2>1, <2>2 DEF Promise!Next, Promise!Land
<1>3. QED
  BY <1>1, <1>2 DEF Next, vars, CommitLocally, Fetch, Drop, ProtectedHistory

\* PushGate implements ProtectedBranch: no protected branch ever gains history
\* before some gate has cleared it.
THEOREM GateKeepsPromise == Established /\ Spec => LandsOnlyCleared
<1>1. Established /\ Init => Promise!Init
  <2> SUFFICES ASSUME Established, Init PROVE Promise!Init
    OBVIOUS
  <2>1. GateInv
    BY InitGate
  <2>2. BaseHistory \cup vouched \cup waived \subseteq Commit
    BY <2>1, BaseInCommit DEF GateInv, TypeOK
  <2>3. QED
    BY <2>1, <2>2 DEF GateInv, ProtectedVouched, Promise!Init
<1>2. Established /\ GateInv /\ [Next]_vars => (Established /\ GateInv)'
  BY NextGate DEF Established
<1>3. QED
  BY <1>1, <1>2, InitGate, StepRefines, PTL DEF Spec, LandsOnlyCleared, Promise!Spec

-----------------------------------------------------------------------------
(***************************************************************************)
(* The range scan. An update was scanned relative to the tip its hook saw, *)
(* which is the one it replaces; it brings no leak that is not noted.      *)
(***************************************************************************)
InFlightScanned ==
    \A w \in Clone, b \in Branch :
        LET u == inFlight[w][b]
        IN  u.new # NoCommit => (Anc[u.new] \ Reach(u.old)) \cap Leaks \subseteq unscanned

ScanInv == InFlightScanned /\ NoSecretLeaves

LEMMA AcceptedScanned ==
    ASSUME NEW w \in Clone, NEW b \in Branch, NEW u, ~IsDeletion(u), NEW f, NEW cfg, NEW scan, NEW head,
           cfg.present => UpdateAccepted(w, b, u, f, cfg, scan, head)
    PROVE  (Anc[u.new] \ Reach(u.old)) \cap Leaks \subseteq UnscannedBy(w, u, cfg, scan)
<1>1. CASE cfg.present /\ cfg.rangeScan /\ "gitleaks" \in scan.ran /\ ~ScanFailed(w, u, scan)
  <2>1. ScannedBy("gitleaks", u, head) \cap Leaks = {}
    BY <1>1 DEF UpdateAccepted, ScanClean
  <2>2. QED
    BY <2>1 DEF ScannedBy
<1>2. CASE ~(cfg.present /\ cfg.rangeScan /\ "gitleaks" \in scan.ran /\ ~ScanFailed(w, u, scan))
  BY <1>2 DEF UnscannedBy
<1>3. QED
  BY <1>1, <1>2

LEMMA NextScan == TypeOK /\ ScanInv /\ [Next]_vars => ScanInv'
<1> SUFFICES ASSUME TypeOK, ScanInv, [Next]_vars PROVE ScanInv'
  OBVIOUS
<1>1. ASSUME UNCHANGED <<remote, unscanned>>,
             \A w \in Clone, b \in Branch : inFlight'[w][b] \in {inFlight[w][b], NoUpdate}
      PROVE  ScanInv'
  BY <1>1 DEF ScanInv, InFlightScanned, NoSecretLeaves, BaseHistory, NoUpdate
<1>2. ASSUME NEW w \in Clone, NEW c \in Commit, CommitLocally(w, c) PROVE ScanInv'
  BY <1>1, <1>2 DEF CommitLocally
<1>3. ASSUME NEW w \in Clone, NEW prune \in BOOLEAN, Fetch(w, prune) PROVE ScanInv'
  BY <1>1, <1>3 DEF Fetch
<1>4. ASSUME NEW w \in Clone, NEW targets \in Targets(w), NEW force \in BOOLEAN,
             PrePush(w, targets, force)
      PROVE  ScanInv'
  <2> DEFINE U == [b \in DOMAIN targets |-> [old |-> remote[b], new |-> targets[b]]]
  <2>1. PICK f \in PolicyFiles, cfg \in Configs, scan \in ScanModes :
             /\ cfg.present => \A b \in DOMAIN U : \E head \in objects[w] :
                                  UpdateAccepted(w, b, U[b], f, cfg, scan, head)
             /\ unscanned' = unscanned
                  \cup UNION {UnscannedBy(w, U[b], cfg, scan) : b \in DOMAIN U}
    BY <1>4 DEF PrePush
  <2>2. /\ inFlight' = [inFlight EXCEPT ![w] =
                         [b \in Branch |-> IF b \in DOMAIN U THEN U[b] ELSE NoUpdate]]
        /\ remote' = remote
    BY <1>4 DEF PrePush
  <2> HIDE DEF U
  <2>3. unscanned \subseteq unscanned'
    BY <2>1
  <2>4. ASSUME NEW v \in Clone, NEW b \in Branch, inFlight'[v][b].new # NoCommit
        PROVE  (Anc[inFlight'[v][b].new] \ Reach(inFlight'[v][b].old)) \cap Leaks \subseteq unscanned'
    <3>1. CASE v = w /\ b \in DOMAIN U
      <4>1. inFlight'[v][b] = U[b] /\ ~IsDeletion(U[b])
        BY <2>2, <2>4, <3>1 DEF TypeOK, IsDeletion
      <4>2. \E head : cfg.present => UpdateAccepted(w, b, U[b], f, cfg, scan, head)
        BY <2>1, <3>1
      <4>3. (Anc[U[b].new] \ Reach(U[b].old)) \cap Leaks \subseteq UnscannedBy(w, U[b], cfg, scan)
        BY <4>1, <4>2, AcceptedScanned
      <4>4. QED
        BY <2>1, <3>1, <4>1, <4>3
    <3>2. CASE v = w /\ b \notin DOMAIN U
      BY <2>2, <2>4, <3>2 DEF TypeOK, NoUpdate
    <3>3. CASE v # w
      BY <2>2, <2>3, <2>4, <3>3 DEF TypeOK, ScanInv, InFlightScanned
    <3>4. QED
      BY <3>1, <3>2, <3>3
  <2>5. InFlightScanned'
    BY <2>4 DEF InFlightScanned, Reach
  <2>6. NoSecretLeaves'
    BY <2>2, <2>3 DEF ScanInv, NoSecretLeaves, BaseHistory
  <2>7. QED
    BY <2>5, <2>6 DEF ScanInv
<1>5. ASSUME NEW w \in Clone, NEW b \in Branch, Deliver(w, b) PROVE ScanInv'
  <2> DEFINE u == inFlight[w][b]
  <2>1. /\ \A d \in Branch : remote'[d] = IF d = b THEN u.new ELSE remote[d]
        /\ remote[b] = u.old /\ unscanned' = unscanned
        /\ \A v \in Clone, d \in Branch : inFlight'[v][d] \in {inFlight[v][d], NoUpdate}
    BY <1>5 DEF Deliver, TypeOK
  <2>2. Reach(u.new) \cap Leaks \subseteq BaseHistory \cup unscanned
    <3>1. u.new # NoCommit => (Anc[u.new] \ Reach(u.old)) \cap Leaks \subseteq unscanned
      BY DEF ScanInv, InFlightScanned
    <3>2. Reach(u.old) \cap Leaks \subseteq BaseHistory \cup unscanned
      BY <2>1 DEF ScanInv, NoSecretLeaves
    <3>3. QED
      BY <3>1, <3>2 DEF Reach
  <2>3. NoSecretLeaves'
    BY <2>1, <2>2 DEF ScanInv, NoSecretLeaves, BaseHistory
  <2>4. InFlightScanned'
    BY <2>1 DEF ScanInv, InFlightScanned, NoUpdate
  <2>5. QED
    BY <2>3, <2>4 DEF ScanInv
<1>6. ASSUME NEW w \in Clone, NEW b \in Branch, Drop(w, b) PROVE ScanInv'
  BY <1>1, <1>6 DEF Drop, TypeOK
<1>7. CASE UNCHANGED vars
  BY <1>1, <1>7 DEF vars
<1>8. QED
  BY <1>2, <1>3, <1>4, <1>5, <1>6, <1>7 DEF Next

\* A commit that adds a recognisable secret is on the remote only if it was there
\* from the start or a hook let it through without a verdict of gitleaks: no
\* history, interleaving or forced push hides it from the range that is scanned.
THEOREM NoLeakUnseen == Spec => []NoSecretLeaves
<1>1. Init => ScanInv
  BY DEF Init, ScanInv, InFlightScanned, NoSecretLeaves, BaseHistory, NoUpdate
<1>2. ScanInv => NoSecretLeaves
  BY DEF ScanInv
<1>3. QED
  BY <1>1, <1>2, TypeCorrect, NextScan, PTL DEF Spec

-----------------------------------------------------------------------------
(***************************************************************************)
(* Discarded history. A clone has every ancestor of what it has, and an    *)
(* update the gate looked at replaces a tip its clone has.                 *)
(***************************************************************************)
StoresClosed == \A w \in Clone : \A c \in objects[w] : Anc[c] \subseteq objects[w]

InFlightKnown ==
    \A w \in Clone, b \in Protected :
        LET u == inFlight[w][b]
        IN  u.new \notin waived \cup {NoCommit} => u.old \in objects[w] \cup {NoCommit}

SeenInv == StoresClosed /\ InFlightKnown

LEMMA BaseClosed == \A c \in BaseHistory : Anc[c] \subseteq BaseHistory
BY GraphAssumption, EnvironmentAssumption DEF BaseHistory, Reach

LEMMA NextSeen == TypeOK /\ SeenInv /\ [Next]_vars => SeenInv'
<1> SUFFICES ASSUME TypeOK, SeenInv, [Next]_vars PROVE SeenInv'
  OBVIOUS
<1> USE DEF SeenInv
<1>1. ASSUME \A w \in Clone : objects[w] \subseteq objects'[w], waived' = waived,
             \A w \in Clone, b \in Branch : inFlight'[w][b] \in {inFlight[w][b], NoUpdate}
      PROVE  InFlightKnown'
  BY <1>1, EnvironmentAssumption DEF InFlightKnown, NoUpdate
<1>2. ASSUME NEW w \in Clone, NEW c \in Commit, CommitLocally(w, c) PROVE SeenInv'
  <2>1. \A v \in Clone : objects'[v] = IF v = w THEN objects[v] \cup {c} ELSE objects[v]
    BY <1>2 DEF CommitLocally, TypeOK
  <2>2. StoresClosed'
    BY <1>2, <2>1 DEF CommitLocally, StoresClosed
  <2>3. QED
    BY <1>1, <1>2, <2>1, <2>2 DEF CommitLocally
<1>3. ASSUME NEW w \in Clone, NEW prune \in BOOLEAN, Fetch(w, prune) PROVE SeenInv'
  <2> DEFINE fetched == UNION {Reach(remote[b]) : b \in Branch}
  <2>1. \A v \in Clone : objects'[v] = IF v = w THEN objects[v] \cup fetched ELSE objects[v]
    BY <1>3 DEF Fetch, TypeOK
  <2>2. \A c \in fetched : Anc[c] \subseteq fetched
    BY GraphAssumption DEF Reach, TypeOK, Tip
  <2> HIDE DEF fetched
  <2>3. StoresClosed'
    BY <2>1, <2>2 DEF StoresClosed
  <2>4. QED
    BY <1>1, <1>3, <2>1, <2>3 DEF Fetch
<1>4. ASSUME NEW w \in Clone, NEW targets \in Targets(w), NEW force \in BOOLEAN,
             PrePush(w, targets, force)
      PROVE  SeenInv'
  <2> DEFINE U == [b \in DOMAIN targets |-> [old |-> remote[b], new |-> targets[b]]]
  <2>1. PICK f \in PolicyFiles, cfg \in Configs, scan \in ScanModes :
             /\ cfg.present => \A b \in DOMAIN U : \E head \in objects[w] :
                                  UpdateAccepted(w, b, U[b], f, cfg, scan, head)
             /\ waived' = waived \cup UNION {Unchecked(b, U[b], cfg) : b \in DOMAIN U}
    BY <1>4 DEF PrePush
  <2>2. /\ inFlight' = [inFlight EXCEPT ![w] =
                         [b \in Branch |-> IF b \in DOMAIN U THEN U[b] ELSE NoUpdate]]
        /\ objects' = objects
    BY <1>4 DEF PrePush
  <2>3. \A b \in DOMAIN U : U[b] \in Update
    BY PushTyped
  <2> HIDE DEF U
  <2>4. ASSUME NEW b \in DOMAIN U, b \in Protected, U[b].new \notin waived' \cup {NoCommit}
        PROVE  U[b].old \in objects[w] \cup {NoCommit}
    <3>1. ~IsDeletion(U[b]) /\ U[b].new \in Anc[U[b].new]
      BY <2>3, <2>4, GraphAssumption DEF IsDeletion, Update, Tip
    <3>2. Unchecked(b, U[b], cfg) \subseteq waived'
      BY <2>1
    <3>3. cfg.present /\ cfg.signing
      BY <2>4, <3>1, <3>2 DEF Unchecked
    <3>4. SigningClean(w, U[b], f, cfg)
      BY <2>1, <2>4, <3>1, <3>3 DEF UpdateAccepted, NeedsSigning
    <3>5. QED
      BY <3>4 DEF SigningClean, RangeKnown
  <2>5. ASSUME NEW v \in Clone, NEW b \in Protected,
               inFlight'[v][b].new \notin waived' \cup {NoCommit}
        PROVE  inFlight'[v][b].old \in objects[v] \cup {NoCommit}
    <3>0. b \in Branch
      BY EnvironmentAssumption
    <3>1. CASE v = w /\ b \in DOMAIN U
      BY <2>2, <2>4, <2>5, <3>0, <3>1 DEF TypeOK
    <3>2. CASE v = w /\ b \notin DOMAIN U
      BY <2>2, <2>5, <3>0, <3>2 DEF TypeOK, NoUpdate
    <3>3. CASE v # w
      BY <2>1, <2>2, <2>5, <3>0, <3>3 DEF TypeOK, InFlightKnown
    <3>4. QED
      BY <3>1, <3>2, <3>3
  <2>6. QED
    BY <2>2, <2>5 DEF InFlightKnown, StoresClosed
<1>5. ASSUME NEW w \in Clone, NEW b \in Branch, Deliver(w, b) \/ Drop(w, b) PROVE SeenInv'
  BY <1>1, <1>5 DEF Deliver, Drop, TypeOK, StoresClosed
<1>6. CASE UNCHANGED vars
  BY <1>1, <1>6 DEF vars, StoresClosed
<1>7. QED
  BY <1>2, <1>3, <1>4, <1>5, <1>6 DEF Next

LEMMA DeliverDiscards ==
    ASSUME TypeOK, SeenInv, NEW w \in Clone, NEW b \in Protected, Deliver(w, b),
           remote'[b] \notin waived \cup {NoCommit}
    PROVE  Reach(remote[b]) \ Reach(remote'[b]) \subseteq objects[w]
<1>1. inFlight[w][b].new = remote'[b] /\ inFlight[w][b].old = remote[b]
  BY EnvironmentAssumption DEF Deliver, TypeOK
<1>2. remote[b] \in objects[w] \cup {NoCommit}
  BY <1>1 DEF SeenInv, InFlightKnown
<1>3. QED
  BY <1>2 DEF SeenInv, StoresClosed, Reach

\* A push the gate looked at removes from a protected branch only commits its own
\* clone has: a forced push over a tip the clone never fetched is refused, also
\* when the tip moved between the clone's fetch and its push.
THEOREM OnlySeenDiscarded == Spec => DiscardsOnlySeen
<1>1. Init => SeenInv
  <2> SUFFICES ASSUME Init PROVE SeenInv
    OBVIOUS
  <2>1. StoresClosed
    BY BaseClosed DEF Init, StoresClosed
  <2>2. InFlightKnown
    BY EnvironmentAssumption DEF Init, InFlightKnown, NoUpdate
  <2>3. QED
    BY <2>1, <2>2 DEF SeenInv
<1>2. TypeOK /\ SeenInv /\ [Next]_vars =>
        [\A w \in Clone, b \in Protected :
            Deliver(w, b) /\ remote'[b] \notin waived \cup {NoCommit}
              => Reach(remote[b]) \ Reach(remote'[b]) \subseteq objects[w]]_vars
  BY DeliverDiscards
<1>3. QED
  BY <1>1, <1>2, TypeCorrect, NextSeen, PTL DEF Spec, DiscardsOnlySeen

-----------------------------------------------------------------------------
(***************************************************************************)
(* The server-side gate.                                                   *)
(***************************************************************************)
(***************************************************************************)
(* A run's range, and what its verdict says of it.                         *)
(***************************************************************************)
RunsSound ==
    \A r \in runs :
        /\ r.target \in Anc[r.head]
        /\ r.group = "push" => r.target = r.base /\ r.base \in Anc[r.head]
        /\ r.verdict = "green" =>
              \A c \in Listed(r.base, WalkedTip(r.base, r.head, r.target)) :
                  TrustedHuman(PolicyAt[r.base], SignatureOf[c])

\* Every commit of the default branch came with some push.
PushesTile ==
    \A c \in CommitRange(Start, main) :
        \E r \in runs : r.group = "push" /\ c \in CommitRange(r.base, r.head)

PolicyInv == PolicyTypeOK /\ RunsSound /\ PushesTile

-----------------------------------------------------------------------------
(***************************************************************************)
(* Least numbers and oldest commits.                                       *)
(***************************************************************************)
LEMMA Least ==
    ASSUME NEW T, T \subseteq Nat, T # {} PROVE \E n \in T : \A m \in T : n <= m
<1> DEFINE Less == {ss \in Nat \X Nat : ss[1] < ss[2]}
<1>1. IsWellFoundedOn(Less, Nat)
  BY NatLessThanWellFounded DEF OpToRel
<1>2. \A m, n \in Nat : <<m, n>> \in Less <=> m < n
  OBVIOUS
<1> HIDE DEF Less
<1>3. PICK n \in T : \A m \in T : ~(<<m, n>> \in Less)
  BY <1>1, WFMin
<1>4. ASSUME NEW m \in T PROVE n <= m
  <2>1. m \in Nat /\ n \in Nat
    OBVIOUS
  <2>2. ~(m < n)
    BY <1>2, <1>3, <2>1
  <2>3. QED
    BY <2>1, <2>2
<1>5. QED
  BY <1>4

LEMMA FirstIn == ASSUME NEW S, S \subseteq Nat, S # {} PROVE First(S) \in S
<1>1. \E i \in S : \A j \in S : i <= j
  BY Least
<1>2. First(S) = CHOOSE i \in S : \A j \in S : i <= j
  BY DEF First
<1>3. QED
  BY <1>1, <1>2

LEMMA Family ==
    ASSUME NEW c \in Commit
    PROVE  /\ c \in Anc[c] /\ Anc[c] \subseteq Commit
           /\ \A p \in ParentSet(c) : p \in Commit /\ Anc[p] \subseteq Anc[c] /\ c \notin Anc[p]
           /\ \A a \in Anc[c] : a = c \/ \E p \in ParentSet(c) : a \in Anc[p]
           /\ \A a \in Anc[c] : a \in Commit /\ Anc[a] \subseteq Anc[c]
<1>1. Parents[c] \in Seq(Commit) /\ Anc[c] \subseteq Commit
  BY GraphAssumption
<1>2. Anc[c] = {c} \cup UNION {Anc[Parents[c][i]] : i \in DOMAIN Parents[c]}
  BY GraphAssumption
<1>3. \A i \in DOMAIN Parents[c] : Parents[c][i] \in Commit /\ c \notin Anc[Parents[c][i]]
  BY <1>1, GraphAssumption
<1>4. \A a \in Anc[c] : Anc[a] \subseteq Anc[c]
  BY GraphAssumption
<1>5. QED
  BY <1>1, <1>2, <1>3, <1>4 DEF ParentSet

LEMMA Antisymmetric ==
    ASSUME NEW a \in Commit, NEW b \in Commit, a \in Anc[b], b \in Anc[a] PROVE a = b
<1>1. SUFFICES ASSUME a # b PROVE FALSE
  OBVIOUS
<1>2. PICK p \in ParentSet(b) : a \in Anc[p]
  BY <1>1, Family
<1>3. p \in Commit /\ b \notin Anc[p]
  BY Family
<1>4. Anc[a] \subseteq Anc[p]
  BY <1>2, <1>3, Family
<1>5. QED
  BY <1>3, <1>4

\* Among any commits there is one none of whose parents is among them.
LEMMA Oldest ==
    ASSUME NEW D \in SUBSET Commit, D # {}
    PROVE  \E c \in D : \A p \in ParentSet(c) : p \notin D
<1> DEFINE T == {Anc[c] : c \in D}
<1>0. IsFiniteSet(Commit)
  BY GraphAssumption
<1>1. IsWellFoundedOn(StrictSubsetOrdering(Commit), SUBSET Commit)
  <2>1. IsWellFoundedOn(StrictSubsetOrdering(Commit), FiniteSubsetsOf(Commit))
    BY FS_StrictSubsetOrderingWellFounded
  <2>2. FiniteSubsetsOf(Commit) = SUBSET Commit
    BY <1>0, FS_FiniteSubsetsOfFinite
  <2>3. QED
    BY <2>1, <2>2
<1>2. T \subseteq SUBSET Commit /\ T # {}
  BY Family
<1>3. ASSUME NEW c \in D, NEW p \in ParentSet(c)
      PROVE  <<Anc[p], Anc[c]>> \in StrictSubsetOrdering(Commit)
  <2>1. Anc[c] \subseteq Commit /\ Anc[p] \subseteq Anc[c] /\ Anc[p] # Anc[c]
    BY Family
  <2>2. QED
    BY <2>1 DEF StrictSubsetOrdering
<1> HIDE DEF T
<1>4. PICK x \in T : \A y \in T : ~(<<y, x>> \in StrictSubsetOrdering(Commit))
  BY <1>1, <1>2, WFMin
<1>5. PICK c \in D : x = Anc[c]
  BY DEF T
<1>6. \A p \in ParentSet(c) : p \notin D
  <2>1. SUFFICES ASSUME NEW p \in ParentSet(c), p \in D PROVE FALSE
    OBVIOUS
  <2>2. Anc[p] \in T
    BY <2>1 DEF T
  <2>3. QED
    BY <1>3, <1>4, <1>5, <2>1, <2>2
<1>7. QED
  BY <1>6

(***************************************************************************)
(* git's walk.                                                             *)
(***************************************************************************)
LEMMA FollowedAreRelevant ==
    ASSUME NEW c \in Commit, NEW base \in Commit
    PROVE  /\ SameParents(c, base) = {} => FollowedParents(c, base) = Relevant(c, base)
           /\ SameParents(c, base) # {} =>
                 \E p \in ParentSet(c) : /\ FollowedParents(c, base) = {p}
                                         /\ p \in Relevant(c, base) /\ PolicyAt[p] = PolicyAt[c]
           /\ FollowedParents(c, base) \subseteq Commit
<1>1. SameParents(c, base) = {} => FollowedParents(c, base) = Relevant(c, base)
  BY DEF FollowedParents
<1>2. ASSUME SameParents(c, base) # {}
      PROVE  \E p \in ParentSet(c) : /\ FollowedParents(c, base) = {p}
                                     /\ p \in Relevant(c, base) /\ PolicyAt[p] = PolicyAt[c]
  <2> DEFINE i == First(SameParents(c, base))
  <2>1. SameParents(c, base) \subseteq Nat
    BY GraphAssumption DEF SameParents
  <2>2. i \in SameParents(c, base)
    BY <1>2, <2>1, FirstIn
  <2>3. /\ i \in DOMAIN Parents[c] /\ Parents[c][i] \in Relevant(c, base)
        /\ PolicyAt[Parents[c][i]] = PolicyAt[c]
    BY <2>2 DEF SameParents
  <2>4. FollowedParents(c, base) = {Parents[c][i]}
    BY <1>2 DEF FollowedParents
  <2>5. QED
    BY <2>3, <2>4 DEF ParentSet
<1>3. Relevant(c, base) \subseteq Commit
  BY Family DEF Relevant
<1>4. QED
  BY <1>1, <1>2, <1>3

LEMMA WalkIsClosed ==
    ASSUME NEW base \in Commit, NEW tip \in Commit, tip \notin Anc[base]
    PROVE  /\ tip \in Walk(base, tip)
           /\ \A c \in Walk(base, tip) : FollowedParents(c, base) \subseteq Walk(base, tip)
<1>1. tip \in Walk(base, tip)
  BY DEF Walk
<1>2. ASSUME NEW c \in Walk(base, tip), NEW p \in FollowedParents(c, base)
      PROVE  p \in Walk(base, tip)
  <2>1. c \in Commit
    BY DEF Walk
  <2>2. p \in Commit
    BY <2>1, FollowedAreRelevant
  <2>3. ASSUME NEW S \in SUBSET Commit, {tip} \ Anc[base] \subseteq S, Closed(S, base) PROVE p \in S
    <3>1. c \in S
      BY <2>3 DEF Walk
    <3>2. QED
      BY <2>3, <3>1 DEF Closed
  <2>4. QED
    BY <2>2, <2>3 DEF Walk
<1>3. QED
  BY <1>1, <1>2

\* What the walk meets, the tip has behind it.
LEMMA WalkIsBehind ==
    ASSUME NEW base \in Commit, NEW tip \in Commit
    PROVE  Walk(base, tip) \subseteq CommitRange(base, tip)
<1> DEFINE S == CommitRange(base, tip)
<1>1. S \in SUBSET Commit /\ {tip} \ Anc[base] \subseteq S
  BY Family DEF CommitRange
<1>2. Closed(S, base)
  <2>1. SUFFICES ASSUME NEW c \in S, NEW p \in FollowedParents(c, base) PROVE p \in S
    BY DEF Closed
  <2>2. c \in Commit /\ c \in Anc[tip]
    BY Family DEF CommitRange
  <2>3. p \in ParentSet(c) /\ p \notin Anc[base]
    BY <2>1, <2>2, FollowedAreRelevant DEF Relevant
  <2>4. QED
    BY <2>2, <2>3, Family DEF CommitRange
<1>3. QED
  BY <1>1, <1>2 DEF Walk

\* The walk lists every edit, but for those that it passes over at some commit.
LEMMA EditsListed ==
    ASSUME NEW base \in Commit, NEW tip \in Commit,
           NEW e \in CommitRange(base, tip), IsEdit(e),
           \A m \in CommitRange(base, tip) : \A p \in Relevant(m, base) :
               ~(PolicyAt[p] = PolicyAt[m] /\ e \in Anc[m] \ Anc[p])
    PROVE  e \in Listed(base, tip)
<1>1. e \in Anc[tip] /\ e \notin Anc[base] /\ e \in Commit
  BY Family DEF CommitRange
<1>2. tip \notin Anc[base]
  BY <1>1, Family
<1> DEFINE W == {c \in Walk(base, tip) : e \in Anc[c]}
<1>3. W \in SUBSET Commit /\ W # {}
  BY <1>1, <1>2, WalkIsClosed DEF Walk
<1>4. PICK c \in W : \A p \in ParentSet(c) : p \notin W
  BY <1>3, Oldest
<1>5. c \in Commit /\ e \in Anc[c] /\ \A p \in FollowedParents(c, base) : p \in Walk(base, tip)
  BY <1>2, <1>3, <1>4, WalkIsClosed
<1>6. c = e
  <2>1. SUFFICES ASSUME c # e PROVE FALSE
    OBVIOUS
  <2>2. PICK p \in ParentSet(c) : e \in Anc[p]
    BY <1>5, <2>1, Family
  <2>3. p \in Commit /\ p \notin Anc[base]
    BY <1>1, <1>5, <2>2, Family
  <2>4. CASE SameParents(c, base) = {}
    <3>1. p \in FollowedParents(c, base)
      BY <1>5, <2>3, <2>4, FollowedAreRelevant DEF Relevant
    <3>2. QED
      BY <1>4, <1>5, <2>2, <3>1
  <2>5. CASE SameParents(c, base) # {}
    <3>1. PICK q \in ParentSet(c) : /\ FollowedParents(c, base) = {q}
                                    /\ q \in Relevant(c, base) /\ PolicyAt[q] = PolicyAt[c]
      BY <1>5, <2>5, FollowedAreRelevant
    <3>2. c \in CommitRange(base, tip)
      BY <1>3, <1>4, WalkIsBehind
    <3>3. e \in Anc[q]
      BY <1>5, <3>1, <3>2
    <3>4. QED
      BY <1>4, <1>5, <3>1, <3>3
  <2>6. QED
    BY <2>4, <2>5
<1>7. ~TreeSame(e, base)
  <2>1. SameParents(e, base) = {}
    BY DEF IsEdit, SameParents, ParentSet
  <2>2. ~((\A p \in ParentSet(e) : PolicyAt[p] = PolicyAt[e])
            /\ (ParentSet(e) = {} => PolicyAt[e] = <<>>))
    BY DEF IsEdit
  <2>3. QED
    BY <2>1, <2>2 DEF TreeSame
<1>8. QED
  BY <1>6, <1>7 DEF Listed

-----------------------------------------------------------------------------
(***************************************************************************)
(* The runs.                                                               *)
(***************************************************************************)
\* A new run has no verdict and the target it was triggered over.
LEMMA StartedSound ==
    ASSUME PolicyTypeOK, NEW g \in Group, NEW base \in Commit, NEW head \in Commit,
           main \in Anc[head], g = "push" => base = main
    PROVE  /\ Started(g, base, head) \in Run
           /\ Started(g, base, head).group = g
           /\ Started(g, base, head).base = base /\ Started(g, base, head).head = head
           /\ Started(g, base, head).target = main
           /\ Started(g, base, head).verdict = "running"
BY DEF PolicyTypeOK, Started, Run, Verdict

\* Superseding keeps what a run was started with, and every run of a push.
LEMMA SupersededKeeps ==
    ASSUME PolicyTypeOK, NEW g \in Group
    PROVE  /\ Superseded(g) \subseteq Run
           /\ \A r \in Superseded(g) :
                 \E q \in runs : /\ r.group = q.group /\ r.base = q.base /\ r.head = q.head
                                 /\ r.target = q.target
                                 /\ r.verdict = q.verdict \/ r.verdict = "cancelled"
           /\ \A q \in runs : q.group = "push" =>
                 \E r \in Superseded(g) : /\ r.group = q.group /\ r.base = q.base
                                          /\ r.head = q.head
<1> DEFINE Cancel(r) == IF r.group = g /\ r.verdict = "running"
                        THEN [r EXCEPT !.verdict = "cancelled"] ELSE r
<1>1. ASSUME NEW r \in runs
      PROVE  /\ Cancel(r) \in Run
             /\ Cancel(r).group = r.group /\ Cancel(r).base = r.base /\ Cancel(r).head = r.head
             /\ Cancel(r).target = r.target
             /\ Cancel(r).verdict = r.verdict \/ Cancel(r).verdict = "cancelled"
  BY DEF PolicyTypeOK, Run, Verdict
<1>2. g = "push" => Superseded(g) = {Cancel(r) : r \in runs}
  BY DEF Superseded
<1>3. g # "push" => Superseded(g) = {r \in runs : r.group = "push" \/ r.merged}
  BY DEF Superseded
<1> HIDE DEF Cancel
<1>4. CASE g = "push"
  BY <1>1, <1>2, <1>4
<1>5. CASE g # "push"
  BY <1>3, <1>5 DEF PolicyTypeOK
<1>6. QED
  BY <1>4, <1>5

LEMMA InitPolicy == PolicyInit => PolicyInv
<1> SUFFICES ASSUME PolicyInit PROVE PolicyInv
  OBVIOUS
<1>1. PolicyTypeOK
  BY GateAssumption DEF PolicyInit, PolicyTypeOK, Tip
<1>2. RunsSound /\ PushesTile
  BY DEF PolicyInit, RunsSound, PushesTile, CommitRange
<1>3. QED
  BY <1>1, <1>2 DEF PolicyInv

\* An event: its run is new and the others are as they were, but for those it supersedes.
LEMMA EventSound ==
    ASSUME PolicyInv, NEW g \in Group, NEW base \in Commit, NEW head \in Commit,
           main \in Anc[head], g = "push" => base = main,
           NEW rs \in SUBSET Run, rs \cup {Started(g, base, head)} = runs',
           \A r \in rs :
              \E q \in runs : /\ r.group = q.group /\ r.base = q.base /\ r.head = q.head
                              /\ r.target = q.target
                              /\ r.verdict = q.verdict \/ r.verdict = "cancelled"
    PROVE  runs' \subseteq Run /\ RunsSound'
<1>1. PolicyTypeOK /\ RunsSound
  BY DEF PolicyInv
<1>2. /\ Started(g, base, head) \in Run
      /\ Started(g, base, head).group = g
      /\ Started(g, base, head).base = base /\ Started(g, base, head).head = head
      /\ Started(g, base, head).target = main
      /\ Started(g, base, head).verdict = "running"
  BY <1>1, StartedSound
<1> DEFINE Sound(r) ==
        /\ r.target \in Anc[r.head]
        /\ r.group = "push" => r.target = r.base /\ r.base \in Anc[r.head]
        /\ r.verdict = "green" =>
              \A c \in Listed(r.base, WalkedTip(r.base, r.head, r.target)) :
                  TrustedHuman(PolicyAt[r.base], SignatureOf[c])
<1>3. \A q \in runs : Sound(q)
  BY <1>1 DEF RunsSound
<1>4. ASSUME NEW r \in rs PROVE Sound(r)
  <2>1. PICK q \in runs : /\ r.group = q.group /\ r.base = q.base /\ r.head = q.head
                          /\ r.target = q.target
                          /\ r.verdict = q.verdict \/ r.verdict = "cancelled"
    BY <1>4
  <2>2. Sound(q)
    BY <1>3
  <2>3. QED
    BY <2>1, <2>2
<1>5. Sound(Started(g, base, head))
  BY <1>2
<1> HIDE DEF Sound
<1>6. \A r \in runs' : Sound(r)
  BY <1>4, <1>5
<1>7. QED
  BY <1>2, <1>6 DEF RunsSound, Sound

\* A push of main onwards is covered by its own run, what was there by the others'.
LEMMA TilesGrow ==
    ASSUME PolicyInv, NEW head \in Commit, main' = head, main \in Anc[head],
           Started("push", main, head) \in runs',
           \A q \in runs : q.group = "push" =>
              \E r \in runs' : r.group = q.group /\ r.base = q.base /\ r.head = q.head
    PROVE  PushesTile'
<1>1. SUFFICES ASSUME NEW c \in CommitRange(Start, head)
               PROVE  \E r \in runs' : r.group = "push" /\ c \in CommitRange(r.base, r.head)
  BY DEF PushesTile
<1>2. CASE c \in Anc[main]
  <2>1. c \in CommitRange(Start, main)
    BY <1>2 DEF CommitRange
  <2>2. PICK q \in runs : q.group = "push" /\ c \in CommitRange(q.base, q.head)
    BY <2>1 DEF PolicyInv, PushesTile
  <2>3. QED
    BY <2>2
<1>3. CASE c \notin Anc[main]
  <2>1. /\ Started("push", main, head).group = "push"
        /\ Started("push", main, head).base = main /\ Started("push", main, head).head = head
    BY DEF Started
  <2>2. c \in CommitRange(main, head)
    BY <1>3 DEF CommitRange
  <2>3. QED
    BY <2>1, <2>2
<1>4. QED
  BY <1>2, <1>3

LEMMA TilesStay ==
    ASSUME PolicyInv, UNCHANGED main,
           \A q \in runs : q.group = "push" =>
              \E r \in runs' : r.group = q.group /\ r.base = q.base /\ r.head = q.head
    PROVE  PushesTile'
<1>1. SUFFICES ASSUME NEW c \in CommitRange(Start, main)
               PROVE  \E r \in runs' : r.group = "push" /\ c \in CommitRange(r.base, r.head)
  BY DEF PushesTile
<1>2. PICK q \in runs : q.group = "push" /\ c \in CommitRange(q.base, q.head)
  BY DEF PolicyInv, PushesTile
<1>3. QED
  BY <1>2

LEMMA TriggerGate ==
    ASSUME PolicyInv, NEW c \in Commit, PushMain(c) \/ OpenPR(c) \/ UpdatePR(c) PROVE PolicyInv'
<1>1. PolicyTypeOK
  BY DEF PolicyInv
<1>2. ASSUME NEW g \in Group, NEW base \in Commit, Trigger(g, base, c), main \in Anc[c],
             g = "push" => base = main
      PROVE  /\ runs' \subseteq Run /\ RunsSound' /\ Started(g, base, c) \in runs'
             /\ \A q \in runs : q.group = "push" =>
                   \E r \in runs' : r.group = q.group /\ r.base = q.base /\ r.head = q.head
  <2>1. Superseded(g) \subseteq Run
    BY <1>1, SupersededKeeps
  <2>2. runs' = Superseded(g) \cup {Started(g, base, c)}
    BY <1>2 DEF Trigger
  <2>3. \A r \in Superseded(g) :
           \E q \in runs : /\ r.group = q.group /\ r.base = q.base /\ r.head = q.head
                           /\ r.target = q.target
                           /\ r.verdict = q.verdict \/ r.verdict = "cancelled"
    BY <1>1, SupersededKeeps
  <2>4. runs' \subseteq Run /\ RunsSound'
    BY <1>2, <2>1, <2>2, <2>3, EventSound
  <2>5. \A q \in runs : q.group = "push" =>
           \E r \in Superseded(g) : r.group = q.group /\ r.base = q.base /\ r.head = q.head
    BY <1>1, SupersededKeeps
  <2>6. QED
    BY <2>2, <2>4, <2>5
<1>3. CASE PushMain(c)
  <2>1. /\ runs' \subseteq Run /\ RunsSound' /\ Started("push", main, c) \in runs'
        /\ \A q \in runs : q.group = "push" =>
              \E r \in runs' : r.group = q.group /\ r.base = q.base /\ r.head = q.head
    BY <1>1, <1>2, <1>3 DEF PushMain, Group, PolicyTypeOK
  <2>2. PushesTile'
    BY <1>3, <2>1, TilesGrow DEF PushMain
  <2>3. QED
    BY <1>1, <1>3, <2>1, <2>2 DEF PushMain, PolicyInv, PolicyTypeOK
<1>4. CASE OpenPR(c) \/ UpdatePR(c)
  <2>1. \E base \in Commit : Trigger("pull_request", base, c)
    BY <1>1, <1>4 DEF OpenPR, UpdatePR, PolicyTypeOK, Tip
  <2>2. main \in Anc[c] /\ pr' = c /\ UNCHANGED main
    BY <1>4 DEF OpenPR, UpdatePR
  <2>3. /\ runs' \subseteq Run /\ RunsSound'
        /\ \A q \in runs : q.group = "push" =>
              \E r \in runs' : r.group = q.group /\ r.base = q.base /\ r.head = q.head
    BY <1>2, <2>1, <2>2 DEF Group
  <2>4. PushesTile'
    BY <2>2, <2>3, TilesStay
  <2>5. QED
    BY <1>1, <2>2, <2>3, <2>4 DEF PolicyInv, PolicyTypeOK, Tip
<1>5. QED
  BY <1>3, <1>4

LEMMA RunGateKeeps == ASSUME PolicyInv, NEW r \in runs, RunGate(r) PROVE PolicyInv'
<1> DEFINE s == [r EXCEPT !.verdict = IF PolicyClean(r.base, r.head, r.target) THEN "green" ELSE "red"]
<1>1. PolicyTypeOK /\ RunsSound /\ r \in Run
  BY DEF PolicyInv, PolicyTypeOK
<1>2. runs' = (runs \ {r}) \cup {s} /\ UNCHANGED <<main, pr>>
  BY DEF RunGate
<1>3. /\ s \in Run /\ s.group = r.group /\ s.base = r.base /\ s.head = r.head
      /\ s.target = r.target
      /\ s.verdict = IF PolicyClean(r.base, r.head, r.target) THEN "green" ELSE "red"
  BY <1>1 DEF Run, Verdict
<1> HIDE DEF s
<1>4. PolicyTypeOK'
  BY <1>1, <1>2, <1>3 DEF PolicyTypeOK
<1>5. RunsSound'
  <2> DEFINE Sound(q) ==
          /\ q.target \in Anc[q.head]
          /\ q.group = "push" => q.target = q.base /\ q.base \in Anc[q.head]
          /\ q.verdict = "green" =>
                \A c \in Listed(q.base, WalkedTip(q.base, q.head, q.target)) :
                    TrustedHuman(PolicyAt[q.base], SignatureOf[c])
  <2>1. \A q \in runs : Sound(q)
    BY <1>1 DEF RunsSound
  <2>2. PolicyClean(r.base, r.head, r.target) =>
            \A c \in Listed(r.base, WalkedTip(r.base, r.head, r.target)) :
                TrustedHuman(PolicyAt[r.base], SignatureOf[c])
    BY DEF PolicyClean
  <2>3. Sound(s)
    <3>1. Sound(r)
      BY <2>1
    <3>2. s.verdict = "green" => PolicyClean(r.base, r.head, r.target)
      BY <1>3
    <3>3. QED
      BY <1>3, <2>2, <3>1, <3>2
  <2> HIDE DEF Sound
  <2>4. \A q \in runs' : Sound(q)
    BY <1>2, <2>1, <2>3
  <2>5. QED
    BY <2>4 DEF RunsSound, Sound
<1>6. PushesTile'
  <2>1. \A q \in runs : \E t \in runs' : t.group = q.group /\ t.base = q.base /\ t.head = q.head
    BY <1>2, <1>3
  <2>2. QED
    BY <1>2, <2>1, TilesStay
<1>7. QED
  BY <1>4, <1>5, <1>6 DEF PolicyInv

LEMMA MergeKeeps == ASSUME PolicyInv, MergePR PROVE PolicyInv'
<1>1. PolicyTypeOK
  BY DEF PolicyInv
<1>2. PICK r \in runs :
          /\ r.group = "pull_request" /\ r.head = pr /\ main \in Anc[pr]
          /\ main' = pr /\ pr' = NoCommit
          /\ runs' = (Superseded("push") \ {r})
                       \cup {[r EXCEPT !.merged = TRUE], Started("push", main, pr)}
  BY DEF MergePR
<1> DEFINE s == [r EXCEPT !.merged = TRUE]
           rs == (Superseded("push") \ {r}) \cup {s}
<1>3. pr \in Commit /\ r \in Run
  BY <1>1, <1>2 DEF PolicyTypeOK, Run
<1>4. /\ s \in Run /\ s.group = r.group /\ s.base = r.base /\ s.head = r.head
      /\ s.target = r.target /\ s.verdict = r.verdict
  BY <1>3 DEF Run
<1>5. /\ Superseded("push") \subseteq Run
      /\ \A t \in Superseded("push") :
            \E q \in runs : /\ t.group = q.group /\ t.base = q.base /\ t.head = q.head
                            /\ t.target = q.target
                            /\ t.verdict = q.verdict \/ t.verdict = "cancelled"
      /\ \A q \in runs : q.group = "push" =>
            \E t \in Superseded("push") : t.group = q.group /\ t.base = q.base /\ t.head = q.head
  BY <1>1, SupersededKeeps DEF Group
<1>6. runs' = rs \cup {Started("push", main, pr)}
  BY <1>2
<1> HIDE DEF s
<1>7. rs \in SUBSET Run
  BY <1>4, <1>5
<1>8. ASSUME NEW t \in rs
      PROVE  \E q \in runs : /\ t.group = q.group /\ t.base = q.base /\ t.head = q.head
                             /\ t.target = q.target
                             /\ t.verdict = q.verdict \/ t.verdict = "cancelled"
  <2>1. CASE t = s
    BY <1>4, <2>1
  <2>2. CASE t \in Superseded("push")
    BY <1>5, <2>2
  <2>3. QED
    BY <1>8, <2>1, <2>2
<1>9. \A q \in runs : q.group = "push" =>
         \E t \in runs' : t.group = q.group /\ t.base = q.base /\ t.head = q.head
  <2>1. SUFFICES ASSUME NEW q \in runs, q.group = "push"
                 PROVE  \E t \in runs' : t.group = q.group /\ t.base = q.base /\ t.head = q.head
    OBVIOUS
  <2>2. PICK t \in Superseded("push") : t.group = q.group /\ t.base = q.base /\ t.head = q.head
    BY <1>5, <2>1
  <2>3. t # r
    BY <1>2, <2>1, <2>2
  <2>4. QED
    BY <1>6, <2>2, <2>3
<1> HIDE DEF rs
<1>10. main \in Commit
  BY <1>1 DEF PolicyTypeOK
<1>11. runs' \subseteq Run /\ RunsSound'
  <2>1. "push" \in Group
    BY DEF Group
  <2>2. \A t \in rs :
           \E q \in runs : /\ t.group = q.group /\ t.base = q.base /\ t.head = q.head
                           /\ t.target = q.target
                           /\ t.verdict = q.verdict \/ t.verdict = "cancelled"
    BY <1>8
  <2>3. rs \cup {Started("push", main, pr)} = runs'
    BY <1>6
  <2>4. main \in Anc[pr]
    BY <1>2
  <2>5. QED
    BY <1>3, <1>7, <1>10, <2>1, <2>2, <2>3, <2>4, EventSound
<1>12. PushesTile'
  BY <1>2, <1>3, <1>6, <1>9, TilesGrow
<1>13. QED
  BY <1>2, <1>3, <1>11, <1>12 DEF PolicyInv, PolicyTypeOK, Tip

LEMMA AlwaysGate == PolicySpec => []PolicyInv
<1>1. PolicyInv /\ [PolicyNext]_policyVars => PolicyInv'
  <2>1. PolicyInv /\ UNCHANGED policyVars => PolicyInv'
    BY DEF policyVars, PolicyInv, PolicyTypeOK, RunsSound, PushesTile
  <2>2. PolicyInv /\ PolicyNext => PolicyInv'
    BY TriggerGate, RunGateKeeps, MergeKeeps DEF PolicyNext
  <2>3. QED
    BY <2>1, <2>2
<1>2. QED
  BY InitPolicy, <1>1, PTL DEF PolicySpec

\* Every variable of PolicyGate has its type, for any history, policies and
\* signatures.
THEOREM PolicyTypeCorrect == PolicySpec => []PolicyTypeOK
<1>1. PolicyInv => PolicyTypeOK
  BY DEF PolicyInv
<1>2. QED
  BY <1>1, AlwaysGate, PTL

-----------------------------------------------------------------------------
(***************************************************************************)
(* What a green run vouches for.                                           *)
(***************************************************************************)
\* What is in a run's walk is in its range.
LEMMA WalkedBehind ==
    ASSUME PolicyInv, NEW r \in runs
    PROVE  /\ r.base \in Commit /\ r.head \in Commit
           /\ WalkedTip(r.base, r.head, r.target) \in Commit
           /\ CommitRange(r.base, WalkedTip(r.base, r.head, r.target))
                \subseteq CommitRange(r.base, r.head)
<1>1. r.base \in Commit /\ r.head \in Commit /\ r.target \in Commit
  BY DEF PolicyInv, PolicyTypeOK, Run
<1>2. r.target \in Anc[r.head] /\ r.head \in Anc[r.head]
  BY <1>1, Family DEF PolicyInv, RunsSound
<1>3. WalkedTip(r.base, r.head, r.target) \in Anc[r.head]
  BY <1>2 DEF WalkedTip
<1>4. QED
  BY <1>1, <1>3, Family DEF CommitRange

LEMMA GreenTrusted ==
    ASSUME PolicyInv, NEW r \in runs, r.verdict = "green"
    PROVE  TrustedEdits(r.base, r.head, r.target)
<1> DEFINE tip == WalkedTip(r.base, r.head, r.target)
<1>1. /\ r.base \in Commit /\ r.head \in Commit /\ tip \in Commit
      /\ CommitRange(r.base, tip) \subseteq CommitRange(r.base, r.head)
  BY WalkedBehind
<1>2. ASSUME NEW e \in Edits(r.base, r.head), ~PassedOver(e, r.base, r.head, r.target)
      PROVE  TrustedHuman(PolicyAt[r.base], SignatureOf[e])
  <2>1. e \in Anc[r.head] /\ e \notin Anc[r.base] /\ IsEdit(e)
    BY <1>2 DEF Edits, CommitRange
  <2>2. e \in CommitRange(r.base, tip)
    BY <1>2, <2>1 DEF CommitRange, PassedOver
  <2>3. \A m \in CommitRange(r.base, tip) : \A p \in Relevant(m, r.base) :
            ~(PolicyAt[p] = PolicyAt[m] /\ e \in Anc[m] \ Anc[p])
    BY <1>1, <1>2 DEF PassedOver
  <2> HIDE DEF tip
  <2>4. e \in Listed(r.base, tip)
    BY <1>1, <2>1, <2>2, <2>3, EditsListed
  <2>5. QED
    BY <1>2, <2>4 DEF PolicyInv, RunsSound, tip
<1>3. QED
  BY <1>2 DEF TrustedEdits

\* "A push can never promote an ai/ci key to human and use it in the same push"
\* (signers.rs verify_policy_changes): every policy edit in the range of a green
\* run is signed by a human of the policy at its base, but for those that a merge
\* drops and git's walk passes over; for any history, policies, signatures and
\* order of events.
THEOREM GreenIsTrusted == PolicySpec => []GreenRangeTrusted
<1>1. PolicyInv => GreenRangeTrusted
  BY GreenTrusted DEF GreenRangeTrusted
<1>2. QED
  BY <1>1, AlwaysGate, PTL

LEMMA RootedByTiles == ASSUME PolicyInv PROVE MainRooted
<1>1. SUFFICES ASSUME \A r \in runs : r.group = "push" => r.verdict = "green",
                      NEW e \in Edits(Start, main)
               PROVE  \E r \in runs : /\ r.group = "push" /\ e \in CommitRange(r.base, r.head)
                                      /\ \/ TrustedHuman(PolicyAt[r.base], SignatureOf[e])
                                         \/ PassedOver(e, r.base, r.head, r.target)
  BY DEF MainRooted
<1>2. e \in CommitRange(Start, main) /\ IsEdit(e)
  BY <1>1 DEF Edits
<1>3. PICK r \in runs : r.group = "push" /\ e \in CommitRange(r.base, r.head)
  BY <1>2 DEF PolicyInv, PushesTile
<1>4. TrustedEdits(r.base, r.head, r.target)
  BY <1>1, <1>3, GreenTrusted
<1>5. e \in Edits(r.base, r.head)
  BY <1>2, <1>3 DEF Edits
<1>6. QED
  BY <1>3, <1>4, <1>5 DEF TrustedEdits

\* The ranges of successive pushes and merges leave no edit of the default branch
\* out: while every push's run is green, each was signed by a human of the policy
\* before its push (agent-signing-verify.yml BASE and HEAD), or dropped by a merge
\* of that push.
THEOREM BranchIsRooted == PolicySpec => []MainRooted
<1>1. PolicyInv => MainRooted
  BY RootedByTiles
<1>2. QED
  BY <1>1, AlwaysGate, PTL

\* Follow a policy from the tip of the walk down to the oldest commit of the walk
\* that has it: git lists it, or it has the policy from behind the base, or it is
\* a root without a policy.
LEMMA ChangeIsListed ==
    ASSUME NEW base \in Commit, NEW tip \in Commit, tip \notin Anc[base],
           NEW top \in Commit, PolicyAt[top] = PolicyAt[tip],
           CommitRange(base, tip) \subseteq CommitRange(base, top)
    PROVE  \/ TakenBack(base, top)
           \/ \E c \in Listed(base, tip) : PolicyAt[c] = PolicyAt[tip]
<1> DEFINE D == {c \in Walk(base, tip) : PolicyAt[c] = PolicyAt[tip]}
<1>1. D \in SUBSET Commit /\ D # {}
  BY WalkIsClosed DEF Walk
<1>2. PICK c \in D : \A p \in ParentSet(c) : p \notin D
  BY <1>1, Oldest
<1>3. /\ c \in Commit /\ c \in Walk(base, tip) /\ PolicyAt[c] = PolicyAt[tip]
      /\ \A p \in FollowedParents(c, base) : p \in Walk(base, tip)
  BY <1>1, <1>2, WalkIsClosed
<1>4. CASE ~TreeSame(c, base)
  BY <1>3, <1>4 DEF Listed
<1>5. CASE SameParents(c, base) # {}
  <2>1. PICK p \in ParentSet(c) : FollowedParents(c, base) = {p} /\ PolicyAt[p] = PolicyAt[c]
    BY <1>3, <1>5, FollowedAreRelevant
  <2>2. p \in D
    BY <1>3, <2>1
  <2>3. QED
    BY <1>2, <2>1, <2>2
<1>6. CASE TreeSame(c, base) /\ SameParents(c, base) = {}
  <2>1. /\ Relevant(c, base) = {}
        /\ \A p \in ParentSet(c) : PolicyAt[p] = PolicyAt[c]
        /\ ParentSet(c) = {} => PolicyAt[c] = <<>>
    BY <1>6 DEF TreeSame
  <2>2. CASE ParentSet(c) = {}
    <3>1. c \in CommitRange(base, top)
      BY <1>3, WalkIsBehind
    <3>2. QED
      BY <1>3, <2>1, <2>2, <3>1 DEF TakenBack
  <2>3. CASE ParentSet(c) # {}
    <3>1. PICK p \in ParentSet(c) : TRUE
      BY <2>3
    <3>2. p \in Anc[base] /\ PolicyAt[p] = PolicyAt[top]
      BY <1>3, <2>1, <3>1 DEF Relevant
    <3>3. QED
      BY <3>2 DEF TakenBack
  <2>4. QED
    BY <2>2, <2>3
<1>7. QED
  BY <1>4, <1>5, <1>6

\* "Reject any commit in base..head that MODIFIES the signer policy unless that
\* commit is signed by a HUMAN who was already trusted" (verify_policy_changes):
\* in any history, a green run over a range that changes the policy has found a
\* human's signature on a commit with the new one, unless the new one is an old
\* one taken back.
THEOREM GreenHasHuman == PolicySpec => []GreenChangeHasHuman
<1>1. ASSUME PolicyInv PROVE GreenChangeHasHuman
  <2>1. SUFFICES ASSUME NEW r \in runs, r.verdict = "green", r.base \in Anc[r.head],
                        PolicyAt[r.head] # PolicyAt[r.base]
                 PROVE  \/ TakenBack(r.base, r.head)
                        \/ \E c \in CommitRange(r.base, r.head) :
                              /\ PolicyAt[c] = PolicyAt[r.head]
                              /\ TrustedHuman(PolicyAt[r.base], SignatureOf[c])
    BY DEF GreenChangeHasHuman
  <2> DEFINE tip == WalkedTip(r.base, r.head, r.target)
  <2>2. /\ r.base \in Commit /\ r.head \in Commit /\ tip \in Commit
        /\ CommitRange(r.base, tip) \subseteq CommitRange(r.base, r.head)
    BY <1>1, WalkedBehind
  <2>3. r.head \notin Anc[r.base]
    BY <2>1, <2>2, Antisymmetric
  <2>4. tip \notin Anc[r.base] /\ PolicyAt[r.head] = PolicyAt[tip]
    BY <2>3 DEF WalkedTip
  <2>5. \A c \in Listed(r.base, tip) : TrustedHuman(PolicyAt[r.base], SignatureOf[c])
    BY <1>1, <2>1 DEF PolicyInv, RunsSound
  <2> HIDE DEF tip
  <2>6. \/ TakenBack(r.base, r.head)
        \/ \E c \in Listed(r.base, tip) : PolicyAt[c] = PolicyAt[tip]
    BY <2>2, <2>4, ChangeIsListed
  <2>7. Listed(r.base, tip) \subseteq CommitRange(r.base, r.head)
    BY <2>2, WalkIsBehind DEF Listed
  <2>8. QED
    BY <2>4, <2>5, <2>6, <2>7
<1>2. QED
  BY <1>1, AlwaysGate, PTL
=============================================================================
