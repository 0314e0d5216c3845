------------------------ MODULE WorkflowEvidenceProofs ------------------------
(***************************************************************************)
(* Proofs about WorkflowEvidence. What the recogniser calls proof delivers *)
(* whatever the workflows look like, not only those a few edits away from  *)
(* an instance's; and init leaves behind what verify accepts.              *)
(***************************************************************************)
EXTENDS WorkflowEvidence, FiniteSetTheorems, WellFoundedInduction, SequenceTheorems, TLAPS

(***************************************************************************)
(* Parsed files as sets.                                                   *)
(***************************************************************************)
Documented ==
    [on : UNION {[T -> Filters] : T \in SUBSET Triggers},
     perms : Permissions,
     jobs : UNION {[J -> Jobs] : J \in SUBSET JobNames}]
Files == [at : {"absent", "directory", "garbled", "yaml"}, docs : Seq(Documented)]

LEMMA DocumentedIs == ASSUME NEW doc PROVE IsDocument(doc) <=> doc \in Documented
<1>1. ASSUME IsDocument(doc) PROVE doc \in Documented
  <2>1. /\ doc = [on |-> doc.on, perms |-> doc.perms, jobs |-> doc.jobs]
        /\ doc.on \in [DOMAIN doc.on -> Filters]
        /\ doc.perms \in Permissions
        /\ doc.jobs \in [DOMAIN doc.jobs -> Jobs]
    BY <1>1 DEF IsDocument
  <2>2. DOMAIN doc.on \in SUBSET Triggers /\ DOMAIN doc.jobs \in SUBSET JobNames
    BY <1>1 DEF IsDocument
  <2>3. QED
    BY <2>1, <2>2 DEF Documented
<1>2. ASSUME doc \in Documented PROVE IsDocument(doc)
  <2>1. /\ doc = [on |-> doc.on, perms |-> doc.perms, jobs |-> doc.jobs]
        /\ doc.perms \in Permissions
    BY <1>2 DEF Documented
  <2>2. PICK T \in SUBSET Triggers : doc.on \in [T -> Filters]
    BY <1>2 DEF Documented
  <2>3. PICK J \in SUBSET JobNames : doc.jobs \in [J -> Jobs]
    BY <1>2 DEF Documented
  <2>4. DOMAIN doc.on = T /\ DOMAIN doc.jobs = J
    BY <2>2, <2>3
  <2>5. QED
    BY <2>1, <2>2, <2>3, <2>4 DEF IsDocument
<1>3. QED
  BY <1>1, <1>2

LEMMA FilesAre == ASSUME NEW file PROVE IsParsed(file) => file \in Files
<1>1. SUFFICES ASSUME IsParsed(file) PROVE file \in Files
  OBVIOUS
<1>2. /\ file = [at |-> file.at, docs |-> file.docs]
      /\ file.at \in {"absent", "directory", "garbled", "yaml"}
      /\ file.docs \in Seq(Documents(file))
  BY <1>1 DEF IsParsed
<1>3. Documents(file) \subseteq Documented
  BY <1>1, DocumentedIs DEF IsParsed
<1>4. file.docs \in Seq(Documented)
  BY <1>2, <1>3
<1>5. QED
  BY <1>2, <1>4 DEF Files

-----------------------------------------------------------------------------
(***************************************************************************)
(* Evidence is monotone in the files.                                      *)
(***************************************************************************)
LEMMA ProvingGrows ==
    ASSUME NEW kind, NEW modular, NEW files, NEW part, NEW p,
           DOMAIN part \subseteq DOMAIN files,
           \A q \in DOMAIN part : part[q] = files[q],
           p \in ProvingFiles(kind, part, modular)
    PROVE  p \in ProvingFiles(kind, files, modular)
<1>1. p \in DOMAIN part /\ p \in DOMAIN files /\ part[p] = files[p]
  BY DEF ProvingFiles, Carriers
<1>2. p \in Carriers(kind, files, modular) /\ ShapeSound(files[p])
  BY <1>1 DEF ProvingFiles, Carriers
<1>3. PICK doc \in Documents(files[p]) :
          Fires(kind, part, p, doc) /\ "proven" \in DocEvidence(kind, doc)
  BY <1>1 DEF ProvingFiles
<1>4. Fires(kind, files, p, doc)
  <2>1. AutomaticCaller(kind, part, p) => AutomaticCaller(kind, files, p)
    BY DEF AutomaticCaller
  <2>2. QED
    BY <1>3, <2>1 DEF Fires
<1>5. QED
  BY <1>2, <1>3, <1>4 DEF ProvingFiles

LEMMA EvidenceGrows ==
    ASSUME NEW kind, NEW modular, NEW files, NEW part,
           DOMAIN part \subseteq DOMAIN files,
           \A q \in DOMAIN part : part[q] = files[q],
           ConsolidatedEvidence(kind, part, modular) = "proven"
    PROVE  ConsolidatedEvidence(kind, files, modular) = "proven"
<1>1. PICK p : p \in ProvingFiles(kind, part, modular)
  BY DEF ConsolidatedEvidence
<1>2. p \in ProvingFiles(kind, files, modular)
  BY <1>1, ProvingGrows
<1>3. QED
  BY <1>2 DEF ConsolidatedEvidence

\* A proof is not undone by what other files carry (consolidated_evidence), in
\* any repository.
THEOREM NothingHides == Spec => []DefectsHideNoProof
<1>1. DefectsHideNoProof
  <2> SUFFICES ASSUME NEW c \in ControlSet, NEW p \in DOMAIN CommittedWorkflows(disk) \ {Dest[c]}
               PROVE  LET files == CommittedWorkflows(disk)
                          callers == {q \in DOMAIN files :
                                         \E doc \in Documents(files[q]) :
                                             \E j \in DOMAIN doc.jobs : doc.jobs[j].uses = p}
                          alone == [q \in {p} \cup callers |-> files[q]]
                      IN  ConsolidatedEvidence(c, alone, Dest[c]) = "proven"
                            => Evidence(c, disk) = "proven"
    BY DEF DefectsHideNoProof
  <2> DEFINE files == CommittedWorkflows(disk)
             callers == {q \in DOMAIN files :
                            \E doc \in Documents(files[q]) :
                                \E j \in DOMAIN doc.jobs : doc.jobs[j].uses = p}
             alone == [q \in {p} \cup callers |-> files[q]]
  <2>1. DOMAIN alone \subseteq DOMAIN files /\ \A q \in DOMAIN alone : alone[q] = files[q]
    OBVIOUS
  <2> HIDE DEF alone
  <2>2. ConsolidatedEvidence(c, alone, Dest[c]) = "proven"
          => ConsolidatedEvidence(c, files, Dest[c]) = "proven"
    BY <2>1, EvidenceGrows
  <2>3. QED
    BY <2>2 DEF Evidence, alone
<1>2. QED
  BY <1>1, PTL

-----------------------------------------------------------------------------
(***************************************************************************)
(* What one job proves, it makes.                                          *)
(***************************************************************************)
LEMMA Least ==
    ASSUME NEW T, T \subseteq Nat, T # {} PROVE \E n \in T : \A m \in T : n <= m
<1> DEFINE Less == {ss \in Nat \X Nat : ss[1] < ss[2]}
<1>1. IsWellFoundedOn(Less, Nat)
  BY NatLessThanWellFounded DEF OpToRel
<1>2. \A m, n \in Nat : <<m, n>> \in Less <=> m < n
  OBVIOUS
<1> HIDE DEF Less
<1>3. PICK n \in T : \A m \in T : ~(<<m, n>> \in Less)
  BY <1>1, WFMin
<1>4. ASSUME NEW m \in T PROVE n <= m
  <2>1. m \in Nat /\ n \in Nat
    OBVIOUS
  <2>2. ~(m < n)
    BY <1>2, <1>3, <2>1
  <2>3. QED
    BY <2>1, <2>2
<1>5. QED
  BY <1>4

LEMMA FirstIn == ASSUME NEW S, S \subseteq Nat, S # {} PROVE First(S) \in S
<1>1. \E i \in S : \A k \in S : i <= k
  BY Least
<1>2. First(S) = CHOOSE i \in S : \A k \in S : i <= k
  BY DEF First
<1>3. QED
  BY <1>1, <1>2

\* A grant that is asked for is declared, so the job's token is its own.
LEMMA TokenHas ==
    ASSUME NEW kind \in Kinds, NEW doc, NEW job, NEW held,
           HasScopes(EffectivePermissions(doc, job), kind)
    PROVE  HasScopes(Token(doc, job, held), kind)
<1>1. RequiredScopes(kind) # {}
  BY DEF RequiredScopes
<1>2. EffectivePermissions(doc, job).declared
  BY <1>1 DEF HasScopes, Grants
<1>3. QED
  BY <1>2 DEF Token

LEMMA SigstoreMakes ==
    ASSUME NEW doc, NEW j, NEW job \in Jobs, NEW token, NEW fault,
           SigstoreJobEvidence(doc, job) = "proven", HasScopes(token, "sigstore-signing"),
           \A i \in DOMAIN job.steps : ~Breaks("sigstore-signing", token, j, job, i, fault)
    PROVE  Made("sigstore-signing", token, j, job, fault)
<1> DEFINE signing == Positions(job, "sign")
           installers == Positions(job, "install")
           f == First(installers)
<1>1. /\ signing # {} /\ installers # {}
      /\ StepRunsAndCounts(job.steps[f]) /\ \A s \in signing : f < s
      /\ \A s \in signing : job.steps[s].bound /\ StepRunsAndCounts(job.steps[s])
  BY DEF SigstoreJobEvidence, Verdict
<1>2. job.steps \in Seq(Steps) /\ DOMAIN job.steps = 1 .. Len(job.steps) /\ Len(job.steps) \in Nat
  BY DEF Jobs
<1>3. signing \subseteq DOMAIN job.steps /\ installers \subseteq DOMAIN job.steps
  BY DEF Positions
<1>4. f \in installers
  BY <1>1, <1>2, <1>3, FirstIn
<1>5. PICK s \in signing : TRUE
  BY <1>1
<1>6. job.steps[f].does = "install" /\ job.steps[s].does = "sign"
  BY <1>4 DEF Positions
<1> HIDE DEF f, signing, installers
<1>7. f \in DOMAIN job.steps /\ s \in DOMAIN job.steps /\ f < s
  BY <1>1, <1>3, <1>4
<1>8. /\ Runs(job.steps[f]) /\ ~job.steps[f].coe
      /\ Runs(job.steps[s]) /\ ~job.steps[s].coe /\ job.steps[s].bound
  BY <1>1 DEF StepRunsAndCounts, ConstantFalse, Runs
<1>9. /\ ~Fails("sigstore-signing", token, j, job, f, fault)
      /\ ~Fails("sigstore-signing", token, j, job, s, fault)
  BY <1>6, <1>7, <1>8 DEF Breaks
<1>10. \A i \in DOMAIN job.steps : Reached("sigstore-signing", token, j, job, i, fault)
  BY <1>2 DEF Reached
<1>11. QED
  BY <1>4, <1>5, <1>7, <1>8, <1>9, <1>10 DEF Made, signing, installers

LEMMA AttestMakes ==
    ASSUME NEW kind \in {"github-attestations", "sbom-attestation"},
           NEW doc, NEW j, NEW job \in Jobs, NEW token, NEW fault,
           AttestJobEvidence(kind, doc, job) = "proven", HasScopes(token, kind),
           \A i \in DOMAIN job.steps : ~Breaks(kind, token, j, job, i, fault)
    PROVE  Made(kind, token, j, job, fault)
<1>1. PICK c \in Positions(job, kind) : StepRunsAndCounts(job.steps[c]) /\ job.steps[c].bound
  BY DEF AttestJobEvidence, Verdict
<1>2. c \in DOMAIN job.steps
  BY DEF Positions
<1>3. job.steps \in Seq(Steps) /\ DOMAIN job.steps = 1 .. Len(job.steps) /\ Len(job.steps) \in Nat
  BY DEF Jobs
<1>4. Runs(job.steps[c]) /\ ~job.steps[c].coe
  BY <1>1 DEF StepRunsAndCounts, ConstantFalse, Runs
<1>5. ~Fails(kind, token, j, job, c, fault)
  BY <1>1, <1>2, <1>4 DEF Breaks
<1>6. Reached(kind, token, j, job, c, fault)
  BY <1>2, <1>3 DEF Reached
<1>7. QED
  BY <1>1, <1>4, <1>5, <1>6 DEF Made

LEMMA SlsaMakes ==
    ASSUME NEW doc, NEW j, NEW job, NEW token, NEW fault,
           SlsaJobEvidence(doc, job) = "proven", HasScopes(token, "slsa-provenance"),
           fault # <<j, 0>>
    PROVE  Made("slsa-provenance", token, j, job, fault)
<1>1. job.uses = "generator" /\ ~PinDefect(job.uses, job.ref) /\ job.bound
  BY DEF SlsaJobEvidence, Verdict
<1>2. job.ref = "tag"
  BY <1>1 DEF PinDefect
<1>3. QED
  BY <1>1, <1>2 DEF Made

\* A job that proves a control makes its deliverable, unless a fault turns it red.
LEMMA ProvenMakes ==
    ASSUME NEW kind \in Kinds, NEW doc, NEW j, NEW job \in Jobs, NEW held, NEW fault,
           JobEvidence(kind, doc, job) = "proven",
           fault = <<>> \/ Green(kind, Token(doc, job, held), j, job, fault)
    PROVE  /\ ~JobSwitchedOff(job)
           /\ Made(kind, Token(doc, job, held), j, job, fault)
<1> DEFINE token == Token(doc, job, held)
<1>1. ~JobSwitchedOff(job) /\ HasScopes(EffectivePermissions(doc, job), kind)
  <2>1. CASE kind = "sigstore-signing"
    BY <2>1 DEF JobEvidence, SigstoreJobEvidence, Verdict
  <2>2. CASE kind = "slsa-provenance"
    BY <2>2 DEF JobEvidence, SlsaJobEvidence, Verdict
  <2>3. CASE kind \notin {"sigstore-signing", "slsa-provenance"}
    BY <2>3 DEF JobEvidence, AttestJobEvidence, Verdict
  <2>4. QED
    BY <2>1, <2>2, <2>3
<1>2. HasScopes(token, kind)
  BY <1>1, TokenHas
<1>3. \A i : fault = <<>> => fault # <<j, i>>
  OBVIOUS
<1> HIDE DEF token
<1>4. \A i \in DOMAIN job.steps : ~Breaks(kind, token, j, job, i, fault)
  <2>1. CASE fault = <<>>
    BY <1>2, <1>3, <2>1 DEF Breaks, Fails
  <2>2. CASE Green(kind, token, j, job, fault)
    BY <2>2 DEF Green
  <2>3. QED
    BY <2>1, <2>2 DEF token
<1>5. Made(kind, token, j, job, fault)
  <2>1. CASE kind = "sigstore-signing"
    BY <1>2, <1>4, <2>1, SigstoreMakes DEF JobEvidence
  <2>2. CASE kind = "slsa-provenance"
    <3>1. SlsaJobEvidence(doc, job) = "proven"
      BY <2>2 DEF JobEvidence
    <3>2. job.uses = "generator"
      BY <3>1 DEF SlsaJobEvidence, Verdict
    <3>3. fault # <<j, 0>>
      BY <1>3, <3>2 DEF Green
    <3>4. QED
      BY <1>2, <2>2, <3>1, <3>3, SlsaMakes
  <2>3. CASE kind \in {"github-attestations", "sbom-attestation"}
    <3>1. AttestJobEvidence(kind, doc, job) = "proven"
      BY <2>3 DEF JobEvidence
    <3>2. QED
      BY <1>2, <1>4, <2>3, <3>1, AttestMakes
  <2>4. QED
    BY <2>1, <2>2, <2>3 DEF Kinds
<1>6. QED
  BY <1>1, <1>5 DEF token

-----------------------------------------------------------------------------
(***************************************************************************)
(* What a document proves, a run of it delivers.                           *)
(***************************************************************************)
LEMMA AllStart ==
    ASSUME NEW kind, NEW doc \in Documented, NEW held, NEW fault,
           \A j \in DOMAIN doc.jobs : doc.jobs[j].needs = {},
           NEW j \in DOMAIN doc.jobs, Runs(doc.jobs[j])
    PROVE  j \in Started(kind, doc, held, fault)
<1> DEFINE N == Cardinality(DOMAIN doc.jobs)
           running == {k \in DOMAIN doc.jobs : Runs(doc.jobs[k])}
           succeeded(k) == \/ doc.jobs[k].coe
                           \/ Green(kind, Token(doc, doc.jobs[k], held), k, doc.jobs[k], fault)
           Round(f) == [n \in 0 .. N |->
                          IF n = 0 THEN {}
                          ELSE {k \in DOMAIN doc.jobs :
                                  /\ Runs(doc.jobs[k])
                                  /\ \A l \in doc.jobs[k].needs : l \in f[n - 1] /\ succeeded(l)}]
           g == [n \in 0 .. N |-> IF n = 0 THEN {} ELSE running]
           round == CHOOSE f : f = Round(f)
<1>1. N \in Nat /\ N # 0
  <2>1. DOMAIN doc.jobs \in SUBSET JobNames
    BY DEF Documented
  <2>2. IsFiniteSet(DOMAIN doc.jobs)
    BY <2>1, ScopesAssumption, FS_Subset
  <2>3. QED
    BY <2>2, FS_CardinalityType, FS_EmptySet
<1>2. Round(g) = g
  OBVIOUS
<1>3. round = Round(round)
  BY <1>2
<1>4. Started(kind, doc, held, fault) = round[N]
  BY DEF Started
<1> HIDE DEF round
<1>5. round[N] = running
  BY <1>1, <1>3
<1>6. QED
  BY <1>4, <1>5

LEMMA ProvenAssures ==
    ASSUME NEW kind \in Kinds, NEW doc \in Documented, NEW held,
           \A j \in DOMAIN doc.jobs : doc.jobs[j].needs = {},
           NEW j \in DOMAIN doc.jobs, JobEvidence(kind, doc, doc.jobs[j]) = "proven"
    PROVE  Assured(kind, doc, held)
<1> DEFINE job == doc.jobs[j]
<1>1. job \in Jobs
  BY DEF Documented
<1>2. SUFFICES ASSUME NEW fault \in Faults(doc)
               PROVE  /\ fault = <<>> => Outcome(kind, doc, held, fault).made
                      /\ Outcome(kind, doc, held, fault).green => Outcome(kind, doc, held, fault).made
  BY DEF Assured
<1>3. ~JobSwitchedOff(job)
  <2>1. SigstoreJobEvidence(doc, job) = "proven" => ~JobSwitchedOff(job)
    BY DEF SigstoreJobEvidence, Verdict
  <2>2. SlsaJobEvidence(doc, job) = "proven" => ~JobSwitchedOff(job)
    BY DEF SlsaJobEvidence, Verdict
  <2>3. AttestJobEvidence(kind, doc, job) = "proven" => ~JobSwitchedOff(job)
    BY DEF AttestJobEvidence, Verdict
  <2>4. QED
    BY <2>1, <2>2, <2>3 DEF JobEvidence
<1>4. Runs(job) /\ ~job.coe
  BY <1>3 DEF JobSwitchedOff, ConstantFalse, Runs
<1>5. j \in Started(kind, doc, held, fault)
  BY <1>4, AllStart
<1>6. Outcome(kind, doc, held, fault).green => Green(kind, Token(doc, job, held), j, job, fault)
  BY <1>4, <1>5 DEF Outcome
<1>7. Made(kind, Token(doc, job, held), j, job, fault) => Outcome(kind, doc, held, fault).made
  BY <1>5 DEF Outcome
<1>8. fault = <<>> \/ Green(kind, Token(doc, job, held), j, job, fault)
        => Made(kind, Token(doc, job, held), j, job, fault)
  BY <1>1, ProvenMakes
<1>9. QED
  BY <1>6, <1>7, <1>8

(***************************************************************************)
(* Files with their `needs:` taken away.                                   *)
(***************************************************************************)
LEMMA WithoutNeedsIs ==
    ASSUME NEW doc \in Documented
    PROVE  /\ WithoutNeeds(doc) \in Documented
           /\ WithoutNeeds(doc).on = doc.on /\ WithoutNeeds(doc).perms = doc.perms
           /\ DOMAIN WithoutNeeds(doc).jobs = DOMAIN doc.jobs
           /\ \A j \in DOMAIN doc.jobs :
                 WithoutNeeds(doc).jobs[j] = [doc.jobs[j] EXCEPT !.needs = {}]
<1> DEFINE free == [j \in DOMAIN doc.jobs |-> [doc.jobs[j] EXCEPT !.needs = {}]]
<1>1. DOMAIN doc.jobs \in SUBSET JobNames /\ \A j \in DOMAIN doc.jobs : doc.jobs[j] \in Jobs
  BY DEF Documented
<1>2. \A j \in DOMAIN doc.jobs : free[j] \in Jobs
  BY <1>1 DEF Jobs
<1>3. free \in UNION {[J -> Jobs] : J \in SUBSET JobNames}
  <2>1. free \in [DOMAIN doc.jobs -> Jobs]
    BY <1>2
  <2> HIDE DEF free
  <2>2. QED
    BY <1>1, <2>1
<1>4. DOMAIN free = DOMAIN doc.jobs
  OBVIOUS
<1>5. WithoutNeeds(doc) = [doc EXCEPT !.jobs = free]
  BY DEF WithoutNeeds
<1>6. \A j \in DOMAIN doc.jobs : free[j] = [doc.jobs[j] EXCEPT !.needs = {}]
  OBVIOUS
<1> HIDE DEF free
<1>7. WithoutNeeds(doc) = [on |-> doc.on, perms |-> doc.perms, jobs |-> free]
  <2>1. doc = [on |-> doc.on, perms |-> doc.perms, jobs |-> doc.jobs]
    BY DEF Documented
  <2>2. QED
    BY <1>5, <2>1
<1>8. WithoutNeeds(doc) \in Documented
  BY <1>3, <1>7 DEF Documented
<1>9. QED
  BY <1>4, <1>6, <1>7, <1>8

LEMMA JobWithoutNeeds ==
    ASSUME NEW job \in Jobs
    PROVE  LET free == [job EXCEPT !.needs = {}]
           IN  /\ free \in Jobs /\ free.needs = {}
               /\ free.uses = job.uses /\ free.ref = job.ref /\ free.when = job.when
               /\ free.coe = job.coe /\ free.perms = job.perms /\ free.bound = job.bound
               /\ free.steps = job.steps
BY DEF Jobs

LEMMA EvidenceWithoutNeeds ==
    ASSUME NEW kind, NEW doc \in Documented, NEW j \in DOMAIN doc.jobs
    PROVE  LET free == WithoutNeeds(doc)
           IN  /\ JobEvidence(kind, free, free.jobs[j]) = JobEvidence(kind, doc, doc.jobs[j])
               /\ JobSwitchedOff(free.jobs[j]) = JobSwitchedOff(doc.jobs[j])
               /\ EffectivePermissions(free, free.jobs[j]) = EffectivePermissions(doc, doc.jobs[j])
<1> DEFINE free == WithoutNeeds(doc)
           job == free.jobs[j]
<1>1. doc.jobs[j] \in Jobs
  BY DEF Documented
<1>2. free.perms = doc.perms /\ job = [doc.jobs[j] EXCEPT !.needs = {}]
  BY WithoutNeedsIs
<1>3. /\ job.uses = doc.jobs[j].uses /\ job.ref = doc.jobs[j].ref /\ job.when = doc.jobs[j].when
      /\ job.coe = doc.jobs[j].coe /\ job.perms = doc.jobs[j].perms
      /\ job.bound = doc.jobs[j].bound /\ job.steps = doc.jobs[j].steps
  BY <1>1, <1>2, JobWithoutNeeds
<1> HIDE DEF job, free
<1>4. JobSwitchedOff(job) = JobSwitchedOff(doc.jobs[j])
  BY <1>3 DEF JobSwitchedOff, ConstantFalse
<1>5. EffectivePermissions(free, job) = EffectivePermissions(doc, doc.jobs[j])
  BY <1>2, <1>3 DEF EffectivePermissions
<1>6. \A what : Positions(job, what) = Positions(doc.jobs[j], what)
  BY <1>3 DEF Positions
<1>7. SigstoreJobEvidence(free, job) = SigstoreJobEvidence(doc, doc.jobs[j])
  BY <1>3, <1>4, <1>5, <1>6 DEF SigstoreJobEvidence
<1>8. AttestJobEvidence(kind, free, job) = AttestJobEvidence(kind, doc, doc.jobs[j])
  BY <1>3, <1>4, <1>5, <1>6 DEF AttestJobEvidence
<1>9. SlsaJobEvidence(free, job) = SlsaJobEvidence(doc, doc.jobs[j])
  BY <1>3, <1>4, <1>5 DEF SlsaJobEvidence
<1>10. QED
  BY <1>4, <1>5, <1>7, <1>8, <1>9 DEF JobEvidence, job, free

LEMMA BareIs ==
    ASSUME NEW files, NEW q \in DOMAIN files, files[q] \in Files
    PROVE  LET bare == NeedsIgnored(files)[q]
           IN  /\ q \in DOMAIN NeedsIgnored(files)
               /\ bare.at = files[q].at /\ DOMAIN bare.docs = DOMAIN files[q].docs
               /\ \A d \in DOMAIN files[q].docs : bare.docs[d] = WithoutNeeds(files[q].docs[d])
               /\ ShapeSound(files[q]) => ShapeSound(bare)
<1> DEFINE bare == NeedsIgnored(files)[q]
           docs == [d \in DOMAIN files[q].docs |-> WithoutNeeds(files[q].docs[d])]
<1>1. files[q] = [at |-> files[q].at, docs |-> files[q].docs] /\ files[q].docs \in Seq(Documented)
  BY DEF Files
<1>2. bare = [files[q] EXCEPT !.docs = docs]
  BY DEF NeedsIgnored
<1>3. bare.at = files[q].at /\ bare.docs = docs
  BY <1>1, <1>2
<1>4. DOMAIN docs = DOMAIN files[q].docs
  OBVIOUS
<1>5. \A d \in DOMAIN files[q].docs : docs[d] = WithoutNeeds(files[q].docs[d])
  OBVIOUS
<1> HIDE DEF bare, docs
<1>6. ASSUME ShapeSound(files[q]) PROVE ShapeSound(bare)
  <2> DEFINE doc == files[q].docs[1]
  <2>1. files[q].at = "yaml" /\ Len(files[q].docs) = 1 /\ DOMAIN doc.jobs # {}
    BY <1>6 DEF ShapeSound
  <2>2. DOMAIN files[q].docs = 1 .. 1 /\ doc \in Documented
    BY <1>1, <2>1
  <2>3. bare.docs[1] = WithoutNeeds(doc)
    BY <1>3, <1>5, <2>2
  <2>4. Len(bare.docs) = 1
    BY <1>3, <1>4, <2>2
  <2>5. \A j \in DOMAIN doc.jobs : doc.jobs[j] \in Jobs
    BY <2>2 DEF Documented
  <2>6. \A j \in DOMAIN doc.jobs : doc.jobs[j].steps # <<>> \/ doc.jobs[j].uses # NoUses
    BY <1>6 DEF ShapeSound
  <2> HIDE DEF doc
  <2>7. \A j \in DOMAIN doc.jobs :
           /\ bare.docs[1].jobs[j].needs = {} /\ bare.docs[1].jobs[j].uses = doc.jobs[j].uses
           /\ bare.docs[1].jobs[j].steps = doc.jobs[j].steps
    <3>1. SUFFICES ASSUME NEW j \in DOMAIN doc.jobs
                   PROVE  LET job == bare.docs[1].jobs[j]
                          IN  /\ job.needs = {} /\ job.uses = doc.jobs[j].uses
                              /\ job.steps = doc.jobs[j].steps
      OBVIOUS
    <3>2. bare.docs[1].jobs[j] = [doc.jobs[j] EXCEPT !.needs = {}]
      BY <2>2, <2>3, WithoutNeedsIs
    <3>3. doc.jobs[j] \in Jobs
      BY <2>5
    <3>4. QED
      BY <3>2, <3>3, JobWithoutNeeds
  <2>8. DOMAIN bare.docs[1].jobs = DOMAIN doc.jobs
    BY <2>2, <2>3, WithoutNeedsIs
  <2>9. QED
    BY <1>3, <2>1, <2>4, <2>6, <2>7, <2>8 DEF ShapeSound
<1>7. QED
  BY <1>3, <1>4, <1>5, <1>6 DEF bare, NeedsIgnored

LEMMA NoNeeds ==
    ASSUME NEW doc \in Documented
    PROVE  \A j \in DOMAIN doc.jobs : WithoutNeeds(doc).jobs[j].needs = {}
<1>1. \A j \in DOMAIN doc.jobs : doc.jobs[j] \in Jobs
  BY DEF Documented
<1>2. QED
  BY <1>1, WithoutNeedsIs, JobWithoutNeeds

LEMMA CallLives ==
    ASSUME NEW kind, NEW files, NEW p, NEW q \in DOMAIN files \ {p}, files[q] \in Files,
           ShapeSound(files[q]),
           NEW doc \in Documents(files[q]), AutomaticTrigger(doc),
           NEW i \in DOMAIN doc.jobs, doc.jobs[i].uses = p, ~JobSwitchedOff(doc.jobs[i])
    PROVE  <<WithoutNeeds(doc), i>> \in LiveCalls(kind, NeedsIgnored(files), p)
<1> DEFINE bare == NeedsIgnored(files)
           free == WithoutNeeds(doc)
<1>1. doc \in Documented /\ doc.jobs[i] \in Jobs
  <2>1. files[q].docs \in Seq(Documented)
    BY DEF Files
  <2>2. doc \in Documented
    BY <2>1 DEF Documents
  <2>3. QED
    BY <2>2 DEF Documented
<1>2. q \in DOMAIN bare \ {p} /\ ShapeSound(bare[q]) /\ free \in Documents(bare[q])
  BY BareIs DEF Documents
<1>3. Triggered(free)
  BY <1>1, WithoutNeedsIs DEF AutomaticTrigger, Automatic, DeadTrigger, Triggered
<1>4. /\ free \in Documented /\ i \in DOMAIN free.jobs
      /\ \A j \in DOMAIN free.jobs : free.jobs[j].needs = {}
  BY <1>1, WithoutNeedsIs, NoNeeds
<1>5. free.jobs[i].uses = p /\ ~free.jobs[i].coe /\ Runs(free.jobs[i])
  BY <1>1, WithoutNeedsIs, JobWithoutNeeds DEF JobSwitchedOff, ConstantFalse, Runs
<1> HIDE DEF free, bare
<1>6. i \in Started(kind, free, Undeclared, <<>>)
  BY <1>4, <1>5, AllStart
<1>7. <<free, i>> \in LiveCalls(kind, bare, p)
  BY <1>2, <1>3, <1>5, <1>6 DEF LiveCalls
<1>8. QED
  BY <1>7 DEF free, bare

LEMMA ProvingDelivers ==
    ASSUME NEW kind \in Kinds, NEW modular, NEW files, \A q \in DOMAIN files : files[q] \in Files,
           NEW p \in ProvingFiles(kind, files, modular)
    PROVE  AsksMore(kind, NeedsIgnored(files), p) \/ Delivers(kind, NeedsIgnored(files), p)
<1> DEFINE bare == NeedsIgnored(files)
<1>1. p \in DOMAIN files /\ files[p] \in Files /\ ShapeSound(files[p])
  BY DEF ProvingFiles, Carriers
<1>2. PICK doc \in Documents(files[p]) :
          Fires(kind, files, p, doc) /\ "proven" \in DocEvidence(kind, doc)
  BY DEF ProvingFiles
<1>3. doc = files[p].docs[1] /\ 1 \in DOMAIN files[p].docs /\ doc \in Documented
  <2>1. Len(files[p].docs) = 1 /\ files[p].docs \in Seq(Documented)
    BY <1>1 DEF ShapeSound, Files
  <2>2. DOMAIN files[p].docs = {1}
    BY <2>1
  <2>3. QED
    BY <2>1, <2>2 DEF Documents
<1> DEFINE free == WithoutNeeds(doc)
<1>4. ShapeSound(bare[p]) /\ bare[p].docs[1] = free /\ p \in DOMAIN bare /\ free \in Documents(bare[p])
  BY <1>1, <1>3, BareIs DEF Documents
<1>5. PICK j \in DOMAIN doc.jobs : JobEvidence(kind, doc, doc.jobs[j]) = "proven"
  BY <1>2 DEF DocEvidence
<1>6. /\ free \in Documented /\ DOMAIN free.jobs = DOMAIN doc.jobs /\ free.on = doc.on
      /\ \A i \in DOMAIN free.jobs : free.jobs[i].needs = {}
  BY <1>3, WithoutNeedsIs, NoNeeds
<1>7. JobEvidence(kind, free, free.jobs[j]) = "proven"
  BY <1>3, <1>5, EvidenceWithoutNeeds
<1> HIDE DEF free, bare
<1>8. \A held : Assured(kind, free, held)
  BY <1>5, <1>6, <1>7, ProvenAssures
<1>9. CASE AutomaticTrigger(doc)
  <2>1. Triggered(free)
    BY <1>6, <1>9 DEF AutomaticTrigger, Automatic, DeadTrigger, Triggered
  <2>2. Delivers(kind, bare, p)
    BY <1>4, <1>8, <2>1 DEF Delivers
  <2>3. QED
    BY <2>2 DEF bare
<1>10. CASE "workflow_call" \in DOMAIN doc.on /\ AutomaticCaller(kind, files, p)
  <2>1. PICK q \in DOMAIN files \ {p} :
            /\ ShapeSound(files[q])
            /\ \E d \in Documents(files[q]) :
                  /\ AutomaticTrigger(d)
                  /\ \E i \in DOMAIN d.jobs : d.jobs[i].uses = p /\ ~JobSwitchedOff(d.jobs[i])
    BY <1>10 DEF AutomaticCaller
  <2>2. PICK d \in Documents(files[q]) :
            /\ AutomaticTrigger(d)
            /\ \E i \in DOMAIN d.jobs : d.jobs[i].uses = p /\ ~JobSwitchedOff(d.jobs[i])
    BY <2>1
  <2>3. PICK i \in DOMAIN d.jobs : d.jobs[i].uses = p /\ ~JobSwitchedOff(d.jobs[i])
    BY <2>2
  <2>4. PICK call : call \in LiveCalls(kind, bare, p)
    BY <2>1, <2>2, <2>3, CallLives DEF bare
  <2>5. CASE AsksMore(kind, bare, p)
    BY <2>5 DEF bare
  <2>6. CASE ~AsksMore(kind, bare, p)
    <3>1. AcceptsCall(free, Held(call))
      BY <1>4, <2>4, <2>6 DEF AsksMore
    <3>2. Delivers(kind, bare, p)
      BY <1>4, <1>6, <1>8, <1>10, <2>4, <3>1 DEF Delivers
    <3>3. QED
      BY <3>2 DEF bare
  <2>7. QED
    BY <2>5, <2>6
<1>11. QED
  BY <1>2, <1>9, <1>10 DEF Fires

-----------------------------------------------------------------------------
(***************************************************************************)
(* The author's edits, and the repository, stay within the parsed files.   *)
(***************************************************************************)
LEMMA PermsEdited == ASSUME NEW perms \in Permissions PROVE PermsEdits(perms) \subseteq Permissions
<1>1. /\ Undeclared \in Permissions
      /\ Declared([s \in Scopes |-> "none"]) \in Permissions
  BY DEF Undeclared, Declared, Permissions
<1>2. \A s \in Scopes : \A a \in {"read", "write"} :
         Declared([perms.grant EXCEPT ![s] = a]) \in Permissions
  BY DEF Declared, Permissions
<1>3. QED
  BY <1>1, <1>2 DEF PermsEdits

LEMMA StepEdited == ASSUME NEW step \in Steps PROVE StepEdits(step) \subseteq Steps
<1>1. \A c \in Conditions : [step EXCEPT !.when = c] \in Steps
  BY DEF Steps
<1>2. [step EXCEPT !.coe = ~step.coe] \in Steps /\ [step EXCEPT !.bound = ~step.bound] \in Steps
  BY DEF Steps
<1>3. \A r \in {"sha", "tag"} : [step EXCEPT !.ref = r] \in Steps
  BY DEF Steps
<1>4. QED
  BY <1>1, <1>2, <1>3 DEF StepEdits

LEMMA JobFields ==
    ASSUME NEW job \in Jobs
    PROVE  /\ \A c \in Conditions : [job EXCEPT !.when = c] \in Jobs
           /\ \A p \in Permissions : [job EXCEPT !.perms = p] \in Jobs
           /\ \A n \in SUBSET (JobNames \cup {"ghost"}) : [job EXCEPT !.needs = n] \in Jobs
           /\ [job EXCEPT !.coe = ~job.coe] \in Jobs
           /\ [job EXCEPT !.bound = ~job.bound] \in Jobs
           /\ \A r \in {"sha", "tag"} : [job EXCEPT !.ref = r] \in Jobs
           /\ \A u \in Callable : [job EXCEPT !.uses = u] \in Jobs
           /\ \A steps \in Seq(Steps) : [job EXCEPT !.steps = steps] \in Jobs
<1>1. /\ \A c \in Conditions : [job EXCEPT !.when = c] \in Jobs
      /\ \A p \in Permissions : [job EXCEPT !.perms = p] \in Jobs
      /\ \A n \in SUBSET (JobNames \cup {"ghost"}) : [job EXCEPT !.needs = n] \in Jobs
  BY DEF Jobs
<1>2. /\ [job EXCEPT !.coe = ~job.coe] \in Jobs
      /\ [job EXCEPT !.bound = ~job.bound] \in Jobs
  BY DEF Jobs
<1>3. /\ \A r \in {"sha", "tag"} : [job EXCEPT !.ref = r] \in Jobs
      /\ \A u \in Callable : [job EXCEPT !.uses = u] \in Jobs
      /\ \A steps \in Seq(Steps) : [job EXCEPT !.steps = steps] \in Jobs
  BY DEF Jobs
<1>4. QED
  BY <1>1, <1>2, <1>3

LEMMA JobEdited ==
    ASSUME NEW job \in Jobs, NEW names \in SUBSET (JobNames \cup {"ghost"})
    PROVE  JobEdits(job, names) \subseteq Jobs
<1>1. job.perms \in Permissions /\ job.needs \in SUBSET (JobNames \cup {"ghost"}) /\ job.steps \in Seq(Steps)
  BY DEF Jobs
<1>2. \A p \in PermsEdits(job.perms) : [job EXCEPT !.perms = p] \in Jobs
  BY <1>1, PermsEdited, JobFields
<1>3. \A n \in names : [job EXCEPT !.needs = job.needs \cup {n}] \in Jobs
  <2>1. \A n \in names : job.needs \cup {n} \in SUBSET (JobNames \cup {"ghost"})
    BY <1>1
  <2>2. QED
    BY <2>1, JobFields
<1>4. \A i \in DOMAIN job.steps : \A s \in UNION {StepEdits(job.steps[k]) : k \in DOMAIN job.steps} :
         [job EXCEPT !.steps = [job.steps EXCEPT ![i] = s]] \in Jobs
  <2>1. SUFFICES ASSUME NEW i \in DOMAIN job.steps, NEW k \in DOMAIN job.steps,
                        NEW s \in StepEdits(job.steps[k])
                 PROVE  [job EXCEPT !.steps = [job.steps EXCEPT ![i] = s]] \in Jobs
    OBVIOUS
  <2>2. job.steps[k] \in Steps /\ i \in 1 .. Len(job.steps)
    BY <1>1
  <2>3. s \in Steps
    BY <2>2, StepEdited
  <2>4. [job.steps EXCEPT ![i] = s] \in Seq(Steps)
    BY <1>1, <2>2, <2>3, ExceptSeq
  <2>5. QED
    BY <2>4, JobFields
<1>5. \A u \in IF job.steps = <<>> THEN Callable ELSE {} : [job EXCEPT !.uses = u] \in Jobs
  BY JobFields
<1> DEFINE Whens == {[job EXCEPT !.when = c] : c \in Conditions}
           Perms == {[job EXCEPT !.perms = p] : p \in PermsEdits(job.perms)}
           Needs == {[job EXCEPT !.needs = job.needs \cup {n}] : n \in names}
           Flips == {[job EXCEPT !.coe = ~job.coe], [job EXCEPT !.bound = ~job.bound],
                     [job EXCEPT !.ref = IF job.ref = "sha" THEN "tag" ELSE "sha"]}
           Uses == {[job EXCEPT !.uses = u] : u \in IF job.steps = <<>> THEN Callable ELSE {}}
           Stepped == {[job EXCEPT !.steps = [job.steps EXCEPT ![i] = s]] :
                          i \in DOMAIN job.steps,
                          s \in UNION {StepEdits(job.steps[k]) : k \in DOMAIN job.steps}}
<1>6. JobEdits(job, names)
        = Whens \cup Perms \cup Needs \cup Flips \cup Uses \cup Stepped
  BY DEF JobEdits
<1>7. Whens \subseteq Jobs /\ Flips \subseteq Jobs
  BY JobFields
<1>8. Perms \subseteq Jobs
  BY <1>2
<1>9. Needs \subseteq Jobs
  BY <1>3
<1>10. Stepped \subseteq Jobs
  BY <1>4
<1>11. Uses \subseteq Jobs
  BY <1>5
<1> HIDE DEF Whens, Perms, Needs, Flips, Uses, Stepped
<1>12. QED
  BY <1>6, <1>7, <1>8, <1>9, <1>10, <1>11

LEMMA JobRearranged == ASSUME NEW job \in Jobs PROVE Rearranged(job) \subseteq Jobs
<1>1. job.steps \in Seq(Steps) /\ DOMAIN job.steps = 1 .. Len(job.steps) /\ Len(job.steps) \in Nat
  BY DEF Jobs
<1>2. \A i, k \in DOMAIN job.steps :
         [job EXCEPT !.steps = [job.steps EXCEPT ![i] = job.steps[k], ![k] = job.steps[i]]] \in Jobs
  <2>1. SUFFICES ASSUME NEW i \in DOMAIN job.steps, NEW k \in DOMAIN job.steps
                 PROVE  [job.steps EXCEPT ![i] = job.steps[k], ![k] = job.steps[i]] \in Seq(Steps)
    BY JobFields
  <2>2. job.steps[i] \in Steps /\ job.steps[k] \in Steps
    BY <1>1
  <2> DEFINE once == [job.steps EXCEPT ![i] = job.steps[k]]
  <2>3. once \in Seq(Steps) /\ Len(once) = Len(job.steps)
    BY <1>1, <2>2, ExceptSeq
  <2>4. [job.steps EXCEPT ![i] = job.steps[k], ![k] = job.steps[i]] = [once EXCEPT ![k] = job.steps[i]]
    OBVIOUS
  <2> HIDE DEF once
  <2>5. [once EXCEPT ![k] = job.steps[i]] \in Seq(Steps)
    BY <1>1, <2>2, <2>3, ExceptSeq
  <2>6. QED
    BY <2>4, <2>5
<1>3. \A i \in DOMAIN job.steps :
         [job EXCEPT !.steps = SubSeq(job.steps, 1, i - 1) \o SubSeq(job.steps, i + 1, Len(job.steps))] \in Jobs
  <2>1. SUFFICES ASSUME NEW i \in DOMAIN job.steps
                 PROVE  SubSeq(job.steps, 1, i - 1) \o SubSeq(job.steps, i + 1, Len(job.steps)) \in Seq(Steps)
    BY JobFields
  <2>2. i \in 1 .. Len(job.steps) /\ \A k \in 1 .. Len(job.steps) : job.steps[k] \in Steps
    BY <1>1
  <2>3. SubSeq(job.steps, 1, i - 1) \in Seq(Steps)
    BY <1>1, <2>2, SubSeqProperties
  <2>4. SubSeq(job.steps, i + 1, Len(job.steps)) \in Seq(Steps)
    BY <1>1, <2>2, SubSeqProperties
  <2>5. QED
    BY <2>3, <2>4, ConcatProperties
<1> DEFINE Swaps == {[job EXCEPT !.steps = [job.steps EXCEPT ![i] = job.steps[k], ![k] = job.steps[i]]] :
                         i \in DOMAIN job.steps, k \in DOMAIN job.steps}
           Cuts == {[job EXCEPT !.steps = SubSeq(job.steps, 1, i - 1)
                                            \o SubSeq(job.steps, i + 1, Len(job.steps))] :
                        i \in DOMAIN job.steps}
<1>4. Rearranged(job) = Swaps \cup Cuts
  BY DEF Rearranged
<1>5. Swaps \subseteq Jobs
  BY <1>2
<1>6. Cuts \subseteq Jobs
  BY <1>3
<1> HIDE DEF Swaps, Cuts
<1>7. QED
  BY <1>4, <1>5, <1>6

LEMMA DocFields ==
    ASSUME NEW doc \in Documented
    PROVE  /\ \A T \in SUBSET Triggers : \A on \in [T -> Filters] :
                 [doc EXCEPT !.on = on] \in Documented
           /\ \A p \in Permissions : [doc EXCEPT !.perms = p] \in Documented
           /\ \A J \in SUBSET JobNames : \A jobs \in [J -> Jobs] : [doc EXCEPT !.jobs = jobs] \in Documented
<1> DEFINE Ons == UNION {[T -> Filters] : T \in SUBSET Triggers}
           Maps == UNION {[J -> Jobs] : J \in SUBSET JobNames}
<1>1. Documented = [on : Ons, perms : Permissions, jobs : Maps]
  BY DEF Documented
<1>2. \A T \in SUBSET Triggers : \A on \in [T -> Filters] : on \in Ons
  OBVIOUS
<1>3. \A J \in SUBSET JobNames : \A jobs \in [J -> Jobs] : jobs \in Maps
  OBVIOUS
<1> HIDE DEF Ons, Maps
<1>4. \A on \in Ons : [doc EXCEPT !.on = on] \in Documented
  BY <1>1
<1>5. \A p \in Permissions : [doc EXCEPT !.perms = p] \in Documented
  BY <1>1
<1>6. \A jobs \in Maps : [doc EXCEPT !.jobs = jobs] \in Documented
  BY <1>1
<1>7. QED
  BY <1>2, <1>3, <1>4, <1>5, <1>6

LEMMA DocEdited == ASSUME NEW doc \in Documented PROVE DocEdits(doc) \subseteq Documented
<1>1. /\ DOMAIN doc.on \in SUBSET Triggers /\ doc.on \in [DOMAIN doc.on -> Filters]
      /\ doc.perms \in Permissions
      /\ DOMAIN doc.jobs \in SUBSET JobNames /\ doc.jobs \in [DOMAIN doc.jobs -> Jobs]
  BY DocumentedIs DEF IsDocument
<1>2. TriedTriggers \subseteq Triggers
  BY DEF TriedTriggers, Triggers, AutomaticTriggers
<1>3. ASSUME NEW n \in TriedTriggers, NEW f \in Filters PROVE WithTrigger(doc, n, f) \in Documented
  <2>1. DOMAIN doc.on \cup {n} \in SUBSET Triggers
    BY <1>1, <1>2
  <2>2. [t \in DOMAIN doc.on \cup {n} |-> IF t = n THEN f ELSE doc.on[t]]
          \in [DOMAIN doc.on \cup {n} -> Filters]
    BY <1>1
  <2>3. QED
    BY <2>1, <2>2, DocFields DEF WithTrigger
<1>4. ASSUME NEW n \in DOMAIN doc.on PROVE WithoutTrigger(doc, n) \in Documented
  <2>1. DOMAIN doc.on \ {n} \in SUBSET Triggers
    BY <1>1
  <2>2. [t \in DOMAIN doc.on \ {n} |-> doc.on[t]] \in [DOMAIN doc.on \ {n} -> Filters]
    BY <1>1
  <2>3. QED
    BY <2>1, <2>2, DocFields DEF WithoutTrigger
<1>5. \A p \in PermsEdits(doc.perms) : [doc EXCEPT !.perms = p] \in Documented
  BY <1>1, PermsEdited, DocFields
<1>6. ASSUME NEW j \in DOMAIN doc.jobs PROVE WithoutJob(doc, j) \in Documented
  <2>1. DOMAIN doc.jobs \ {j} \in SUBSET JobNames
    BY <1>1
  <2>2. [i \in DOMAIN doc.jobs \ {j} |-> doc.jobs[i]] \in [DOMAIN doc.jobs \ {j} -> Jobs]
    BY <1>1
  <2>3. QED
    BY <2>1, <2>2, DocFields DEF WithoutJob
<1>7. ASSUME NEW j \in DOMAIN doc.jobs,
             NEW e \in JobEdits(doc.jobs[j], DOMAIN doc.jobs \cup {"ghost"}) \cup Rearranged(doc.jobs[j])
      PROVE  WithJob(doc, j, e) \in Documented
  <2>1. DOMAIN doc.jobs \cup {"ghost"} \in SUBSET (JobNames \cup {"ghost"}) /\ doc.jobs[j] \in Jobs
    BY <1>1
  <2>2. e \in Jobs
    BY <2>1, JobEdited, JobRearranged
  <2>3. [doc.jobs EXCEPT ![j] = e] \in [DOMAIN doc.jobs -> Jobs]
    BY <1>1, <2>2
  <2>4. WithJob(doc, j, e) = [doc EXCEPT !.jobs = [doc.jobs EXCEPT ![j] = e]]
    BY DEF WithJob
  <2>5. QED
    BY <1>1, <2>3, <2>4, DocFields
<1>8. ASSUME NEW d \in DocEdits(doc)
      PROVE  \/ \E n \in TriedTriggers, f \in Filters : d = WithTrigger(doc, n, f)
             \/ \E n \in DOMAIN doc.on : d = WithoutTrigger(doc, n)
             \/ \E p \in PermsEdits(doc.perms) : d = [doc EXCEPT !.perms = p]
             \/ \E j \in DOMAIN doc.jobs : d = WithoutJob(doc, j)
             \/ \E j \in DOMAIN doc.jobs :
                   \E e \in JobEdits(doc.jobs[j], DOMAIN doc.jobs \cup {"ghost"})
                              \cup Rearranged(doc.jobs[j]) : d = WithJob(doc, j, e)
  BY <1>8, SMTT(60) DEF DocEdits
<1>9. QED
  BY <1>3, <1>4, <1>5, <1>6, <1>7, <1>8

LEMMA FileEdited == ASSUME NEW file \in Files PROVE FileEdits(file) \subseteq Files
<1>1. Absent \in Files /\ Garbled \in Files /\ Yaml(<<>>) \in Files
  BY DEF Absent, Garbled, Yaml, Files
<1>2. ASSUME file.at = "yaml", Len(file.docs) = 1
      PROVE  /\ {Yaml(<<d>>) : d \in DocEdits(file.docs[1])} \subseteq Files
             /\ Yaml(<<file.docs[1], file.docs[1]>>) \in Files
  <2>1. file.docs[1] \in Documented
    <3>1. file.docs \in Seq(Documented)
      BY DEF Files
    <3>2. QED
      BY <1>2, <3>1
  <2>2. DocEdits(file.docs[1]) \subseteq Documented
    BY <2>1, DocEdited
  <2>3. \A d \in Documented : Yaml(<<d>>) \in Files /\ Yaml(<<d, d>>) \in Files
    BY DEF Yaml, Files
  <2>4. QED
    BY <2>1, <2>2, <2>3
<1>3. QED
  BY <1>1, <1>2 DEF FileEdits

\* The repository and the run of init are of their types.
TypeInv ==
    /\ git \in BOOLEAN
    /\ head \in [Paths -> Files] /\ disk \in [Paths -> Files]
    /\ init \in [at : Nat, kept : SUBSET Paths, calm : BOOLEAN]

LEMMA PartsAreFiles ==
    /\ Absent \in Files /\ Directory \in Files
    /\ \A k \in DOMAIN Controls : Template[Controls[k]] \in Files
<1>1. Absent \in Files /\ Directory \in Files
  BY DEF Absent, Directory, Files
<1>2. QED
  BY <1>1, TemplatesAssumption, FilesAre

\* What a crash leaves of a template is a parsed file.
LEMMA CutFiles == ASSUME NEW file \in Files, ShapeSound(file) PROVE CutShort(file) \subseteq Files
<1>1. Garbled \in Files /\ Yaml(<<>>) \in Files
  BY DEF Garbled, Yaml, Files
<1> DEFINE doc == file.docs[1]
           Torn(j) == [doc EXCEPT !.jobs[j].steps = SubSeq(@, 1, Len(@) - 1)]
<1>2. doc \in Documented
  <2>1. file.docs \in Seq(Documented) /\ Len(file.docs) = 1
    BY DEF Files, ShapeSound
  <2>2. QED
    BY <2>1
<1>3. DOMAIN doc.jobs \in SUBSET JobNames /\ doc.jobs \in [DOMAIN doc.jobs -> Jobs]
  BY <1>2, DocumentedIs DEF IsDocument
<1>4. ASSUME NEW j \in DOMAIN doc.jobs, doc.jobs[j].steps # <<>> PROVE Torn(j) \in Documented
  <2> DEFINE job == doc.jobs[j]
             steps == SubSeq(job.steps, 1, Len(job.steps) - 1)
  <2>1. job \in Jobs /\ job.steps \in Seq(Steps)
    BY <1>3 DEF Jobs
  <2>2. Torn(j) = [doc EXCEPT !.jobs = [doc.jobs EXCEPT ![j] = [job EXCEPT !.steps = steps]]]
    OBVIOUS
  <2> HIDE DEF job, Torn
  <2>3. steps \in Seq(Steps)
    <3>1. Len(job.steps) \in Nat /\ \A k \in 1 .. Len(job.steps) : job.steps[k] \in Steps
      BY <2>1
    <3>2. QED
      BY <2>1, <3>1, SubSeqProperties
  <2> HIDE DEF steps, doc
  <2>4. [job EXCEPT !.steps = steps] \in Jobs
    BY <2>1, <2>3, JobFields
  <2> DEFINE jobs == [doc.jobs EXCEPT ![j] = [job EXCEPT !.steps = steps]]
  <2>5. jobs \in [DOMAIN doc.jobs -> Jobs]
    BY <1>3, <2>4
  <2> HIDE DEF jobs
  <2>6. [doc EXCEPT !.jobs = jobs] \in Documented
    BY <1>2, <1>3, <2>5, DocFields
  <2>7. QED
    BY <2>2, <2>6 DEF jobs
<1>5. CutShort(file)
        = {Yaml(<<>>), Garbled}
          \cup {Yaml(<<Torn(j)>>) : j \in {i \in DOMAIN doc.jobs : doc.jobs[i].steps # <<>>}}
  BY DEF CutShort
<1> HIDE DEF Torn, doc
<1>6. \A d \in Documented : Yaml(<<d>>) \in Files
  BY DEF Yaml, Files
<1>7. QED
  BY <1>1, <1>4, <1>5, <1>6

\* Whatever is edited, committed, installed or torn is a parsed workflow file
\* (install_all, write_template).
THEOREM TypeCorrect == Spec => []TypeInv
<1>1. Init => TypeInv
  <2> SUFFICES ASSUME Init PROVE TypeInv
    OBVIOUS
  <2>1. disk \in [Paths -> Files]
    BY StartsAssumption, FilesAre DEF Init
  <2>2. [p \in Paths |-> Absent] \in [Paths -> Files]
    BY PartsAreFiles
  <2>3. QED
    BY <2>1, <2>2 DEF Init, TypeInv
<1>2. TypeInv /\ [Next]_vars => TypeInv'
  <2> SUFFICES ASSUME TypeInv, [Next]_vars PROVE TypeInv'
    OBVIOUS
  <2> USE DEF TypeInv
  <2>1. ASSUME NEW p \in Paths, Edit(p) PROVE TypeInv'
    <3>1. PICK file \in IF disk[p] = Absent THEN {Directory} ELSE FileEdits(disk[p]) :
              disk' = [disk EXCEPT ![p] = file]
      BY <2>1 DEF Edit
    <3>2. disk[p] \in Files
      OBVIOUS
    <3>3. file \in Files
      BY <3>1, <3>2, PartsAreFiles, FileEdited
    <3>4. QED
      BY <2>1, <3>1, <3>3 DEF Edit
  <2>2. ASSUME NEW p \in Paths, Commit(p) PROVE TypeInv'
    BY <2>2 DEF Commit
  <2>3. CASE StartInit
    BY <2>3 DEF StartInit
  <2>4. Installing => Dest[This] \in Paths /\ Template[This] \in Files
    BY ControlsAssumption, PartsAreFiles DEF Installing, This
  <2>5. CASE Keep
    <3>1. init.at + 1 \in Nat /\ init.kept \cup {Dest[This]} \in SUBSET Paths
      BY <2>4, <2>5 DEF Keep
    <3>2. init' \in [at : Nat, kept : SUBSET Paths, calm : BOOLEAN]
      BY <2>5, <3>1 DEF Keep
    <3>3. QED
      BY <2>5, <3>2 DEF Keep
  <2>6. CASE Skip
    BY <2>6 DEF Skip
  <2>7. CASE Install
    BY <2>4, <2>7 DEF Install
  <2>8. CASE CrashInit
    <3>1. disk' \in [Paths -> Files]
      <4>1. CASE UNCHANGED disk
        BY <4>1
      <4>2. CASE \E torn \in CutShort(Template[This]) : disk' = [disk EXCEPT ![Dest[This]] = torn]
        <5>1. CutShort(Template[This]) \subseteq Files
          BY <2>4, <2>8, CutFiles, TemplatesAssumption DEF CrashInit, Installing, This
        <5>2. QED
          BY <4>2, <5>1
      <4>3. QED
        BY <2>8, <4>1, <4>2 DEF CrashInit
    <3>2. QED
      BY <2>8, <3>1 DEF CrashInit
  <2>9. CASE UNCHANGED vars
    BY <2>9 DEF vars
  <2>10. QED
    BY <2>1, <2>2, <2>3, <2>5, <2>6, <2>7, <2>8, <2>9 DEF Next
<1>3. QED
  BY <1>1, <1>2, PTL DEF Spec

LEMMA ControlKinds == ControlSet \subseteq Kinds
  BY ControlsAssumption DEF ControlSet

\* A workflow that consolidated_evidence names as proof makes the deliverable on
\* some unattended event, and no run of it is green without it, whatever the
\* author wrote.
THEOREM ProofsDeliver == Spec => []ProofDelivers
<1>1. TypeInv => ProofDelivers
  <2> SUFFICES ASSUME TypeInv, NEW c \in ControlSet,
                      NEW p \in ProvingFiles(c, CommittedWorkflows(disk), Dest[c])
               PROVE  LET files == NeedsIgnored(CommittedWorkflows(disk))
                      IN  AsksMore(c, files, p) \/ Delivers(c, files, p)
    BY DEF ProofDelivers
  <2>1. \A q \in DOMAIN CommittedWorkflows(disk) : CommittedWorkflows(disk)[q] \in Files
    BY DEF TypeInv, CommittedWorkflows, Readable
  <2>2. c \in Kinds
    BY ControlKinds
  <2>3. QED
    BY <2>1, <2>2, ProvingDelivers
<1>2. QED
  BY <1>1, TypeCorrect, PTL

-----------------------------------------------------------------------------
(***************************************************************************)
(* What init has gone past, verify accepts: kept, written, or proven by    *)
(* what is committed.                                                      *)
(***************************************************************************)
Settled(c) ==
    \/ Dest[c] \in init.kept
    \/ disk[Dest[c]] = Template[c]
    \/ disk[Dest[c]] = Absent /\ Evidence(c, disk) = "proven"
CalmInv == init.calm => \A l \in DOMAIN Controls : l < init.at => Settled(Controls[l])

\* A new file takes away no proof.
LEMMA InstallKeepsProof ==
    ASSUME TypeInv, Install, NEW c, Evidence(c, disk) = "proven"
    PROVE  Evidence(c, disk)' = "proven"
<1>1. UNCHANGED <<git, head>> /\ disk[Dest[This]] = Absent
  BY DEF Install
<1>2. CASE git
  BY <1>1, <1>2 DEF Evidence, CommittedWorkflows
<1>3. CASE ~git
  <2> DEFINE old == Readable(disk)
             new == Readable(disk')
  <2>1. disk' = [disk EXCEPT ![Dest[This]] = Template[This]] /\ DOMAIN disk = Paths
    BY DEF Install, TypeInv
  <2>2. \A q \in DOMAIN old : q \in Paths /\ q # Dest[This] /\ disk[q].at = "yaml"
    BY <1>1 DEF Readable, Absent
  <2>3. DOMAIN old \subseteq DOMAIN new /\ \A q \in DOMAIN old : old[q] = new[q]
    BY <2>1, <2>2 DEF Readable
  <2>4. ConsolidatedEvidence(c, old, Dest[c]) = "proven"
    BY <1>3 DEF Evidence, CommittedWorkflows
  <2> HIDE DEF old, new
  <2>5. ConsolidatedEvidence(c, new, Dest[c]) = "proven"
    BY <2>3, <2>4, EvidenceGrows
  <2>6. QED
    BY <1>1, <1>3, <2>5 DEF Evidence, CommittedWorkflows, new
<1>4. QED
  BY <1>2, <1>3

LEMMA CalmKept == TypeInv /\ CalmInv /\ [Next]_vars => CalmInv'
<1> SUFFICES ASSUME TypeInv, CalmInv, [Next]_vars, init'.calm,
                    NEW l \in DOMAIN Controls, l < init'.at
             PROVE  Settled(Controls[l])'
  BY DEF CalmInv
<1> DEFINE c == Controls[l]
<1>1. \A p \in Paths : ~Edit(p) /\ ~Commit(p)
  BY DEF Edit, Commit, TypeInv
<1>2. ~CrashInit
  BY DEF CrashInit
<1>3. l \in Nat /\ l >= 1
  BY ControlsAssumption
<1>4. CASE StartInit
  BY <1>3, <1>4 DEF StartInit
<1>5. CASE Keep \/ Skip \/ Install
  <2>1. /\ init.at \in Nat /\ init.calm /\ init'.at = init.at + 1
        /\ init.kept \subseteq init'.kept /\ UNCHANGED <<git, head>>
    BY <1>5 DEF Keep, Skip, Install, TypeInv
  <2>2. l < init.at \/ l = init.at
    BY <1>3, <2>1
  <2>3. CASE l = init.at
    <3>1. c = This
      BY <2>3 DEF This
    <3>2. CASE Keep
      BY <3>1, <3>2 DEF Keep, Settled, TypeInv
    <3>3. CASE Skip
      BY <3>1, <3>3 DEF Skip, Settled, Evidence, CommittedWorkflows
    <3>4. CASE Install
      <4>1. Dest[c] \in Paths
        BY ControlsAssumption
      <4>2. QED
        BY <3>1, <3>4, <4>1 DEF Install, Settled, TypeInv
    <3>5. QED
      BY <1>5, <3>2, <3>3, <3>4
  <2>4. CASE l < init.at
    <3>1. Settled(c)
      BY <2>1, <2>4 DEF CalmInv
    <3>2. CASE Keep \/ Skip
      BY <2>1, <3>1, <3>2 DEF Keep, Skip, Settled, Evidence, CommittedWorkflows
    <3>3. CASE Install
      <4>1. Dest[c] # Dest[This] /\ Dest[c] \in Paths
        BY <2>1, <2>4, <3>3, ControlsAssumption DEF Install, Installing, This
      <4>2. disk'[Dest[c]] = disk[Dest[c]]
        BY <3>3, <4>1 DEF Install, TypeInv
      <4>3. Evidence(c, disk) = "proven" => Evidence(c, disk)' = "proven"
        BY <3>3, InstallKeepsProof
      <4>4. QED
        BY <2>1, <3>1, <4>2, <4>3 DEF Settled
    <3>4. QED
      BY <1>5, <3>2, <3>3
  <2>5. QED
    BY <2>2, <2>3, <2>4
<1>6. CASE UNCHANGED vars
  BY <1>6 DEF vars, CalmInv, Settled, Evidence, CommittedWorkflows
<1>7. QED
  BY <1>1, <1>2, <1>4, <1>5, <1>6 DEF Next

\* "init and verify must agree": what init leaves behind, verify accepts, but for
\* the files init found and kept (install_all, verify_template_control,
\* verify_harden_runner).
THEOREM InitAgrees == Spec => []InitAndVerifyAgree
<1>1. Init => CalmInv
  BY DEF Init, CalmInv
<1>2. TypeInv /\ CalmInv => InitAndVerifyAgree
  <2> SUFFICES ASSUME TypeInv, CalmInv, Done, init.calm
               PROVE  /\ \A c \in ControlSet : Verify(c, disk) = "fail" => Dest[c] \in init.kept
                      /\ HardenRunner(disk) = "fail" =>
                            \E p \in Paths \ ({Dest[c] : c \in ControlSet} \ init.kept) :
                                disk[p] # Absent
    BY DEF InitAndVerifyAgree
  <2>1. \A c \in ControlSet : Settled(c)
    <3>1. \A l \in DOMAIN Controls : l < init.at
      BY ControlsAssumption DEF Done, TypeInv
    <3>2. QED
      BY <3>1 DEF CalmInv, ControlSet
  <2>2. \A c \in ControlSet : ShapeSound(Template[c]) /\ ~Unhardened(Template[c])
    BY TemplatesAssumption DEF ControlSet
  <2>3. ASSUME NEW c \in ControlSet, Dest[c] \notin init.kept PROVE Verify(c, disk) # "fail"
    <3>1. ~IsFile(Absent)
      BY DEF IsFile
    <3>2. \A file : ShapeSound(file) => IsFile(file)
      BY DEF ShapeSound, IsFile, Absent, Directory
    <3>3. QED
      BY <2>1, <2>2, <2>3, <3>1, <3>2 DEF Settled, Verify
  <2>4. ASSUME \A p \in Paths \ ({Dest[c] : c \in ControlSet} \ init.kept) : disk[p] = Absent
        PROVE  HardenRunner(disk) # "fail"
    <3>1. DOMAIN disk = Paths
      BY DEF TypeInv
    <3>2. ASSUME NEW p \in Paths, disk[p] # Absent PROVE ~Unhardened(disk[p])
      <4>1. PICK c \in ControlSet : p = Dest[c] /\ p \notin init.kept
        BY <2>4, <3>2
      <4>2. disk[p] = Template[c]
        BY <2>1, <3>2, <4>1 DEF Settled
      <4>3. QED
        BY <2>2, <4>2
    <3>3. QED
      BY <3>1, <3>2 DEF HardenRunner
  <2>5. QED
    BY <2>3, <2>4
<1>3. QED
  BY <1>1, <1>2, CalmKept, TypeCorrect, PTL DEF Spec

\* "What is examined is what a fresh clone would carry" (committed_workflows): in
\* any repository, with any templates, committing the files an undisturbed init
\* wrote is enough for a clone, but for the files it kept and the artifacts the
\* author had deleted.
THEOREM ClonesPass == Spec => []PublishedPasses
<1>1. Init => CalmInv
  BY DEF Init, CalmInv
<1>2. TypeInv /\ CalmInv => PublishedPasses
  <2> SUFFICES ASSUME TypeInv, CalmInv, git, Done, init.calm, ~DeletedArtifact,
                      NEW c \in ControlSet, Dest[c] \notin init.kept
               PROVE  IF IsFile(Published[Dest[c]]) THEN ShapeSound(Published[Dest[c]])
                      ELSE ConsolidatedEvidence(c, Readable(Published), Dest[c]) = "proven"
    BY DEF PublishedPasses
  <2>1. Settled(c)
    <3>1. \A l \in DOMAIN Controls : l < init.at
      BY ControlsAssumption DEF Done, TypeInv
    <3>2. QED
      BY <3>1 DEF CalmInv, ControlSet
  <2>2. Dest[c] \in Paths /\ ShapeSound(Template[c]) /\ head[Dest[c]] = Absent
    BY ControlsAssumption, TemplatesAssumption DEF ControlSet, DeletedArtifact
  <2>3. CASE disk[Dest[c]] = Absent
    \* What was committed is still there, and what proved the control with it.
    <3> DEFINE part == Readable(head)
               all == Readable(Published)
    <3>1. \A q \in DOMAIN part : q \notin Written /\ q \in Paths /\ head[q].at = "yaml"
      BY DEF Readable, Written, DeletedArtifact, Absent
    <3>2. DOMAIN part \subseteq DOMAIN all /\ \A q \in DOMAIN part : part[q] = all[q]
      BY <3>1 DEF Readable, Published
    <3>3. ConsolidatedEvidence(c, part, Dest[c]) = "proven"
      <4>1. Template[c] # Absent
        BY <2>2 DEF ShapeSound, Absent
      <4>2. QED
        BY <2>1, <2>3, <4>1 DEF Settled, Evidence, CommittedWorkflows
    <3>4. Published[Dest[c]] = Absent
      BY <2>2, <2>3 DEF Published, Written
    <3> HIDE DEF part, all
    <3>5. ConsolidatedEvidence(c, all, Dest[c]) = "proven"
      BY <3>2, <3>3, EvidenceGrows
    <3>6. QED
      BY <3>4, <3>5 DEF IsFile, all
  <2>4. CASE disk[Dest[c]] # Absent
    <3>1. Published[Dest[c]] = Template[c]
      BY <2>1, <2>2, <2>4 DEF Settled, Published, Written
    <3>2. IsFile(Template[c])
      BY <2>2 DEF ShapeSound, IsFile, Absent, Directory
    <3>3. QED
      BY <2>2, <3>1, <3>2
  <2>5. QED
    BY <2>3, <2>4
<1>3. QED
  BY <1>1, <1>2, CalmKept, TypeCorrect, PTL DEF Spec
=============================================================================
