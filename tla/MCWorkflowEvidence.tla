------------------------- MODULE MCWorkflowEvidence -------------------------
EXTENDS WorkflowEvidence

MCJobNames == {"build", "sign", "provenance", "attest", "call"}
MCScopes == {"id-token", "attestations", "contents", "actions"}

Step(does, ref) == [does |-> does, ref |-> ref, when |-> "none", coe |-> FALSE, bound |-> TRUE]
Harden == Step("harden", "sha")
Job(perms, steps) ==
    [uses |-> NoUses, ref |-> "none", when |-> "none", coe |-> FALSE, perms |-> perms,
     needs |-> {}, bound |-> FALSE, steps |-> steps]
Call(perms, uses, ref, bound) ==
    [Job(perms, <<>>) EXCEPT !.uses = uses, !.ref = ref, !.bound = bound]
Write(scopes) == Declared([s \in MCScopes |-> IF s \in scopes THEN "write" ELSE "none"])

Doc(on, jobs) == Yaml(<<[on |-> on, perms |-> Write({}), jobs |-> jobs]>>)
On(trigger, filter) == [t \in {trigger} |-> filter]

SignJob == Job(Write({"id-token", "contents"}),
               <<Harden, Step("install", "sha"), Step("sign", "none")>>)
SbomJob == Job(Write({"id-token", "attestations"}), <<Harden, Step("sbom-attestation", "sha")>>)
SlsaJob == Call(Write({"id-token", "contents", "actions"}), "generator", "tag", TRUE)
BuildJob == Job(Undeclared, <<Harden>>)

\* The templates of sscsb.
MCTemplate ==
    [c \in {"sigstore-signing", "slsa-provenance", "sbom-attestation"} |->
        CASE c = "sigstore-signing" -> Doc(On("release", "some"), [sign |-> SignJob])
          [] c = "slsa-provenance" ->
                Doc(On("release", "some"),
                    [build |-> BuildJob, provenance |-> [SlsaJob EXCEPT !.needs = {"build"}]])
          [] OTHER -> Doc(On("release", "some"), [attest |-> SbomJob])]

\* An author's own: a release workflow that signs, in one piece or called by
\* another, and one that calls the
\* generator and attests an SBOM.
Lean(job) == [job EXCEPT !.steps = Tail(job.steps)]
OwnRelease == Doc(On("push", "some"), [build |-> BuildJob,
                                       sign |-> [Lean(SignJob) EXCEPT !.needs = {"build"}]])
CalledRelease == Doc(On("workflow_call", "none"), [sign |-> Lean(SignJob)])
Caller(perms) == Doc(On("push", "some"), [call |-> Call(perms, "release", "none", FALSE)])
ByHand == Doc(On("workflow_dispatch", "none"), [sign |-> Job(Undeclared, <<Step("sign", "none")>>)])
OwnSlsa == Doc(On("push", "some"), [provenance |-> SlsaJob, attest |-> Lean(SbomJob)])

Repo(release, ci) ==
    [p \in Paths |-> CASE p = "release" -> release [] p = "ci" -> ci [] OTHER -> Absent]

\* The author's own stands where an artifact would.
Moved == [p \in Paths |-> IF p = "sign" THEN OwnSlsa ELSE Absent]

MCStarts == {Repo(Absent, Absent), Repo(OwnRelease, ByHand), Repo(OwnSlsa, Absent),
             Repo(CalledRelease, Caller(Write({"id-token", "contents"}))), Moved}
MCPaths == {"release", "ci", "sign", "slsa", "sbom"}
MCControls == <<"sigstore-signing", "slsa-provenance", "sbom-attestation">>
MCDest == [c \in {"sigstore-signing", "slsa-provenance", "sbom-attestation"} |->
             CASE c = "sigstore-signing" -> "sign"
               [] c = "slsa-provenance" -> "slsa"
               [] OTHER -> "sbom"]
=============================================================================
