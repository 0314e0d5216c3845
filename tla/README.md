# TLA+ models of the SSCS bootstrapper

`sscsb` puts supply-chain controls around a git repository. Much of its code
calls a tool once and reports. What this directory models is the rest: the
places where steps of several actors interleave, where a run may die half-way,
where one piece of code vouches for what another one does, and where a verdict
is trusted. The models are checked with TLC; the safety properties of all the
system's components that have a run are proved with TLAPS, for every value of the
constants, but for the recogniser of signings in shell scripts.

## The system

| Component (src/src) | State | Operations | Talks to | Hard part | Correct when |
|---|---|---|---|---|---|
| Pre-push gate (`hooks.rs`) | none of its own; reads the object store, remote-tracking refs, `.sscsb/policy`, config; rewrites `allowed_signers` | `hook_pre_push`: signing check, review evidence, range secret scan per ref | git, remote, scanners | the range is computed before the remote moves, from refs that may be stale | nothing unvouched lands on a protected branch |
| Pre-commit, commit-msg (`hooks.rs`, `sast.rs`, `deps.rs`) | temporary copies of staged blobs | secret scan, SAST, trailers, review gate, package trust | git index, scanners, `packages.toml` | the index and the baseline move under the hooks; amending; failures of one scanner | what lands was what was judged |
| Signer policy (`hooks.rs`, `signers.rs`) | `signers.toml`, `allowed_signers` | parse, generate, resolve a signature | both gates, git | duplicate keys and principals, agents beside humans | one key, one signer |
| Server-side policy gate (`signers.rs`, workflow) | the workflow's runs | `verify_policy_changes` on push and pull request | forge, git | which commit is the trusted base; cancelled runs; merges | only a human trusted beforehand changes the policy |
| Package trust (`deps.rs`) | `packages.toml` | approve, compare, check | commit-msg, registries | unlocked read-modify-write | nothing new lands unapproved |
| Local scan lane (`local_scan.rs`) | signed record and signature files | prepare, run controls, sign, verify | git, signer, every control | the tree and HEAD move while controls run | a signed record describes the commit it names |
| Workflow evidence (`workflows.rs`) | none; reads HEAD's workflows and the working tree | recognise a signing in a `run:` body; prove a control over triggers, callers, permissions | git, `init`'s templates | bash, and GitHub's rules for skipped, failed and called jobs | what it calls proof delivers on the forge |
| Signing lanes (`signing_setup.rs`) | git config, agent key, harness settings, `allowed_signers`, attestations | `human-local`, `agent-claude-code`, `--confirm` | git, ssh-keygen, the user's editor | many in-place writes, interruption, identity blur | re-running converges and costs the user nothing |
| Hardening (`harden.rs`), branch-protection control (`audit.rs`) | the forge's rulesets | GET, edit, PUT; judge from three endpoints | forge, `gh` | administrators meanwhile; requests that fail or land unheard | keeps what it does not own; verdicts are earned |
| Execution (`exec.rs`) | child processes | run with stdin | every tool | two pipes | never hangs |
| Bootstrap, toggles, hook installation (`init.rs`, `config.rs`, `hooks.rs`) | `.sscsb/*`, hooks, git config, `.gitignore` | `init`, `enable`, `disable` | git, the gates | deaths in any write, edits in between | idempotent; gates fail closed |
| Control registry, verify (`controls.rs`, `cli.rs`, `hooks.rs`, `signers.rs`, `deps.rs`) | none | verifiers, `--strict` | all of the above | a verifier has rules of its own | PASS means the hook enforces it |
| Agent skill (`skill.rs`) | the installed skill file | `check`, `install` | the file system, its own binary | proving that nobody can replace the binary | the strong verdict stands; an install clobbers nothing |
| Receipts (`provenance.rs`) | receipt files | create, verify | git, cosign | binding to a commit | not modelled |
| Auditors, pinning, scanners, distribution, webhooks, machine output | none | read, run a tool, report | files, tools, forge APIs | text | not modelled |

How they interact: git calls the hooks in the order pre-commit, (tree written),
commit-msg, (branch moves), and later pre-push, (remote moves). All three read
the configuration and the policy from the working tree, which anybody may edit
between two calls. The workflow is the only check outside the pushing actor's
reach; it runs after the fact. `init` writes what the hooks and `verify` read;
`verify` reads the same files by rules of its own, so the two can part.

## Modules

| Module | Models | State and actions |
|---|---|---|
| `History` | git's commit graph | constants only |
| `SignerPolicy` | `parse_signers`, `allowed_signers_content_inner`, how git and the gate resolve a signature, review evidence | operators only |
| `ProtectedBranch` | what the push gate promises, abstractly | `landed`, `cleared`; `Clear`, `Land` |
| `PushGate` | `hook_pre_push` in several clones | `remote`, `objects`, `tracking`, `inFlight`, and the histories `vouched`, `waived`, `unscanned`; `PrePush` is the whole hook over all refs of a push, `Deliver`/`Drop` the remote, `CommitLocally`/`Fetch` git |
| `PolicyGate` | `signers verify-policy` in its workflow | `main`, `pr`, `runs`; one action per event, `RunGate` the command |
| `CommitGate` | `hook_pre_commit`, `hook_commit_msg`, `approve_package` | one action per read of shared state, so that `Stage` and the three steps of an approval interleave with them |
| `LocalScan` | `scan --local`: `prepare`, the controls, `sign_record`, `verify_signature` | `log`, `head`, `work` (the repository), `record`, `sig` (the two output files), where each run is; one action per read or write of shared state, `Save`, `Commit` and `Checkout` around them |
| `Shell` | bash on a script: which runs end green, and after what | operators only; external |
| `ShellSigning` | the recogniser of a signing in a `run:` body | operators only, over the simple commands the script reads as |
| `SigningBody` | an author writing such a body | `shell`, `body`, `stage`; every prefix is judged and executed |
| `Workflow` | parsed workflow files and what `workflows.rs` concludes of them | operators only |
| `Actions` | how a run of a workflow ends on GitHub | operators only; external |
| `WorkflowEvidence` | a repository with an author, `init`'s artifacts and `verify` | `git`, `head`, `disk`, `init`; `Edit`, `Commit`, `init` artifact by artifact, `CrashInit` |
| `SigningSetup` | `signing setup` on one machine | the five files it shares with the user, `run` (where it is), `asked`; one action per read or write, `Crash` in any, the user's edits and guided repairs |
| `Pipes` | `run_with_stdin` and any child | `call`; one action per unit through either pipe |
| `BranchProtection` | `harden branch-protection` and the control's verifier | the forge (`rulesets`, `classic`, `remote`), `harden`, `verify`; one action per request, `Administer` |
| `Enforcement` | `init`, `enable`, `disable`, the shims, the hooks' engine and the verifiers of the hook-enforced controls | `config`, `hook`, `hooksPath`, `signersFile`, `signers`, `packages`, `ignore`, `tools`, `cli`, `run`; one action per write (truncating and filling apart), `Die`, the user |
| `Skill` | `skill check` and `skill install`, `resolution_chain` over the binary's path, and beside it the kernel's own resolution, name by name | `fs` (inodes), `platform`, `run`; one action per system call, the user's `Chmod`, `Save`, `Remove`, `Create` |
| `MC*` | the instances | |
| `GateProofs` (`PushGate` and `PolicyGate`), `CommitGateProofs`, `LocalScanProofs`, `WorkflowEvidenceProofs`, `SigningSetupProofs`, `BranchProtectionProofs`, `EnforcementProofs`, `SkillProofs` | the theorems | inductive invariants, lemmas |

Composition: `PushGate` and `PolicyGate` both extend `SignerPolicy` and
`History`, as the code resolves signatures with the same functions in both.
`PushGate` instantiates `ProtectedBranch` as `Promise`. `SigningBody` compares
`ShellSigning` with `Shell`; its verdict is the `bound` of a signing step in
`Workflow`, which `WorkflowEvidence` compares with `Actions`. `BranchProtection`
sends each PUT through `Pipes`. `Enforcement` takes what a gate decides about
one commit or push as a function of the settings; how it looks at commits is
`PushGate`'s and `CommitGate`'s.

Definitions described as a plausible slip next to the definition they distort
(`FourPoints` beside `Chain`, `ScanOrPass` beside `Scan`) occur in no
behaviour. They document what each property notices.

What is abstracted: a commit is a model value with its signature, author,
trailers and secrets as functions; a file is a blob out of a small set; a
scanner recognises a fixed set; trailer, manifest, TOML and YAML grammars appear
by their verdict. gpg keys are handled by the operators but no instance has one.
`--no-verify` is not modelled: it is the absence of the gate. One policy file
serves a whole run of pre-push. `git push` without `--atomic` is assumed.

## Runs

| Run | Question |
|---|---|
| `push_gate` | does anything unvouched, or any agent, land on `main`; does a forced push discard what its clone never saw; can a leak reach the remote past a gitleaks verdict; is the abstract promise kept |
| `push_release` | the same promise for a branch that does not exist yet (violated) |
| `policy_gate` | does a green run mean a trusted range, and do green push runs chain to the start |
| `policy_update` | is the base of an updated pull request the branch it will be merged into (violated) |
| `commit_gate` | which races, exactly, let a finding, a package or an unreviewed change land |
| `local_scan` | which races, exactly, let a record misdescribe its commit, a success be refused by the directory, or a signature sit beside another record |
| `signing_body` | can a body the recogniser accepts end green after a failed signing, and does it refuse for cause |
| `evidence` | does what `verify` takes as proof deliver; do `init` and `verify` agree; does a clone that gets what `init` wrote pass |
| `setup` | what can set-up cost the user, can the agent wear the human's address, and does re-running converge |
| `branch_protection` | do administrators' edits survive, are success and verdicts earned, does every run end |
| `enforcement` | is what passes enforced, does sound work get through, do the gates fail closed, do edits survive, does `init` converge |
| `skill` | does a strong verdict stand, is a weak one earned, does an unforced install harm nothing |

The violated runs are disagreements between the code and a sentence of its own
documentation or comments, quoted in `PROJECT.json` under `findings`.

Bounds, and why they are enough for the questions:

* push runs: two clones (the hazards are a check against a second actor's
  move), four commits (an agent's work, which leaks, a human's merge of it, a
  concurrent human commit), one protected and one open branch, one ref per
  push, `fail_open` on and gitleaks crashing at will. Three policy files: the
  intended one, and two that register an agent's key or name twice. Clones are
  interchangeable, hence the symmetry set; the properties are all safety
  properties and do not name a clone. `push_release` has a single clone: the
  counterexample needs no race. No instance has a checkout without a
  configuration, which is the absence of the gate.
* policy runs: eight commits with the self-promotion in one commit and in two,
  an admission by a human, an eviction by the admitted one, a merge that keeps a
  new policy and one that takes an old policy back. The pull request keeps only its latest run (and those merged); the default
  branch keeps them all.
* commit run: one manifest and one script with three contents each, among them a
  symbolic link and a submodule, so that types change; histories of at most `MaxCommits = 2` commits (the root and one that may be
  amended any number of times), at most `MaxMoves = 2` index entries changed by
  others during a commit (one before the tree is written and one after it are
  the interesting cases). Every scanner may be missing or crash.
* local run: two runs of the command (interchangeable, hence the symmetry set),
  the anchor and one file a control reads, two contents each, `MaxCommits = 2`
  and `MaxSaves = 2`: two saves are what it takes to change a file and put it
  back, two commits to move HEAD away and back. The anchor may be untracked, as
  `sscsb init` leaves it.
* body run: the vocabulary of `MCSigningBody`: every construct the recogniser
  distinguishes, one opening, one signing, and up to `MaxFollowing` chunks after
  it, so that a capture, a rebinding and a consultation fit.
* evidence run: three controls, their templates and an author's own workflows,
  one of them at the path of an artifact, with the faults the recogniser looks for one at a time; `MaxEffort = 2` edits
  and passes of `init`, enough for a torn artifact to be kept by the next pass.
* set-up run: one human whose address is spelt in two ways, an agent with two
  names; a fresh machine, a working one and one set up by v0.2.0, whose user also
  has a `GIT_CONFIG_*` pair in the harness settings;
  `MaxCrashes = 1` and `MaxEdits = 1`: each named loss needs one death or one
  edit at the wrong moment, and the runs that follow are unbounded.
* branch-protection run: two branches, two rulesets, three forges (one ruleset
  for everything, one each, classic), pipes of capacity one and data of up to
  two units, so that each direction may or may not fit; one administrator's edit
  (`MaxEdits = 1`), anywhere in a run.
* enforcement run: three starts (nothing set up, a clone, a lax clone), three
  settings and two hooks the user touches, `MaxActs = 2`, `MaxDeaths = 1`: a gate
  is undone by one act and hidden by another.
* skill run: a plain layout, a relative link, Homebrew's link through a link, and
  a link that goes into a directory and out again; one door at most, at any
  inode; `MaxWalk = 40` steps along a path and `MaxHops = 6` links, both far
  more than a layout needs; `MaxActs = 2`, what it takes to remove an
  entry and put another there. A longer way to the same end (make the directory
  writable first) ends in a state that a start with a writable door begins with.

`CHECK_DEADLOCK FALSE` in the policy, commit, local, body, evidence,
branch-protection, enforcement and skill runs: the histories end at their
bounds, a script is written, a forge may have nobody at work, a binary may be
gone. Deadlock is checked in the push and set-up runs.

### Fairness

The hooks, the push gate and the policy workflow carry no fairness: a user may
always give up and a forge may never deliver an event.

* `setup`: a run that was started takes its steps (`WF` of `RunStep`), the user
  follows the advice it prints (`WF` of the repairs), and each lane is started
  again and again (`SF`: other runs and edits make starting it intermittent).
  Convergence is a claim about re-running, so re-running is assumed; deaths and
  edits are bounded, not fair.
* `branch_protection`: `WF` of each step of `harden`, of `verify`, of the pipes,
  and of `gh` ending once it may. Nothing forces an administrator.
* `enforcement`: `WF` of the steps of `init` and of a toggle, `SF` of starting
  `init` again.

### Reading the properties

`FindingNeedsRace`, `PackageNeedsRace` and `ReviewNeedsRace` do not say that
nothing bad lands. The hooks take no lock, so an index entry changed at the
right moment does land unscanned; the properties say that this is the only way,
and in which window: before the tree is written for the scanners, after it for
the two commit-msg gates. One kind of entry needs no race: `staged_paths` and the
package gate list with `--diff-filter=ACMR` (`hooks.rs:440`, `deps.rs:1286`), which
leaves out status T, although "the gate has to cover exactly the content about to
be committed" (`openwiki/commit-integrity/git-hooks.md:61`). A symbolic link or
submodule in HEAD that is replaced by a file, or a file by one of them, is neither
scanned nor compared nor reviewed (`TypeChanged`); the three properties exempt the
entries whose type the commit changes, and no others. Broken baselines, missing and crashing scanners, and
changes to other entries and amending are all shown harmless for them when
`fail_open` is off (the review gate judges what an amending commit adds to the
one it replaces). `MisdescribesNeedsRace` says what the second clean check of a
local scan does achieve: one save during the run is always caught, and only a HEAD
that moved under the controls, or a file saved away and back, goes unnoticed.
`RejectionNeedsRace` exempts an anchor the recorded commit does not track:
untracked files do not make the tree dirty. `SignatureIsOfRecord` exempts two
runs that overlapped while signing, and a process that died between writing the
record and removing the old signature.

Several properties name, in a definition of their own, what the code is known
not to look at. What these exemptions say of the code:

* `signing_body`. `OutsideJudgement` collects what the recogniser does not look
  at: a captured status tested with the branch on the wrong side ("Which way the
  test reads is not evaluated", `workflows.rs:2102`), a signing where bash
  suspends `-e` for another reason than its own `||` or condition, and a shell
  template of the author's own without `-e`. `KeywordArgument` is a reserved word
  that is only an argument: `compound_arms` counts the `done` of `echo done`
  (`workflows.rs:1591`), although the comment of `closes_compound` says that "an
  `echo done` closes nothing". Bash does not exit on a failure of any command of an `&&` list but the last:
  `cosign sign && echo ok` followed by another line is spared by `-e`, and accepted,
  although the comment of `and_or_tail_branch` (`workflows.rs:2204-2206`) says that
  a newline ends the list "with the signing status intact".
* `policy_gate`. `verify_policy_changes` asks `git log -- <policy>`, which at a
  merge follows only a parent that has the merge's policy. `PassedOver` is an edit
  which that hides: one that a commit of the range has behind it while it keeps
  the policy of a parent in the range that has not (a merge by `-s ours`), or one
  that is not behind the target when a pull request is checked out at a merge that
  has its target's policy (which takes a longer history than the instance's: only
  the proof covers it). Such an edit was dropped where it was passed over.
  `TakenBack` is a policy that was in force once before the base: a merge that
  keeps the side of a branch without the later edits takes it back, is listed by
  nobody and needs nobody's signature. `GreenChangeHasHuman` says that this is the
  only way to another policy without a trusted human's signature on a commit with
  it; no merge brings in a policy of its own making.
* `evidence`. `needs:` is only resolved and searched for cycles, so proofs are
  judged with `needs:` removed; `automatic_caller` (`workflows.rs:3136`) does not
  compare what a callee asks for beyond the control's scopes (`AsksMore`). Filters
  and non-constant conditions are assumed to match; one step fails in a run.
  `PublishedPasses` carries what `init` decided in one working tree into a clone:
  committing the files it wrote, and nothing else of what lies about, makes the
  controls pass there, but for files it found and kept. `DeletedArtifact` is the
  exception: where the author has deleted a committed artifact without committing
  that, `init` still counts it as evidence and leaves others out for it, and then
  writes the template over it, or leaves it deleted, so the clone's evidence is not
  the one `init` saw.
* `setup`. "Never-clobber" (`signing_setup.rs:1217`) does not hold of a settings
  file that was empty or not UTF-8 when merged into, nor of a save in the run's
  window; nor of the user's own `GIT_CONFIG_*` pairs, which
  `merge_git_config_env` removes with the stale ones (`signing_setup.rs:1014-1023`):
  one merge leaves them in the backup only, and the next merge that changes
  anything backs up over that only copy. `allowed_signers` and the attestation
  store are written in place without a backup. The guard refuses a shared address; a shared key is neither
  refused nor repaired. The `sign` alias is written once and never refreshed, a
  missing public half is never made again, and an address and a key on different
  lines of `allowed_signers` count as a mapping. `gpg.ssh.allowedSignersFile` counts
  as set whatever path it holds (`signing_setup.rs:1094`), but the agent's line
  goes to `~/.ssh/allowed_signers` (`1390`): where git reads another file, or one
  that is not there, local verification never learns of the agent, and in the
  latter case the human lane stays PARTIAL. These are the five `Stuck` states. The
  human lane needs an `allowed_signers` that only the agent lane creates.
* `branch_protection`. `harden` takes the first ruleset that matches a branch,
  counts `~DEFAULT_BRANCH` for every branch, looks at neither enforcement nor
  exclusions, skips a rule without parameters, lowers review settings when run
  without `--require-reviews`, and takes a list it could not read for an empty
  one while still reporting success. `verify` never adds rulesets and classic
  protection up, and PASSes although some branch was never answered for, as long
  as another one is protected. `MayBlock` is the one deadlock: payload and output
  each larger than a pipe, with a child that prints before it reads. The callers
  that hand a child standard input are the PUT and `ssh-keygen -Y verify`.
* `enforcement`. `Unspoken` is what a PASS says nothing of: an empty list of
  protected branches, the range scan switched off, an `allowedSignersFile` of the
  user's own, both scanners off under `fail_open`. `WorkBlocked` is what strict
  success does not notice: shims that cannot find `sscsb`, both scanners off, no
  approved human. Fail-closed has two windows: a shim that an init is rewriting,
  or died rewriting, is an empty script, which git takes for a yes; a
  configuration that a toggle has truncated is all defaults, so what was
  protected beyond the defaults is not. A `.gitignore` that is not UTF-8 counts
  as empty and is written over, although `init.rs` says "Appended, never
  rewritten". `init` cannot get past a configuration that does not load or a
  signer policy that does not parse; the advice a broken configuration prints
  (`config.rs:199-206`, use `enable`/`disable`) cannot be followed, because both
  load it first.
* `skill`. The verdict of `WeakIsEarned` is conservative about a link the user
  owns in a directory that is not its own, which cannot be repointed, and about a
  directory that the path enters and leaves again by `..` (`LeftAgain`): the walk
  records it (`skill.rs:432-494`), and whoever owns it can neither replace nor
  redirect anything. Both are false alarms, never false assurances. A sticky
  directory that is root's and everybody's is a third: nobody but the owner can
  replace an entry in it, and the probe calls it writable. The model has no sticky
  bits.
  The strong verdict is not available on Linux. `InstallHarmless` is about an
  unforced install that nothing disturbed: a forced one writes through a link to
  the file behind it, and one that died leaves a torn copy that later installs
  refuse without `--force`. The walk over the path is one step: what it probed
  cannot have become a door while it walked without being one already.

Known gaps that no run is spent on: with `fail_open`, one scanner's findings are
dropped when another one fails (`hooks.rs:679`, `docs/phase-1.md:271`); `--amend`
escapes the review gate, which judges the delta (`hooks.rs:826`,
`docs/phase-1.md:84-85`); an entry that changes its type escapes the scan, the
review and the package gate (`hooks.rs:440`, `deps.rs:1286`); an old policy taken
back by choosing a side in a merge is in no listed commit (`signers.rs:638`); a
local record is written for the HEAD the run began with (`local_scan.rs:879`). The properties of these components are
stated so that the gaps are visible in them.

## Proofs

Each theorem below is about the specification TLC runs, for every value of the
constants that satisfies the assumptions named in the modules (which TLC
evaluates on the instances). TLC checked each inductive invariant on its instance
before it was proved (the `Sealed` of `Skill`, which speaks of a walk of any
length, up to `MaxWalk`), but for `TypeInv` of `WorkflowEvidence`, whose sequences
TLC cannot enumerate. The invariants and lemmas are in the `*Proofs` modules.

| Module | Theorem | States |
|---|---|---|
| `PushGate` | `TypeCorrect` | `[]TypeOK` |
| | `ProtectedIsVouched` | `[]ProtectedVouched`, from `Established` |
| | `NoAgentLands` | `[]AgentNeverLands`, from `Established` |
| | `GateKeepsPromise` | the refinement of `ProtectedBranch`, from `Established` |
| | `NoLeakUnseen` | `[]NoSecretLeaves` |
| | `OnlySeenDiscarded` | the action property `DiscardsOnlySeen` |
| `PolicyGate` | `PolicyTypeCorrect` | `[]PolicyTypeOK` |
| | `GreenIsTrusted` | `[]GreenRangeTrusted` |
| | `BranchIsRooted` | `[]MainRooted` |
| | `GreenHasHuman` | `[]GreenChangeHasHuman` |
| `CommitGate` | `TypeCorrect` | `[]TypeOK` |
| | `FindingsNeedRace`, `ReviewsNeedRace`, `PackagesNeedRace` | the three action properties on what lands |
| `LocalScan` | `TypeCorrect` | `[]TypeOK` |
| | `RecordsDescribe`, `SuccessesDescribe` | `[]MisdescribesNeedsRace`, and the same of every record of a success |
| | `RejectionsNeedRace` | `[]RejectionNeedsRace` |
| | `SignatureMatches` | `[]SignatureIsOfRecord` |
| `WorkflowEvidence` | `TypeCorrect` | `[]TypeInv` |
| | `ProofsDeliver` | `[]ProofDelivers` |
| | `InitAgrees` | `[]InitAndVerifyAgree` |
| | `NothingHides` | `[]DefectsHideNoProof` |
| | `ClonesPass` | `[]PublishedPasses` |
| `SigningSetup` | `DataSurvives`, `NoBlur` | `[]UserDataSurvives`, `[]NoEmailBlur` |
| `BranchProtection` | `TheirsSurvive` | `[]AdminEditsSurvive` |
| | `SuccessAligns` | `[]HardenedMeansAligned` |
| | `VerdictsReal` | `[]VerdictIsReal` |
| `Enforcement` | `TypeCorrect` | `[]TypeOK` |
| | `VerdictsEnforce` | `[]PassEnforces` |
| | `StrictLetsThrough` | `[]CleanLands` |
| | `UserEditsSurvive` | `[]EditsSurvive` |
| | `GatesFailClosed` | `[]FailsClosed` |
| `Skill` | `TypeCorrect` | `[]TypeInv` |
| | `StrongHolds` | `[]StrongStands` |
| | `WeakHolds` | `[]WeakIsEarned` |
| | `InstallIsHarmless` | the action property `InstallHarmless` |

### Hypotheses

* `Established` (push gate): every protected branch exists at the start and the
  forge refuses to delete it. Without it the results are false: `push_release`
  is the counterexample.
* `GraphAssumption` (`History`): the commit graph is finite and acyclic.
* `StartsAssumption` of `SigningSetup`, `BranchProtection`, `Enforcement` and
  `WorkflowEvidence`: the starts are states of the program (types; at the start
  the harness does not already go by the human's address; classic protection
  stands on branches that exist). `TemplatesAssumption`: `sscsb`'s own templates
  are sound workflows whose jobs are hardened, which the tests
  `every_artifact_template_satisfies_its_own_shape_check` and
  `every_workflow_template_embeds_harden_runner` (`workflows.rs`) say of the
  embedded files.
* `SkillAssumption`: the starts are directory trees (the root is a directory, an
  entry leads to an inode in use, a link says where it leads), and the paths are
  paths. Nothing is assumed of modes, owners, links, loops or what is where.

### The arguments

* Push gate. `ProtectedVouched` is not inductive: when an update is delivered,
  nothing in it says what the hook saw. `GateInv` adds `InFlightCleared`: an
  update on its way to a protected branch brings only cleared commits relative to
  the tip its hook saw, and that tip exists. `Deliver` compares the branch with
  that very tip, so what lands is what was checked (`AcceptedRange`).
  `NoAgentLands` adds that a vouched commit carries an intact signature by a key
  some policy file in use registers to a human and to nobody else (`HumanKey`,
  from the uniqueness rules of `parse_signers`). `AgentKeys` is the complement of
  such keys.
* Policy gate. `GateInv` says of each run what its verdict was computed from, and
  that the push runs' ranges tile the branch. That the walk of `git log` lists
  every edit of a range it does not pass over (`EditsListed`) is proved by taking an
  oldest commit of the walk that has the edit behind it: ancestor counts decrease
  along parents, and the naturals are well-founded (`WFMin`). Following a new policy
  down to the oldest commit of the walk that has it, one finds a listed commit or a
  policy from behind the base (`ChangeIsListed`). The walk is the least set closed under the parents it follows, which is what makes
  this possible without recursion.
* Commit gate. One invariant per property, each file by file: while an arm of
  pre-commit copies, a staged entry nobody moved is still to be copied or was
  copied as it stands (`CopiesStaged`), where staged means listed, so that an entry
  of another type than HEAD's is nobody's; since git wrote the tree, the index is
  the tree but for the moves (`IndexIsTree`); a manifest nobody moved is still to
  be compared or holds approved names only (`PackagesCompared`).
* Local scan. `RaceInv`: while the controls run, a file not saved twice is as
  committed, and then all the controls can have seen is that, or was saved once,
  and then stays dirty until the second clean check (`AsCommitted`, `SavedOnce`).
  The anchor and the signature have an invariant each.
* Workflow evidence. `ProofsDeliver` is not about reachable states only: it is
  proved of any set of parsed files (`ProvingDelivers`), and `TypeCorrect` says
  that the author, `init` and a crash leave nothing else. A proving job makes its
  deliverable unless a fault turns it red (`ProvenMakes`, one lemma per kind of
  evidence); with `needs:` removed every job starts (`AllStart`), so a fault in
  it turns the run red; and a live caller that the recogniser accepts is one that
  GitHub starts (`CallLives`). `InitAgrees` rests on `CalmInv`: what `init` has
  gone past was kept, is the template, or is proven by what is committed. The
  last is stable because evidence is monotone in the files (`EvidenceGrows`),
  from which `NothingHides` follows as well, and `ClonesPass`: with nothing deleted,
  the files `init` wrote are only added to the committed ones, so a proof it
  relied on still stands beside them.
* Set-up. What the user had is at each moment in the file, or in what the run has
  read and in its backup (`SettingsInv`, `SignersInv`, `PolicyInv`), but for the
  named losses, where a `GIT_CONFIG_*` pair may be in the backup alone; no address on its way into the settings is the human's
  (`EmailInv`).
* Branch protection. `AdminInv`: the body on its way differs from the ruleset it
  replaces in what `harden` owns, unless that ruleset was edited meanwhile.
  `AlignInv`: of an undisturbed applied run, each branch gone past is aligned,
  each ruleset handled is in posture or on its way, and what the run passed over
  in the list does not match; so the one it takes is the first match, and later
  PUTs keep what earlier branches got. `VerdictInv`: each branch was earned,
  skipped or is still to come, and a gap was real when it was found.
* Enforcement. `PassEnforces` and `CleanLands` are consequences of the types;
  `EditsSurvive` and `FailsClosed` need to know how far an `init` has come and
  which gates the user has opened (`HooksStand`, `GitStands`, `ConfigStands`).
* Skill. Two walks over one file system are compared: the kernel's, which decides
  what the user's command runs, and the one of `resolution_chain`, which works off
  a queue of paths and may give up. A simulation lemma keeps them beside each
  other, name by name (`Beside`, `Follows`): a walk that was completed has seen
  every inode the kernel stands in on the way. So when it saw only what is root's
  and shut (a strong verdict is given on macOS alone), the way is `Sealed`, and no step of the user or
  the command touches any of it (`Frame`): `StrongInv`. Conversely, whatever the
  walk saw before it gave up is on the kernel's way, a link it follows, or left
  again (`ChainMeets`), so an open door is one on the way: `WeakInv`, which also
  says that an undisturbed check knows what it would still find. `HarmlessInv`:
  what an install found missing is still missing after `create_dir_all` has made
  the directories, since a new directory is empty (`StillMissing`), and the file
  is made where the path will find it (`FoundWhereMade`). The lengths of walks
  are handled by induction over the naturals, from their well-foundedness
  (`NatSteps`).

### What the proofs changed

Proving corrected the models where they were wrong, and strengthened what they
say. `RejectionNeedsRace` excused a HEAD that had moved under the controls; the
invariant shows that this is no excuse, and it was dropped. A root commit without
a policy counted as an edit of it (`Edits`); `MakeBranch` could take branches
away; `MaxCommits` of `CommitGate` may not be zero; the types of `Enforcement`
were too wide. The walk of `git log`, the list of rulesets and the contents of
workflow files were restated, with the same meaning, so that they can be reasoned
about: as a least closed set, as places in the list, and as named sets. In `Skill`
the kernel's resolution became a walk of one name per step, and `create_dir_all` one
directory per step, with the user's changes in between, as the code has it.
`WeakIsEarned` was false: a case of its proof could not be closed, that of a
directory passed over by `..`, and with a layout that has one (`Detour`) TLC finds
the false alarm. The exception is now named in the property. Hypotheses on the history, under
which no edit is passed over and no policy taken back, became exceptions in the
properties themselves, so that the policy gate's theorems hold of every history.

### Only model-checked

* Liveness: `LanesConverge`, `HardenEnds`, `InitConverges`. It needs fairness and
  `ENABLED`, which are out of the prover's reach.
* `AcceptedMeansSigned` and `RefusedForCause` of `SigningBody`: `Shell` and
  `ShellSigning` declare recursive operators, over scripts of any nesting, and
  what they compute for every script is an induction over data.
* `AgentNeverLands` without `Established`, and `MergedPrTrusted`: they are false,
  and TLC shows why.

## Not modelled, and the plan

Next, in this order:

1. `add_signer`, and the two reads of `signers.toml` in the push gate
   (`hooks.rs:1051`): `PushGate` has one policy file per run.
2. Receipts of `provenance.rs`: binding to a commit.

Left out, with the reason: the audit of other people's workflows, pin and action
checks, the wrappers of scanners, SBOM, VEX and provenance tools, distribution
checks, observability, webhooks, package-manifest parsers and output rendering.
They are single passes over text or a tool's output; they keep no state and meet
no other actor, so a model of them would restate their grammar. They, and the
text of messages in the modelled files, are most of the source's lines, which is
why the models cover the behaviour of the program far better than its lines.
Within modelled components: the dry run and the cloud lane's attribution block
of set-up, freshness dates, `signing-model.toml` and `distribution.toml`, the
publish workflows, the SAST and typosquat toggles in `Enforcement`, ACLs, file
flags, mounts, image layers and capabilities in `Skill` (its
`UNCHECKED_MECHANISMS`), and sticky bits and root, which that list does not name.
