# Skill.md-native in TLA+

TLA+ models of the parts of this repository in which processes, threads, child
processes and failures meet, the TLC runs that check them on small instances
and the TLAPS proofs of what holds for every instance.

Paths below are relative to the repository; `skill_native/` stands for
`src/skill_native/`. `PROJECT.json` holds the same information for tools: the
components, the runs, the lines every definition stands for, the hazards, the
mutants (a plausible bug for every property, which the property notices) and
the theorems.

## 1. The system

The repository evaluates *skills*: it fetches one at an immutable commit,
compiles a harness plan, runs it in a sandbox, collects evidence, constructs a
verdict, derives artifacts from both, signs them and publishes the signature in
a log. `docs/STATE_MACHINES.md` names the owner of every step.

| Part | Source | State | Operations | Hard part |
|---|---|---|---|---|
| transparency log | `transparency_log.py` | JSONL file, checkpoint file, `flock` file | `append`, `verify`, `verify_receipt` | several processes, crashes between two system calls, power loss, edits |
| Merkle tree | `transparency_log.py` | none | root, path, validation of a receipt | uneven sizes |
| inference broker | `gateway.py`, `providers.py`, `policy.py` | the receipt ledger; per request a router with its receipts | `chat_completions` in a thread per request | budget checked before and charged after the call, failover, errors nobody handles |
| coding runner | `coding_agent.py` | workspace snapshots, results of steps | `execute_coding_agent` | an untrusted child that forks, ignores signals and keeps writing |
| harness kernel | `harness_kernel_impl.py` | evidence and verdict files | `compile`, `run`, `verify` | exceptions on every path, cleanup, reuse of a run id |
| OpenShell runtime | `openshell.py`, `runtime_harness_controllers.py` | `_runs`, sandboxes in the gateway | `prepare`, `execute`, `collect`, `destroy` | calls that fail after they had their effect |
| one-shot stdin | `runtime_harness_controllers.py` | the armed input | `arm`, `run`, `clear` | threads that share a controller |
| Cloudflare runtime | `cloudflare_runtime.py`, `cloudflare/worker` | sandbox and telemetry objects | the same four, over HTTP | a sandbox that is reused, a bounded event list, destroy in two steps |
| evidence and verdict stores | `evidence.py`, `harness_kernel_impl.py` | content-addressed files | `persist` | a file is written in place and trusted when it exists |
| compiler, verifiers, security gate | `harness_contract.py`, `harness_verifiers.py`, `security.py` | none | checks | a High finding must not be compensated |
| domain adapters | `harness_adapters.py`, `browser_adapter.py`, `android_*.py` | none | compile, normalize | conversions of data |
| browser runner | `browser_runner.py` | event lists, artifacts | actions and callbacks of pages | callbacks in an order the plan does not fix |
| run artifacts | `run_artifact_*.py` | evidence graph, bundle | `build`, validation | continuity across parts |
| attestation | `attestation_*.py` | keys, envelopes | sign, verify | policy and key thresholds |
| ingestion | `registries.py`, `github_ingest.py`, `provenance.py`, `supply_chain.py` | a directory | fetch, extract, digest | a destination that is used again |
| scoring and reports | `scoring.py`, `compatibility.py`, `reporting.py` | none | aggregation | thresholds, the gate |

How they meet. The kernel calls a runtime and a domain adapter; the coding or the
browser runner is the command of such a run, inside the sandbox. Sandboxed code
reaches models through the broker, whose ledger the kernel reads afterwards
(`attach_run_receipts`). Evidence and verdicts become a bundle, a signed
envelope and finally a line of the log. Shared state that outlives a process is
found in six places: the log and its checkpoint, the ledger, the evidence and
verdict directories, the store of bundles, the artifact root of a browser run,
and what the runtimes keep under a run id (sandboxes, telemetry).

What makes each part correct:

* log: an envelope is published once; a receipt stays valid; history never
  forks; an edit is noticed; the lock is given back.
* broker: an answered request leaves a record of each attempt, once; a budget
  is not exceeded by more than what is in flight; no provider is substituted
  silently.
* coding runner: a pass is about the workspace the caller gets; the runner ends.
* harness run: evidence is about the run's own command and shows what was
  denied; a sandbox is left behind for a known reason only; a verdict finds its
  evidence.
* browser runner: a pass hides nothing that happened during the run; artifacts
  belong to one runner and are bounded; the runner ends, and its browser with it.
* from run to receipt: a rank means that the run was clean; parts of different
  runs are not taken for one; a stored bundle is whole; an accepted signature
  was made for this bundle; what compiles can pass.

## 2. Modules

### TransparencyLog

Any number of processes (`Procs`) call `append`, `verify` and `verify_receipt`.
Each system call of `append` is an action, because a process can be killed
between any two of them:

| `TransparencyLog.append` | action |
|---|---|
| `verify_attestation` and the comparison of digests | `AppendStart` |
| `flock(LOCK_EX)` | `AppendLock` |
| `_verify_unlocked`, the check for duplicates | `AppendRead` |
| the entry, `write`, `flush` | `AppendWrite` |
| `os.fsync` | `AppendFsync` |
| `_atomic_write_json` | `AppendCheckpoint` |
| `_fsync_directory`, the receipt | `AppendFinish` |

`verify` and `verify_receipt` are `ReadStart`, `ReadLock` (`LOCK_SH`) and
`ReadCheck`. `AppendError` is an `OSError` of any of the calls (a failed write
may leave a torn line), `Kill` a process that dies, `PowerLoss` a machine that
does. For the power loss files have two faces: `log`, `ckpt` are what
processes see; `synced`, `named`, `ckptDisk` what the disk is bound to keep. A
rename is not on disk before the directory is; lines that were not synced may
survive, partly, or not. A file system on which directories cannot be synced is
`DirFsyncSupported = FALSE`; the properties that need the sync say so. `Tamper` edits
the log, not the checkpoint: a line is damaged, two change places, the file is cut at any
line, and what is left may be continued by a line that agrees with the chain and by the one
that was cut (an insertion).

`pc`, `arg` and `entries` are the locals of a call; `issued` and `written` are
history. SHA-256 is a tagged tuple of what is hashed, JSON is left out, and a
line that `_read_entries` refuses is `Garbage`.

### PublicationLog

What the log promises, for a reader who does not care about files: a sequence
of publications, receipts that name prefixes of it, a publication that fails half
way, a crash that takes what no receipt names, and an edit after which only the
receipts are left. `TransparencyLog` maps its state to it: `Published(log)` is
the envelope of each line (none for a torn one), `Promised` the sizes that
receipts name (none where directories cannot be synced), `~Untampered` is
`edited`. `ImplementsPublication` is the abstract specification under this
mapping, checked by TLC and proved in `TransparencyLogProofs`.

### MerkleTree

`Root`, `Path`, `FoldPath` are `_merkle_root`, `_merkle_path` and the loop of
`validate_receipt`, as recursive functions: over the lists of the elements of a list, and
over the indices of a path. `TransparencyLog` gets them through its operator
constants `MerkleRoot` and `MerklePath`, so that most is proved of any hashing.
`ReferenceRoot` is the tree of RFC 6962 built from the bottom, level by level.

### InferenceGateway

A thread per request: `Receive` (validation, budget, candidates), then one
`Complete`, `Fail` or `Malformed` per provider called, then one `Persist` per
receipt. The ledger is a sequence of records and of lines that do not parse: a
write that fails half way leaves `Torn`, and the record after it is glued to it
(`Garbled`). `Midnight` changes the date the budget is counted by. `Crash`
kills the gateway, which is started again on the same ledger. `local_only` is
chosen at the start. `MaxDisturbances` bounds midnights, faults and crashes
together.

### CodingRunner

`execute_coding_agent` runs a version probe, the agent and the tests; `step` is
which of them, `pc` where `_run_process` is: `launch`, `wait`, `probe` and
`term` (`_terminate_process_tree`), `reap`, `join`, `close`. Snapshots are read
file by file, while surviving processes may write. The untrusted side is the
leader, one descendant in its group (`plain`, `stubborn` against SIGTERM,
`stuck` against SIGKILL, or `quiet`: stuck, with its streams closed) and
descendants that have left the group, with or without the pipes. A leader nobody has waited for is a `zombie`, and keeps
`killpg(pgid, 0)` succeeding, as in the code.

### KernelRun, OpenShellRun, CloudflareRun, HarnessRun

Workers are processes with a kernel and a controller each. `KernelRun` has what
`HarnessKernel.run` does on every runtime: a call gets a run id (`Start`), and
after the sandbox is destroyed the evidence and then the verdict are persisted.
Each store looks for the file, opens it and writes it in place: three actions,
between which others do the same or the worker is killed. A file is first
`partial`, then `complete`.

`OpenShellRun` adds the methods of the OpenShell controller, an action each,
with one more for each way it can fail: before or after the gateway has done what
was asked, and with or without the deletion the code tries. Workers meet in the
gateway, where the sandbox name follows from the run id. The gateway is external:
it refuses to create a name twice and to delete one it does not have, and does not
delete by itself.

`CloudflareRun` adds the Cloudflare controller and the Worker behind it
(`cloudflare/worker/src/index.ts`). A run id has a sandbox object and a telemetry
object, which need not be created. `GetOrCreate` asks the telemetry whether
anybody asked before (`cold`), `ManifestBefore`, `StartCommand` and
`CollectFiles` wake a container. `Outbound` is a request of a running command,
`ReadEvents` and `PutEvents` are the two halves of `Telemetry.fetch`, which reads the list of
events (`base`) before it waits for the body of the new one.
`DestroyContainer` and `DestroyTelemetry` are the two halves of DELETE. Of the
platform it is assumed that a container is woken by any `exec`, that
`ctx.containerId` is the id of the sandbox, and that a call the client gives up
on has had its effect, in part or not at all, when the client goes on; only a
command may run on, since nobody enforces `timeoutMs`.

`HarnessRun` puts them together: one of the runtimes, and `KernelRun` with it.
`excused`, `shared`, `refused`, `strayed` and `raced` are history: the exceptions
the properties name. Telemetry counts as left over by its mark (`Owners`) and by its events
(`Authors`): an event that is on its way while DELETE clears the telemetry is put after that
and brings the list it has read back (`strayed`), with no call failing. `raced` is a run two
of whose events had read the list before either was put.

### BrowserRunner

`execute_browser` for one page: `pc` is the call it is in, `index` the action,
`window` the effect that the action declares. While a runner is inside a
Playwright call, and only then, callbacks may be dispatched: `RequestCallback`,
`ResponseCallback`, `ConsoleCallback`, `EffectCallback` (popup, dialog,
download), and `Navigate`, a page that goes elsewhere by itself. `state` is
`_ExecutionState` with its budgets, `store` `_ArtifactStore`, `disk` the files
under the artifact root, which all runners of one run id share. `Action`,
`Expect`, `Capture`, `Close` and `Report` follow the function; `Caught` is its
exception handler. A file is on disk before it is registered, and a runner may be
killed between: `TakeScreenshot`, `SaveDownload` and `Capture` end with `Write`,
which leaves the artifact in `pending`, and `SaveEnds` and `CaptureEnds` go on
with `Register` or `RegisterFails`. `Hang` is a call without a timeout that never
returns: `new_context` and `new_page`, `title`, `popup.close`, `download.save_as`,
`content` and the exit of `sync_playwright` (`Endless`). `Tamper` changes a file between the runner and the adapter;
`Normalize` and `Accepted` are `normalize_evidence` and `verify_evidence` of the
browser adapter, which cannot look at the files unless the runtime has told it the
workspace (`told`).

### HarnessKernel, RunArtifacts, Evaluation

`HarnessKernel` and `RunArtifacts` have no state. The former has the profiles of the four
runtimes (with `FakeRuntime` and the local fixture of the browser's tests), the rules of a
manifest, `Compiles`, what can happen in a run on a runtime (`CanHappen`), the evidence each
party contributes (`Evidence`), the assertions that runtime and adapter make of it, the
security gate and `Verify`; the latter what the builder requires, the artifacts,
the validators of a bundle and the attestation. A digest is what it is a digest
of: two digests are equal when what they cover is.

`Evaluation` gives them state. Runs are executed (`Execute`; receipts of earlier
runs with the same id come along, as the ledger is searched by run id). Publishers
are processes of `skill-native-run-artifacts build`, whose four files may be of
different runs (`Build`); they persist file by file: `CheckFile` (is the file there,
with other content?), `OpenFile`, which empties it, and `WriteFile`. `Kill` ends
one, in the middle of a file if it was writing.

## 3. Runs

All sizes are in the `.cfg` files; `PROJECT.json` lists the properties.

| Run | Asks | Distinct states |
|---|---|---|
| `log` (MCTransparencyLog) | publication once, write-ahead, validity of receipts, tamper evidence, one history, release of the lock, `PublicationLog` | 531 k |
| `log_torn_line` | the documented validity of older receipts: **violated** | |
| `merkle` (MCMerkleTree) | root against RFC 6962 built bottom-up, paths, commitment against lists of up to 4 leaves | 1 k |
| `broker` (MCInferenceGateway) | receipts, failover and substitution with faults, overshoot of the budget | 463 k |
| `broker_receipts` | the documented storage of receipts: **violated** | |
| `coding` (MCCodingRunner) | meaning of a pass, termination | 1.8 M |
| `coding_held_pipe` | the documented failure: **violated** | |
| `harness` (MCHarnessRun) | whose evidence, what it shows, leftovers, verdicts, what is stored | 1.2 M |
| `harness_prepare_leak` | the documented cleanup: **violated** | |
| `browser` (MCBrowserRunner) | meaning of a pass, artifacts, termination | 784 k |
| `evaluation` (MCEvaluation) | ranks, mixed parts, whole bundles, signatures, plans that can pass | 59 k |
| `evaluation_diagnostics` | the documented diagnostics of a failed gate: **violated** | |

Why the bounds are enough to show something:

* `log`: two processes and three envelopes, one of them not authentic. Two faults allow
  a torn or unsynced append followed by a power loss; one edit is enough to cut,
  swap, damage, rewrite or insert. Logs of two lines have a predecessor, a Merkle path
  and a prefix. The proofs remove these bounds for all but `LocksReleased`.
* `merkle`: nine leaves over two digests reach every split from 1 to 8 and the
  sizes 2^k - 1, 2^k, 2^k + 1. The proofs remove the bound.
* `broker`: two threads, three requests and three providers of different quota
  classes, whose names sort in the other order, one without a credential; a name
  the router does not have; two days; one midnight, fault or crash. Three requests
  against a budget of one really overshoot it; with the third, none is pinned and
  only midnight disturbs (`Bounded`).
* `coding`: two paths (one protected), two tests, two writes, one
  descendant: a write before and after every snapshot, and a test between two others.
* `harness`: two workers, which are symmetric, and three attempts. On OpenShell
  two run ids, two faults and a crash: a retry, a collision and an unrelated
  run. On Cloudflare the constraint `Bounded` keeps to one run id (two have
  nothing in common) and to four among attempts, faults, crashes and requests;
  telemetry keeps two events. So three events push one out, two are handled at
  once, a third attempt finds what two others have left, and a command that was
  given up on runs on beside the next: without any one of the exceptions they name
  `ColdMeansOwn`, `DeniedIsCollected`, `LeftoversExplained` and `VerdictHasEvidence` would be
  violated (for the events of a worker that shared the sandbox it takes a bound of five). Workers on Cloudflare
  are given no stores, as persisting is the same code.
* `browser`: two runners of one run id, two callbacks, a kill and an edit; four
  plans, with budgets for one event, one page, or fewer bytes than the
  artifacts, so that each budget is reached and passed.
* `evaluation`: two symmetric publishers, two runs, a kill and bundles of two files
  (one, and the bundle file itself); ten inputs made of eight manifests, among them those that
  `CompiledPlanCanPass` excepts, and twelve things that may happen in a run, of which
  `Tried` has those that make a difference to its manifest. The proofs remove these bounds.

Where `CHECK_DEADLOCK FALSE` is set the bounded system really ends: requests,
attempts or writes are used up, or the runner has issued its receipt. In `log`
deadlock is checked: a process can always verify again, and so every blocked
state would be a lock nobody gives back. In `harness` workers run out of calls,
in `browser` and `evaluation` every process ends.

Fairness. `log` assumes weak fairness of each process' own steps once it is in
a call: the kernel schedules it; nothing is assumed of callers, of the order in which `flock` serves waiters, or of faults. `LocksReleased` needs no more, as a
holder never waits for another. `coding` assumes weak fairness of the trusted
runner and none at all of the untrusted processes, which may hang, spin or
sleep for ever. `browser` assumes weak fairness of each runner: a Playwright
call with a timeout returns or raises whatever the page does. Six calls have none
(`Endless`; `download.save_as` waits for the end of the download): a runner may `Hang`
in them, and `RunnerEnds` excepts it. Only who has started the command ends such a
runner, by a limit of its own (`timeout_seconds` of the spec), which is a `Kill`. Nothing
is assumed of callbacks, kills and edits. The other runs check safety only.

## 4. Where the code and its documents differ

1. `docs/ATTESTATIONS.md:221` promises that receipts for older prefixes remain
   verifiable. `verify_receipt` reads the whole file first
   (`transparency_log.py:278`): one torn last line and no receipt verifies.
2. `docs/ARCHITECTURE.md:222` says that every request stores a receipt. A
   response without text raises `ValueError` (`providers.py:183`), which
   `chat_completions` does not catch: the receipts of all attempts are lost.
3. `docs/CODING_AGENT_HARNESS.md:231` says that failure to terminate the
   process tree forces failure. A descendant in its own session that keeps
   stdout open makes `handle.close()` wait (`coding_agent.py:430`): there is no
   receipt at all while it lives.
4. `docs/STATE_MACHINES.md:179` says that cleanup runs even after failures.
   `prepare` is called outside the `try` (`harness_kernel_impl.py:213`): what it
   created before it failed stays, and its name blocks the next attempt.

5. `docs/RUN_ARTIFACTS.md:167` says that failed security runs may retain an
   `unresolved_evidence_reference` so that diagnostics are not lost. The gate's
   check carries the ids of findings the kernel made up
   (`harness_kernel_impl.py:369`), which no evidence has, and the graph builder
   refuses a check with such an id (`run_artifact_graph.py:226`): `build` raises.

## 5. Proofs

`TransparencyLogProofs` proves, for every set of processes and envelopes, every
hash operator, any number of faults, and `DirFsyncSupported` of either value:

| Theorem | States |
|---|---|
| `TypeCorrect` | `TypeOK` |
| `MutualExclusion` | whoever is in the critical section of `append` is alone there, readers included |
| `PublishedOnce` | `OneEntryPerEnvelope` |
| `CheckpointFollowsLog` | `WriteAhead` |
| `ReceiptsStayVerifiable` | `ReceiptsVerifiable` |
| `SingleHistory` | `NoFork`, for a log nobody has edited and any hash operator |
| `EditsAreEvident` | `TamperEvident`, for a hash without collisions |
| `NoTwoHistories` | `NoFork`, edits included, for a hash without collisions |

Assumptions are the `ASSUME`s of `TransparencyLog`: authentic envelopes are
envelopes, `None` is no process, the bounds are numbers. Nothing is assumed of
`MerklePath`, and nothing of `MerkleRoot` before the last two theorems, since a
receipt is compared with one that is derived again by the same functions.

None of these properties is inductive. `IInv` has three parts:

* `TypeOK`;
* `LockInv`: a process holds `LOCK_EX` exactly while it is between `read` and
  `finish` of `append`, `LOCK_SH` exactly while it reads, and nobody has
  `LOCK_SH` while somebody has `LOCK_EX`;
* `DataInv`, for a log nobody has edited, in four parts of its own:
  * `LogInv`: every line but possibly the last (a torn one) continues the lines
    before it, and no two carry the same envelope; what is synced is not longer
    than the log;
  * `CheckpointInv`: no checkpoint the disk may come up with counts more lines
    than are synced, unless the log is *wedged*: its name was lost in a crash
    and its checkpoint was not, so that no append succeeds any more;
  * `WriterInv`: what the writer holds in `entries` is what the file holds, the
    log has no entry of its envelope before the write, the log is synced before
    the checkpoint is replaced, and the checkpoint is that of the log when
    `append` returns;
  * `ReceiptInv`: with directory syncs, every issued receipt is derived from a
    prefix of the log that is synced, and the log is named.

Publication stays unique across crashes because a writer's look-up and its write
are under one exclusive lock (`LockInv`), and what it looked through is still the
file when it writes (`WriterInv`). A log that does not match its checkpoint,
whether a crash left it behind or ahead, is refused by `_verify_unlocked` and
takes no further entry, so no case of the proof has to extend one.

The step to `FilesInv'` has a case per action (`DataStep`); lemmas about prefixes
(`PrefixOfAppend`, `PrefixOfPrefix`), about lines added to or torn off a chain
(`ChainGrows`, `ChainTorn`) and about receipts of prefixes
(`PrefixReceiptVerifies`) are stated once. `TypeStep` and `LockStep` do the other
two parts, `Invariant` is `Spec => []IInv`, and each theorem ends with the
implication from `IInv` and PTL.

After an edit `DataInv` says nothing, and the file may hold another consistent chain.
`EditsAreEvident` and `NoTwoHistories` have an invariant of their own, `VouchInv`,
which speaks of what an edit of the log does not reach. Entries *vouch* (`Vouched`) when
they are a chain `append` has written and every receipt is derived from one of its
prefixes. Every checkpoint that the disk may come up with is of entries that vouch
(`CheckpointsVouch`), and what a writer holds in memory vouches too (`WritersVouch`); a
log that matches its checkpoint is then those entries (`SameCheckpoint`), which is also
why the next append may build on it. This is where collisions matter, so both
theorems have two hypotheses: `CollisionFree`, different lists of as many
digests have different roots, and `CheckpointExists`, a checkpoint is not `None`.
They are hypotheses and no `ASSUME`s because TLC cannot evaluate them. For the
code's own `Root`, `MerkleProofs` proves the first one (`RootsCommit`), from the
collision freedom of SHA-256 alone.

`Refinement`, `Spec => ImplementsPublication`, has the assumptions of the first six
theorems. The invariant is `IInv` with `ArgInv` (whoever is inside `append`
has an envelope that verified). Each action is a step of `PublicationLog` or
leaves its state as it is: a write publishes or tears, `AppendFinish` promises,
`PowerLoss` loses, which is where `ReceiptInv` is needed (what a receipt names is
synced and named), `Tamper` edits, and after an edit every step is an edit that
keeps the promises.

`MerkleProofs` is about lists of any leaves and any length:

| Theorem | States |
|---|---|
| `RootsAreReference` | `RootIsReference` |
| `PathsProveTheirLeaves` | `PathProvesItsLeaf` |
| `RootsCommitToLeaves` | `RootCommits` |

It assumes nothing but what `MerkleTree` says of a hash: that it is a tagged tuple. The
last theorem is about the lists of at most four leaves, as the property is, and the
lemma behind it (`RootsCommit`) about any two lists. Two thirds of the module say
that a recursive function is what its definition says. A function over all lists is given by
`CHOOSE`, so one has to exist: there are solutions up to every length
(`RootsUpto`, `PathsUpto`, `FoldUpto`, `LevelsUpto`), two of them agree on the lists
both have (`RootsAgree` and so on), and together they make the whole one. What is
left are the equations of the code, `RootCalls` and `PathCalls`. Every
induction takes the least number for which a claim fails. Top down is bottom up because
the node `i` of level `k` is the root of the `i`-th block of 2^k leaves (`Level`): two
neighbours have a block above them that is split exactly between them
(`BlocksPair`, from `SplitIsUnique`), and a last node without a neighbour has the same
leaves as the node above it (`BlockAlone`).

`EvaluationProofs` is about any number of publishers, runs and kills, any set of
manifests and any list of files, under `EvaluationAssumption` (the manifests are
valid, the files are distinct and there is one, the bounds are numbers):

| Theorem | States |
|---|---|
| `TypeCorrect` | `TypeOK` |
| `NothingMissing` | `WholeUnlessInterrupted` |
| `CollisionsExplained` | `CollisionExplained` |
| `MixesAgree` | `MixAgrees` |
| `RanksAreClean` | `RankMeansClean` |
| `ReceiptsAreSigned` | `ReceiptMeansSigned` |
| `CompiledPlansCanPass` | `CompiledPlanCanPass` |

The invariant of the first three is `Interrupted`: `TypeOK`, `Progress` (every file
before the one a publisher is at is there) and `WholeUnlessInterrupted`. Without
`Progress` nothing would say why a bundle whose last file is written has the
others. A collision is then a file that is cut short, and `WholeUnlessInterrupted`
names who cut it. `MixesAgree` needs no invariant but that the store holds
bundles: it follows the digests through `ValidBundle`, from the graph to
authority, plan, evidence and verdict, and from there to the other artifacts.

The last three are about bundles that are built of any four parts. They use
`InputsAssumption` (a manifest lists finitely much, two inputs differ in manifest or
specification) and `HappeningsAssumption` (which fields tell what happened in a run). Their
invariant `Stocked` adds to `TypeOK` that every run was compiled and that no two
runs leave the same evidence (`Ran`), that what is on disk was accepted by the
builder (`Accepted`) and that an exit status is what the scorecard says (`Judged`).
`ReceiptsAreSigned` needs it to tell two bundles apart: equal digests lead to one plan
and one evidence, and `Ran` from there to one run.
Compiled plans need no history: `CompiledPlansCanPass` follows a manifest that
`Compiles` through its best run on its runtime (`IdealRuns`, `IdealAsserts`), verifier by
verifier.

Its exceptions are what `compile` does not look at. A verifier may ask for an assertion that
neither the runtime nor the adapter makes, or for output the gate takes for a secret
(`Unmet`). A browser plan on OpenShell compiles, but its evidence does not say where the
workspace is (`openshell.py:229`), so that the adapter finds no artifacts
(`browser_adapter.py:312`); and the fake runtime never runs the command whose receipt an
adapter wants (`Hopeless`). A branch that `compile` does not know for one, and a browser
contract that lacks a kind of artifact, are the other two. The run has an input of each kind.
Proving the theorem also corrected the model: `ValidManifest` did not say that a browser contract
comes with the browser adapter only.

`GatewayProofs` is about any number of threads, requests, providers and days, any
routes, quotas and budgets, and any number of midnights, faults and crashes:

| Theorem | States |
|---|---|
| `TypeCorrect` | `TypeOK` |
| `CallsInOrder` | `NoSilentSubstitution` |
| `CallsRecordedOnce` | `RecordedOnce` |
| `AnsweredRecorded` | `AnsweredIsRecorded` |
| `OvershootIsBounded` | `OvershootBounded` |

The assumptions beyond the bounds: sets are finite (`FiniteAssumption`), there is a
token count (`PolicyAssumption`), and a line that does not parse is no record
(`LinesAssumption`). The invariants, each on top of `Typed` (`TypeOK` and what a
thread's locals are at each `pc`):

* `Ordered`: what a thread has still to try are candidates of the request it handles,
  and every other candidate has failed;
* `Sound`: what a thread *owes*, a candidate it has still to try or a receipt it has
  still to persist, is eligible and not in the ledger, and its receipts are of its own
  request, about calls that were made, and of different providers;
* `AccountedFor`: without a fault, a call that was made is in the ledger or owed, or its
  response was malformed and dropped;
* `BudgetInv`: the records of a day and what is owed on it are less than the
  limit and all that threads can owe (threads times eligible providers), and so
  are the tokens, each record counted as the largest. `OvershootBounded` is not
  inductive because it does not see what is in flight, and that is exactly what
  overshoots the budget: it is admitted before it is charged. What is owed is charged to
  the present day, and so moves at midnight.

Sums over threads and records are those of `MapThenSumSet`; `FiniteSums` proves
what is needed of it. The prover cannot instantiate the library's induction
theorems, but it can use the well-foundedness of the naturals: a claim about every
subset of a finite set is proved by taking a minimal one for which it fails
(`LeastNatural`, `MinimalSubset`).

`CodingProofs` is about any plans, any tests and paths, any descendants and any
number of writes:

| Theorem | States |
|---|---|
| `TypeCorrect` | `TypeOK` |
| `PassesAreFinal` | `PassIsFinal` |
| `TerminationIsReal` | `TerminatedMeansDead`, an action property |

`IInv` is `TypeOK` with `StepInv` (a step that comes has no result yet, and the one
that is supervised no surviving processes), `GroupInv` (the leader is reaped with its
exit code, the group is gone when it is said to be, and a runner that has returned from
a step has left none), `QuietInv` (while every step is said to be terminated
and no process has left its group, what a snapshot has read is what
the workspace holds) and `OutcomeInv` (the outcome comes after the last step, and a
pass has met the policy). `PassIsFinal` speaks of the workspace at the end; only `QuietInv`
says why nobody changes it while the snapshots are read file by file.

`HarnessProofs` is about any number of workers, run ids, attempts, faults, crashes
and requests, on both runtimes and with every store:

| Theorem | States |
|---|---|
| `TypeCorrect` | `TypeOK` |
| `VerdictsHaveEvidence` | `VerdictHasEvidence`: a verdict finds its evidence (`CitedIsFound`), and evidence its verdict (`CollectedIsStored`) |
| `SandboxesAreSeparate` | `SandboxOfItsOwn` |
| `LeftoversAreExplained` | `LeftoversExplained` |
| `ColdSandboxesAreOwn` | `ColdMeansOwn`, an action property |
| `DenialsAreCollected` | `DeniedIsCollected`, an action property |

Beyond the bounds it is assumed that there is a run id (`RunIdsAssumption`).
The proof is one of a chain of invariants, each on top of those before it:

* `TypeInv`: `TypeOK`, a worker that has been called has an attempt, and requests on
  their way are of attempts that were made;
* `Numbered`: no two calls have the same attempt number, by which everything else is
  told to be one's own;
* `Stored`: evidence is cut short only while somebody writes it or after an accident, and
  nobody comes to a verdict, or has one, on evidence that was never opened;
* `Returned`: a worker that has collected nothing has no evidence, and one that has returned
  with evidence has found or left it and its verdict in the stores, or there is a reason
  (`Settled`), which stays true because no file is ever removed (`Grown`);
* `Separate`: on OpenShell, from the creation of a sandbox to its deletion it is its
  worker's own, nobody else's command has run in it (`Private`), and the evidence is
  about that command;
* `Possessed`: a sandbox, a container or telemetry that is there is of a worker that
  will still destroy it, or of one with a known reason to have left it;
* `OnCloud`: on Cloudflare, commands and events are of earlier attempts for that
  run id (`Traced`); workers that are in a sandbox together are `shared`
  (`Sharing`); what is left after a deletion, events and lists
  that were read before it included, has its reason (`Remaining`); a cold start
  that is not shared finds its own commands and events only (`Alone`); and a refusal its
  command was told of is in telemetry and in every list that is about to replace it,
  unless telemetry is full (`Noted`). The last is what the two halves of
  `Telemetry.fetch` could break;
* `Quiet`: on OpenShell there are no commands in containers and no events.

The actions of the two runtimes are many and mostly touch what another invariant is
about. `Moves` is what the kernel sees of any of them, `Progress` what a step
does to a worker's own position; each action is shown once to be one of those, and
`Numbered`, `Stored` and parts of the rest are proved of these summaries instead of
action by action.

Trying to prove `TypeOK` of the harness found a mistake in the model: a conjunct of
`CloudflareTypeOK` was out of line and parsed as `(A /\ B) => C`, so that
TLC had checked less than what was written. It now states what was meant, with
the type of the lists of events, and holds.

`BrowserProofs` is about any contracts and any number of runners, callbacks, kills
and edits:

| Theorem | States |
|---|---|
| `TypeCorrect` | `TypeOK` |
| `PassesHideNothing` | `PassHidesNothing` |
| `DenialsAreNoticed` | `DeniedIsNoticed` |
| `ArtifactsAreOfOneRun` | `ArtifactsOfOneRun` |
| `DiskIsBounded` | `DiskBounded` |
| `AcceptanceIsOfTheWritten` | `AcceptedAsWritten`, an action property |

Assumed are a valid contract (`ContractsAssumption`) whose limits are numbers and whose
actions are a list (`FieldsAssumption`). The invariants:

* `Typed`: `TypeOK` and where a runner is (`Placed`): only a runner that has not failed is
  at an action, whoever is past the last one has done all, and an open window is that of the
  click the runner is at; what is being saved is of its plan (`Saving`);
* `Recorded`: everything the history knows of, foreign requests, undeclared effects,
  dropped records, is a violation or an overflow in `_ExecutionState`. `Grows` is what
  every method of `_ExecutionState` has in common: nothing that speaks against a pass is
  forgotten; each step of a runner is shown once to be of that kind (`Notes`);
* `Reported`: a receipt is about the state its runner has ended in, and evidence is
  about the receipt;
* `Rooted`: whoever works on its plan has made the root, and so there is one such runner;
* `Housed`: its files are the registered ones, and one more only while that one is being
  registered, after it has failed or after it was killed (`Loose`). A step saves one file at
  most, and what does not fit ends the plan;
* `Pictured`: whoever has come to the end of its plan has taken the last picture, if the
  contract asks for one, so that `AcceptedAsWritten` can promise it.

Only model-checked: `LocksReleased` and the two `RunnerEnds`, which are liveness under
fairness and out of the prover's reach.

## 6. What is not modelled

* Formats: JSON, YAML, argv, globs, command templates, digests of
  configurations, encodings and files of keys. A conversion counts by the branch
  it takes.
* The limit of captured output and the parsing of events in the coding runner: both make
  a step fail, as a non-zero exit does. The branch for systems other than POSIX.
* `max_daily_cost_usd`: `price_usd` is 0 on every path.
* A reader of the ledger that sees a part of a line that is being written.
* Opening state files (`O_NOFOLLOW`, regular files): an error of open is an
  error before the call has changed anything.
* Browser: page errors, which only lengthen the receipt; requests that a redirect
  makes without the route handler; the order of the receipt and other output on
  stdout. `final_url` and the title are read before the DOM is captured, and a page may
  navigate in between: the receipt makes no claim that relates them. Of the four
  limits of a harness contract, which are checked alike, one is kept.
* Run artifacts: edges of the graph, which only join nodes that are there, the
  tier, and the replay class `exact`, which no runtime of the code reaches.
* Cloudflare: requests that reach the Worker after the client has gone on, hosts
  that the platform refuses (they leave no event), `outboundByHost`.
* The one-shot stdin runner (no caller shares a controller between threads),
  ingestion, scoring and reports (arithmetic of floating point), and the rest of
  what `PROJECT.json` lists as `not_modelled`, with the reason there.

## 7. Plan

Done: the modules of section 2; proofs of the log, its refinement, the store of
bundles, the broker, the coding runner, the harness on both runtimes, the browser
runner, of the log after an edit, and of the Merkle functions. Every safety and
action property of the runs is a theorem.

Next, proofs: the refinement below, step by step, and the theorems about the
log with `Root` and `Path` for its operator constants.

Next, models: an abstract `HarnessPromise` (a run ends with a verdict about its own
command or with none, and its sandbox is gone or accounted for) that `HarnessRun`
implements on both runtimes; `StdinRunner` (`arm`, `run` and `clear` of threads
that share a controller); `Ingestion` (a destination that is used again);
`Scoring` (thresholds of confidence and the gate).

## 8. Running

    tlc -workers 2 -config MCTransparencyLog.cfg MCTransparencyLog
    tlapm TransparencyLogProofs.tla
    tlapm MerkleProofs.tla
    tlapm EvaluationProofs.tla
    tlapm FiniteSums.tla
    tlapm GatewayProofs.tla
    tlapm CodingProofs.tla
    tlapm HarnessProofs.tla
    tlapm BrowserProofs.tla

The other runs take the module and configuration `PROJECT.json` names.
