------------------------------- MODULE Evaluation -------------------------------
(***************************************************************************)
(* From a run to an attested bundle: runs are executed and judged          *)
(* (HarnessKernel.run and verify), processes of                        *)
(* skill-native-run-artifacts build a bundle out of four files they are    *)
(* given and persist it file by file in a common store                     *)
(* (run_artifacts.py, RunArtifactStore), any of them may be killed, and    *)
(* what a reader finds in the store can be signed and verified.            *)
(*                                                                         *)
(* The builder is handed its files one by one: the plan, the evidence and  *)
(* the verdict need not be of the same run.                                *)
(***************************************************************************)
EXTENDS RunArtifacts

CONSTANTS
  Publishers,   \* processes of skill-native-run-artifacts build
  Inputs,       \* function from names to records [manifest, spec, runtime]
  Happenings,   \* function from names to what may happen in a run
  Authorities,  \* records [id, manifest]
  Keys, Identities, Policies,   \* of those who sign and verify
  Files,        \* the files of a bundle in the order of persist; the last is the bundle
  Tried,        \* bound: the pairs of an input and a happening that are tried
  MaxRuns,      \* bound: how often execute is called
  MaxKills      \* bound: how many publishers are killed

ASSUME EvaluationAssumption ==
  /\ \A input \in DOMAIN Inputs : /\ ValidManifest(Inputs[input].manifest)
                                   /\ Inputs[input].runtime \in Runtimes
  /\ Files \in Seq(STRING) /\ Files # <<>> /\ IsInjective(Files)
  /\ MaxRuns \in Nat /\ MaxKills \in Nat

\* A manifest lists finitely much, and an input is what its fields say.
ASSUME InputsAssumption ==
  /\ \A input \in DOMAIN Inputs : LET manifest == Inputs[input].manifest IN
       IsFiniteSet(manifest.required) /\ IsFiniteSet(manifest.verifiers)
  /\ \A i, j \in DOMAIN Inputs :
       /\ Inputs[i].manifest = Inputs[j].manifest /\ Inputs[i].spec = Inputs[j].spec
       /\ Inputs[i].runtime = Inputs[j].runtime
       => i = j

\* What may happen in a run, as Evidence looks at it.
ASSUME HappeningsAssumption ==
  \A happening \in DOMAIN Happenings :
    LET events == Happenings[happening] IN
    /\ DOMAIN events = {"exit_code", "text", "network", "trace", "changed", "findings",
                        "receipt", "artifacts", "calls", "snapshot"}
    /\ events.receipt \in BOOLEAN /\ events.artifacts \in BOOLEAN /\ events.calls \in BOOLEAN

VARIABLES
  executed,   \* the runs: set of records [input, happening, calls]
  pc,         \* of a publisher
  product,    \* of a publisher: the [authority, input, evidence, verdict] of its bundle
  file,       \* of a publisher: the index of the file it is at
  disk        \* directory -> file -> "absent", "partial" or "complete"

vars == <<executed, pc, product, file, disk>>

-----------------------------------------------------------------------------
(* What a run leaves behind                                                *)

PlanOf(input) == Plan(Inputs[input].manifest, Inputs[input].spec, Inputs[input].runtime)

EvidenceOf(run) ==
  Evidence(PlanOf(run.input), Inputs[run.input].runtime,
           [Happenings[run.happening] EXCEPT !.calls = run.calls])

VerdictOf(run) == Verify(PlanOf(run.input), EvidenceOf(run))

BundleOf(p) == Bundle(p.authority, PlanOf(p.input), EvidenceOf(p.evidence), VerdictOf(p.verdict))

\* HarnessKernel.run, at the end of which the ledger's receipts are attached by the
\* run id alone: those of an earlier attempt are among them.  Evidence has times
\* in it, so that no two runs leave the same.
Execute(input, happening) ==
  LET run == [input |-> input, happening |-> happening,
              calls |-> \/ Happenings[happening].calls
                        \/ \E r \in executed : /\ r.calls
                                               /\ PlanOf(r.input).run_id = PlanOf(input).run_id]
  IN /\ Cardinality(executed) < MaxRuns /\ <<input, happening>> \in Tried
     /\ Compiles(Inputs[input].manifest, Inputs[input].spec, Inputs[input].runtime)
     /\ CanHappen(Inputs[input].runtime, Happenings[happening])
     /\ \A r \in executed : EvidenceOf(r) # EvidenceOf(run)
     /\ executed' = executed \cup {run}
     /\ UNCHANGED <<pc, product, file, disk>>

-----------------------------------------------------------------------------
(* skill-native-run-artifacts build                                        *)

\* RunArtifactBuilder.build, then mkdir(exist_ok): a build that is refused leaves
\* nothing behind.  Equal bundles have one directory.
Build(w, p) ==
  /\ pc[w] = "start"
  /\ Builds(p.authority, PlanOf(p.input), EvidenceOf(p.evidence), VerdictOf(p.verdict))
  /\ pc' = [pc EXCEPT ![w] = "check"]
  /\ product' = [product EXCEPT ![w] = p]
  /\ file' = [file EXCEPT ![w] = 1]
  /\ disk' = IF p \in DOMAIN disk THEN disk
             ELSE [d \in DOMAIN disk \cup {p} |->
                     IF d = p THEN [f \in Range(Files) |-> "absent"] ELSE disk[d]]
  /\ UNCHANGED executed

Content(w) == disk[product[w]][Files[file[w]]]

\* Mutant: a file that is there is taken for a collision.
CollidesIfThere(content) == content # "absent"

\* A file of this directory that is not what would be written is one that has
\* not been written to its end.
Collides(content) == content = "partial"

\* path.exists() and read_text()
CheckFile(w) ==
  /\ pc[w] = "check"
  /\ pc' = [pc EXCEPT ![w] = IF Collides(Content(w)) THEN "collided" ELSE "open"]
  /\ UNCHANGED <<executed, product, file, disk>>

\* write_text truncates a file, also one that holds the same text,
OpenFile(w) ==
  /\ pc[w] = "open"
  /\ pc' = [pc EXCEPT ![w] = "write"]
  /\ disk' = [disk EXCEPT ![product[w]][Files[file[w]]] = "partial"]
  /\ UNCHANGED <<executed, product, file>>

\* Mutant: one file more than there are.
IsLastOffByOne(f) == f > Len(Files)

\* Mutant: the bundle is left out.
IsLastButOne(f) == f + 1 >= Len(Files)

IsLast(f) == f = Len(Files)

\* ... and the exit status says whether the run may be ranked.
WriteFile(w) ==
  /\ pc[w] = "write"
  /\ disk' = [disk EXCEPT ![product[w]][Files[file[w]]] = "complete"]
  /\ IF IsLast(file[w])
     THEN /\ pc' = [pc EXCEPT ![w] = IF Eligible(BundleOf(product[w]).scorecard)
                                     THEN "ranked" ELSE "diagnostic"]
          /\ UNCHANGED file
     ELSE /\ pc' = [pc EXCEPT ![w] = "check"]
          /\ file' = [file EXCEPT ![w] = @ + 1]
  /\ UNCHANGED <<executed, product>>

Killed == {w \in Publishers : pc[w] \in {"killed", "torn"}}

\* A publisher that is killed while it writes leaves the front of the file.
Kill(w) ==
  /\ pc[w] \in {"check", "open", "write"}
  /\ Cardinality(Killed) < MaxKills
  /\ pc' = [pc EXCEPT ![w] = IF @ = "write" THEN "torn" ELSE "killed"]
  /\ UNCHANGED <<executed, product, file, disk>>

-----------------------------------------------------------------------------

Products == [authority : Authorities, input : {r.input : r \in executed},
             evidence : executed, verdict : executed]

Init ==
  /\ executed = {}
  /\ pc = [w \in Publishers |-> "start"]
  /\ product = [w \in Publishers |-> None]
  /\ file = [w \in Publishers |-> 0]
  /\ disk = << >>

Next ==
  \/ \E input \in DOMAIN Inputs, happening \in DOMAIN Happenings : Execute(input, happening)
  \/ \E w \in Publishers : \/ \E p \in Products : Build(w, p)
                           \/ CheckFile(w)
                           \/ OpenFile(w)
                           \/ WriteFile(w)
                           \/ Kill(w)

Spec == Init /\ [][Next]_vars

-----------------------------------------------------------------------------
(* Properties                                                              *)

Finished == {w \in Publishers : pc[w] \in {"ranked", "diagnostic"}}

Readable == {p \in DOMAIN disk : disk[p][Files[Len(Files)]] = "complete"}

\* The variables have their types; a publisher at work has a bundle, a file of it
\* and the directory that RunArtifactStore.persist made.
TypeOK ==
  /\ \A run \in executed : /\ run.input \in DOMAIN Inputs /\ run.happening \in DOMAIN Happenings
                           /\ run.calls \in BOOLEAN
  /\ pc \in [Publishers -> {"start", "check", "open", "write", "ranked", "diagnostic",
                            "collided", "killed", "torn"}]
  /\ DOMAIN product = Publishers /\ DOMAIN file = Publishers
  /\ \A w \in Publishers : IF pc[w] = "start" THEN product[w] = None /\ file[w] = 0
                           ELSE product[w] \in DOMAIN disk /\ file[w] \in DOMAIN Files
  /\ DOMAIN disk \subseteq Products
  /\ \A p \in DOMAIN disk : disk[p] \in [Range(Files) -> {"absent", "partial", "complete"}]

\* The events of a run that nobody may rank: what happened, and not what the
\* evidence makes of it.  The browser adapter's receipt hides what the runtime saw
\* of the network, receipts of an earlier attempt count as inference, and files of
\* the browser that nobody can find count as spoiled.
Blemished(run) ==
  LET events == Happenings[run.happening]
      manifest == Inputs[run.input].manifest
      trusted == HasReceipt(manifest.adapter)
      network == IF manifest.adapter = "browser.playwright.v1" THEN events.trace ELSE events.network
  IN \/ "denied" \in Range(network)
     \/ events.changed \cap ControlMarkers # {} \/ events.text \cap SecretMarkers # {}
     \/ \E i \in DOMAIN events.findings : events.findings[i].severity \in Severe
     \/ trusted /\ (events.exit_code # 0 \/ ~events.receipt)
     \/ manifest.artifacts # {} /\ (~events.artifacts \/ ~TellsWorkspace(Inputs[run.input].runtime))
     \/ "inference" \in manifest.required /\ ~run.calls

\* Exit status 0 of skill-native-run-artifacts build, whatever files it was given,
\* means that the run whose evidence is in the bundle was clean, that its plan is
\* the one in the bundle, and that a bundle that ends with status 2 and the same
\* replay class has a lower diagnostic score (run_artifact_builder.py,
\* run_artifact_derived.py).
RankMeansClean ==
  \A w \in Publishers : pc[w] = "ranked" =>
    /\ ~Blemished(product[w].evidence)
    /\ product[w].input = product[w].evidence.input
    /\ product[w].verdict = product[w].evidence
    /\ \A v \in Publishers :
         LET mine == BundleOf(product[w]).scorecard
             other == BundleOf(product[v]).scorecard
         IN pc[v] = "diagnostic" /\ other.replay_class = mine.replay_class
              => other.diagnostic_score < mine.diagnostic_score

\* The bundle put together from parts of two, with every digest recomputed.
Recombination(two, parts) ==
  [authority |-> two[parts[1]].authority, graph |-> two[parts[2]].graph,
   replay |-> two[parts[3]].replay, trace |-> two[parts[4]].trace,
   scorecard |-> two[parts[5]].scorecard,
   run_id |-> two[parts[1]].run_id, plan |-> two[parts[5]].plan,
   evidence |-> two[parts[5]].evidence, verdict |-> two[parts[5]].verdict]

\* Parts of two bundles of the store pass validate_cross_artifact_continuity
\* together only if they say what one of the two says.  The exception is the
\* replay manifest's snapshot digest, which is bound to no evidence
\* (run_artifact_bundle.py:14).
MixAgrees ==
  \A p, q \in Readable : p # q =>
    LET two == <<BundleOf(p), BundleOf(q)>>
        loose(bundle) == [bundle EXCEPT !.replay.snapshot_digest = None]
    IN \A parts \in [1..5 -> 1..2] :
         LET mix == Recombination(two, parts)
         IN ValidBundle(mix) => \E i \in 1..2 : loose(mix) = loose(two[i])

\* A publisher that has reported its bundle has written every file of it, and no
\* reader who finds the bundle file misses another one.  A file is cut short only
\* while a publisher of the same bundle rewrites it or after one was killed in the
\* middle (RunArtifactStore.persist).
WholeUnlessInterrupted ==
  /\ \A w \in Finished : \A f \in Range(Files) : disk[product[w]][f] # "absent"
  /\ \A p \in Readable : \A f \in Range(Files) : disk[p][f] # "absent"
  /\ \A p \in DOMAIN disk, f \in Range(Files) : disk[p][f] = "partial" =>
       \E w \in Publishers : /\ pc[w] \in {"write", "torn"}
                             /\ product[w] = p /\ Files[file[w]] = f

\* "content-addressed artifact collision" is never the fault of the contents: a
\* repeated build of a bundle succeeds unless another publisher is in the middle of
\* the same file or was killed there (RunArtifactStore.persist).
CollisionExplained ==
  [][\A w \in Publishers : pc'[w] = "collided" /\ pc[w] # "collided" =>
       \E v \in Publishers \ {w} : /\ pc[v] \in {"write", "torn"}
                                   /\ product[v] = product[w] /\ file[v] = file[w]]_vars

\* An envelope that verify_attestation accepts for a bundle was signed, with a key
\* the policy allows, for this bundle and for an identity the policy expects; if the
\* policy asks for rank eligibility the run was clean.
ReceiptMeansSigned ==
  \A p, q \in Readable :
    LET signed == BundleOf(p)
        shown == BundleOf(q)
    IN \A key, signer \in Keys, identity \in Identities, policy \in Policies :
         Verifies(shown, Envelope(signed, identity, signer), key, policy) =>
           /\ p = q /\ key = signer /\ signer \in policy.allowed_key_ids
           /\ \A field \in DOMAIN policy.expected : policy.expected[field] \in {None, identity[field]}
           /\ policy.require_rank_eligible => ~Blemished(p.evidence)

\* The best that can happen in a run of this input.
Ideal(input) ==
  [exit_code |-> 0,
   text |-> IF input.runtime = "fake" THEN FakeText
            ELSE {verifier.of : verifier \in {v \in input.manifest.verifiers : v.kind = "stdout_contains"}},
   network |-> <<>>, trace |-> <<>>, changed |-> {}, findings |-> <<>>,
   receipt |-> input.runtime # "fake", artifacts |-> TRUE, calls |-> TRUE, snapshot |-> None]

\* A verifier that asks for an assertion that neither this runtime nor the adapter
\* makes, for output that the gate takes for a secret, or for output that the fake
\* runtime does not print.
Unmet(verifier, input) ==
  \/ /\ verifier.kind = "assertion_true"
     /\ verifier.of \notin RuntimeAssertions(input.runtime) \cup AdapterAssertions(input.manifest.adapter)
  \/ /\ verifier.kind = "stdout_contains"
     /\ \/ verifier.of \in SecretMarkers
        \/ input.runtime = "fake" /\ verifier.of \notin FakeText

\* A runtime on which the adapter never accepts a receipt, because the command is
\* not run (runtime.py:115), or never the browser's files, because it is not told
\* where they are (browser_adapter.py:312, openshell.py:229).
Hopeless(input) ==
  \/ HasReceipt(input.manifest.adapter) /\ input.runtime = "fake"
  \/ input.manifest.adapter = "browser.playwright.v1" /\ ~TellsWorkspace(input.runtime)

\* What compile accepts can also be collected and ranked, but for an adapter that is
\* lost on the runtime, as the browser's is on OpenShell, for a browser contract that
\* makes its runner produce no download, say, which every browser manifest must
\* require, for a branch name that is none of those compile knows, and for verifiers
\* whose arguments compile does not look at (harness_kernel_impl.py:60,
\* browser_adapter.py:232, harness_contract.py:209).
CompiledPlanCanPass ==
  \A run \in executed :
    LET input == Inputs[run.input]
        plan == PlanOf(run.input)
        evidence == Evidence(plan, input.runtime, Ideal(input))
        verdict == Verify(plan, evidence)
        authority == [id |-> "any", manifest |-> input.manifest]
    IN \/ /\ CanHappen(input.runtime, Ideal(input))
          /\ Builds(authority, plan, evidence, verdict)
          /\ Eligible(Scorecard(authority, plan, evidence, verdict))
       \/ Hopeless(input)
       \/ ~Immutable(input.spec.ref)
       \/ ~(input.manifest.required \cap BrowserArtifacts \subseteq input.manifest.artifacts)
       \/ \E verifier \in input.manifest.verifiers : Unmet(verifier, input)

\* "failed security runs may retain an explicit `unresolved_evidence_reference`
\* node so diagnostic artifacts are not lost, but they remain non-rank-eligible"
\* (docs/RUN_ARTIFACTS.md:167): a run that fails the gate can be built, given the
\* authority of its manifest and an immutable reference.
DiagnosticsKept ==
  \A run \in executed :
    LET plan == PlanOf(run.input)
        authority == [id |-> "any", manifest |-> plan.manifest]
    IN VerdictOf(run).security_gate = "fail" /\ Immutable(plan.run_spec.ref)
         => Builds(authority, plan, EvidenceOf(run), VerdictOf(run))
=============================================================================
