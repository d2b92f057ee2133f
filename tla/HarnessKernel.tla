------------------------------ MODULE HarnessKernel ------------------------------
(***************************************************************************)
(* What HarnessKernel compiles and decides (harness_kernel_impl.py), as    *)
(* operators: the contract of a manifest (harness_contract.py), the        *)
(* evidence that a runtime (runtime.py), a domain adapter                  *)
(* (harness_adapters.py, browser_adapter.py) and the ledger contribute to  *)
(* a run, the security gate (security.py) and the verdict.  HarnessRun has *)
(* the processes that call them.  A digest is what it is a digest of.      *)
(***************************************************************************)
EXTENDS Naturals, Sequences

CONSTANT None   \* Python's None

-----------------------------------------------------------------------------
(* Profiles                                                                *)

\* The RuntimeAdapters; "enroot" has none.  The fake runtime runs nothing, the
\* fixture runs the command on this host, for the browser's tests.
Runtimes == {"fake", "fixture", "openshell", "cloudflare"}

Backend(runtime) == IF runtime = "fixture" THEN "fake" ELSE runtime

\* RuntimeAdapter.capabilities
Capabilities(runtime) ==
  (IF runtime = "cloudflare" THEN {} ELSE {"stdin_stream"})
    \cup (IF runtime = "fixture" THEN {}
          ELSE {"network_deny_by_default", "filesystem_policy", "brokered_secrets"})
    \cup (IF Backend(runtime) = "fake" THEN {}
          ELSE {"kernel_or_vm_isolation", "l7_http_policy", "network_telemetry", "persistent_filesystem"})
    \cup (IF runtime = "openshell" THEN {"process_telemetry", "gpu"} ELSE {})

\* RuntimeAdapter.evidence_kinds
RuntimeEvidence(backend) ==
  {"exit_code", "stdout", "stderr", "commands", "assertions", "runtime_metadata"}
    \cup (IF backend = "fake" THEN {} ELSE {"network", "filesystem_before", "filesystem_after"})
    \cup (IF backend = "openshell" THEN {"processes", "findings", "policy", "ocsf_events"} ELSE {})

\* The assertions collect makes.
RuntimeAssertions(runtime) ==
  {"runtime_completed"}
    \cup (CASE runtime = "openshell" ->
                {"effective_policy_captured", "ocsf_captured", "filesystem_manifest_captured",
                 "runtime_attested", "credential_non_exposure"}
            [] runtime = "cloudflare" -> {"network_evidence_captured", "credential_non_exposure"}
            [] Backend(runtime) = "fake" -> {})

\* runtime_metadata["workspace_root"], where _validate_artifacts looks for the
\* browser's files.
TellsWorkspace(runtime) == runtime = "fixture"

\* DomainAdapterRegistry.defaults
Adapters == {"coding.command.v1", "coding.agent.v1", "browser.playwright.v1"}

BrowserArtifacts == {"dom_snapshot", "accessibility_snapshot", "screenshots", "downloads"}

\* What is marked as captured once the adapter has accepted the receipt.
ReceiptEvidence(adapter) ==
  CASE adapter = "coding.command.v1" -> {}
    [] adapter = "coding.agent.v1" ->
         {"coding_receipt", "agent_events", "workspace_diff", "test_results"}
    [] adapter = "browser.playwright.v1" ->
         {"network", "browser_receipt", "browser_events", "network_trace", "browser_assertions"}

\* evidence_kinds: what a manifest may ask for.
AdapterEvidence(adapter) ==
  ReceiptEvidence(adapter)
    \cup (IF adapter = "browser.playwright.v1" THEN BrowserArtifacts ELSE {})

HasReceipt(adapter) == adapter # "coding.command.v1"

\* The assertions verify_evidence looks at.
DomainAssertions(adapter) ==
  CASE adapter = "coding.command.v1" -> {}
    [] adapter = "coding.agent.v1" ->
         {"coding_receipt_valid", "coding_outcome_pass", "coding_policy_pass",
          "coding_wrapper_exit_consistent"}
    [] adapter = "browser.playwright.v1" ->
         {"browser_receipt_valid", "browser_outcome_pass", "browser_policy_pass",
          "browser_artifacts_valid", "browser_wrapper_exit_consistent"}

\* The assertions the adapter makes of a receipt it has accepted.
AdapterAssertions(adapter) ==
  DomainAssertions(adapter)
    \cup (CASE adapter = "coding.command.v1" -> {}
            [] adapter = "coding.agent.v1" ->
                 {"coding_tests_passed", "coding_changes_allowed", "coding_driver_verified"}
            [] adapter = "browser.playwright.v1" ->
                 {"browser_driver_verified", "browser_assertions_passed"})

\* Those that are about what the command has achieved.
OutcomeAssertions ==
  {"coding_outcome_pass", "coding_tests_passed", "browser_outcome_pass", "browser_assertions_passed"}

-----------------------------------------------------------------------------
(* Manifests and plans                                                     *)

\* VerifierSpec
VerifierKinds ==
  {"exit_code_zero", "assertion_true", "stdout_contains", "stderr_empty", "evidence_present"}

\* _verifier_evidence
Dependency(verifier) ==
  CASE verifier.kind = "exit_code_zero" -> "exit_code"
    [] verifier.kind = "assertion_true" -> "assertions"
    [] verifier.kind = "stdout_contains" -> "stdout"
    [] verifier.kind = "stderr_empty" -> "stderr"
    [] verifier.kind = "evidence_present" -> verifier.of

\* _CODING_AGENT_EVIDENCE and _BROWSER_EVIDENCE
Mandatory(adapter) ==
  IF HasReceipt(adapter)
  THEN AdapterEvidence(adapter)
         \cup {"exit_code", "stdout", "stderr", "commands", "assertions", "runtime_metadata"}
  ELSE {}

\* HarnessManifest.validate_cross_field_contract and EvidenceContract
ValidManifest(manifest) ==
  /\ manifest.adapter \in Adapters
  /\ manifest.verifiers # {} /\ manifest.required # {}
  /\ manifest.required \subseteq manifest.capture
  /\ Mandatory(manifest.adapter) \subseteq manifest.required
  /\ \A verifier \in manifest.verifiers : /\ verifier.kind \in VerifierKinds
                                           /\ Dependency(verifier) \in manifest.required
  /\ manifest.adapter # "browser.playwright.v1" => manifest.artifacts = {}
  /\ manifest.artifacts \subseteq BrowserArtifacts

\* "main", "latest" and the like are refused by name; another branch is not.
MutableRefs == {"main"}

\* Mutant: what the manifest asks for is not compared with what is collected.
CompilesAnyEvidence(manifest, spec, runtime) ==
  /\ spec.backend = Backend(runtime) /\ spec.backend \in manifest.runtimes
  /\ spec.provenance_digest # None /\ spec.ref \notin MutableRefs
  /\ spec.filesystem = manifest.filesystem /\ spec.limit <= manifest.budget
  /\ HasReceipt(manifest.adapter) => "stdin_stream" \in Capabilities(runtime)

\* HarnessKernel.run up to the plan: compile, with the capabilities and the
\* evidence of this runtime, and _validate_limits.  network and secrets have one
\* legal value.
Compiles(manifest, spec, runtime) ==
  /\ spec.backend = Backend(runtime)
  /\ spec.backend \in manifest.runtimes
  /\ spec.provenance_digest # None
  /\ spec.ref \notin MutableRefs
  /\ manifest.capabilities \subseteq Capabilities(runtime)
  /\ manifest.snapshot_required => "snapshot_restore" \in Capabilities(runtime)
  /\ manifest.capture \subseteq RuntimeEvidence(spec.backend)
       \cup {"inference"} \cup AdapterEvidence(manifest.adapter)
  /\ spec.filesystem = manifest.filesystem
  /\ spec.limit <= manifest.budget
  /\ HasReceipt(manifest.adapter) => "stdin_stream" \in Capabilities(runtime)

\* HarnessPlan; the command and its input follow from the run spec.
Plan(manifest, spec, runtime) ==
  [run_id |-> spec.run_id, manifest |-> manifest, run_spec |-> spec,
   provenance_digest |-> spec.provenance_digest, adapter |-> manifest.adapter,
   runtime_backend |-> spec.backend, runtime_capabilities |-> Capabilities(runtime),
   command |-> <<manifest.adapter, spec.run_id>>,
   stdin_digest |-> IF HasReceipt(manifest.adapter) THEN <<"stdin", spec.run_id>> ELSE None,
   required_evidence |-> manifest.required]

-----------------------------------------------------------------------------
(* Evidence                                                                *)

\* What the fake runtime prints, instead of what a command would.
FakeText == {"fake runtime execution"}

\* What may happen in a run on this runtime: the fake one runs nothing, and only a
\* sandbox has telemetry of its own.
CanHappen(runtime, events) ==
  /\ runtime = "fake" => events.exit_code = 0 /\ events.text = FakeText /\ ~events.receipt
  /\ Backend(runtime) = "fake" =>
       events.network = <<>> /\ events.changed = {} /\ events.findings = <<>>

\* _validate_artifacts: the browser's files can be found and are in order.
ArtifactsValid(runtime, events) == TellsWorkspace(runtime) /\ events.artifacts

\* mark_evidence_captured, by the runtime, by the adapter if it has accepted
\* the receipt, and by attach_run_receipts if the ledger has any for this run.
Captured(plan, runtime, events) ==
  RuntimeEvidence(plan.runtime_backend)
    \cup (IF HasReceipt(plan.adapter) /\ events.receipt
          THEN ReceiptEvidence(plan.adapter)
                 \cup {kind \in plan.manifest.artifacts : ArtifactsValid(runtime, events)}
          ELSE {})
    \cup {kind \in {"inference"} : events.calls}

\* normalize_evidence of the browser adapter: the requests its receipt lists take
\* the place of the runtime's, each with an evidence id of its own.
Network(plan, events) ==
  IF plan.adapter = "browser.playwright.v1" /\ events.receipt
  THEN [i \in DOMAIN events.trace |-> [action |-> events.trace[i], evidence_id |-> <<"trace", i>>]]
  ELSE [i \in DOMAIN events.network |-> [action |-> events.network[i], evidence_id |-> None]]

\* The assertions of a run: of a receipt that was accepted all are true but those
\* that its outcome, its requests or its files contradict.
Assertions(plan, runtime, events) ==
  RuntimeAssertions(runtime) \cup
    {name \in AdapterAssertions(plan.adapter) :
       /\ events.receipt
       /\ name \in OutcomeAssertions => events.exit_code = 0
       /\ name = "browser_policy_pass" => "denied" \notin {events.trace[i] : i \in DOMAIN events.trace}
       /\ name = "browser_artifacts_valid" => ArtifactsValid(runtime, events)}

\* The EvidenceBundle of a run in which these events happened: network is what
\* the runtime saw requested and trace what the browser runner saw, artifacts
\* says whether the browser's files were in order, text is what stdout holds.
Evidence(plan, runtime, events) ==
  [run_id |-> plan.run_id, provenance_digest |-> plan.provenance_digest,
   runtime_backend |-> plan.runtime_backend,
   commands |-> {[argv |-> plan.command, stdin_digest |-> plan.stdin_digest]},
   exit_code |-> events.exit_code,
   stdout |-> events.text, stderr |-> {},
   network |-> Network(plan, events),
   changed |-> events.changed,
   findings |-> events.findings,
   captured |-> Captured(plan, runtime, events),
   assertions |-> Assertions(plan, runtime, events),
   snapshot_digest |-> events.snapshot]

\* evidence_present: a mark is enough, and so is a value.
EvidencePresent(evidence, kind) ==
  \/ kind \in evidence.captured
  \/ kind = "exit_code" /\ evidence.exit_code # None
  \/ kind = "stdout" /\ evidence.stdout # {}
  \/ kind = "network" /\ evidence.network # <<>>
  \/ kind = "findings" /\ evidence.findings # <<>>
  \/ kind = "filesystem_after" /\ evidence.changed # {}
  \/ kind \in {"commands", "assertions", "runtime_metadata"}

-----------------------------------------------------------------------------
(* security.py                                                             *)

Severe == {"high", "critical"}

SecretMarkers == {"groq_api_key=", "gemini_api_key=", "cloudflare_api_token=", "authorization: bearer"}

ControlMarkers == {"CLAUDE.md", "AGENTS.md", ".codex", ".claude", "settings.json"}

\* _finding: its evidence id is that of evidence_object(kind, value).
Finding(severity, kind, value) ==
  [severity |-> severity, evidence_id |-> <<kind, value>>]

\* The findings the kernel makes itself, and those that came with the evidence,
\* by the place they were found at.
Findings(evidence) ==
  LET places ==
        {<<"findings", i>> : i \in DOMAIN evidence.findings}
          \cup {<<"network", i>> : i \in {j \in DOMAIN evidence.network :
                                            evidence.network[j].action = "denied"}}
          \cup {<<"filesystem_path", path>> : path \in evidence.changed \cap ControlMarkers}
          \cup {<<"output_marker", text>> :
                  text \in (evidence.stdout \cup evidence.stderr) \cap SecretMarkers}
  IN [place \in places |->
        CASE place[1] = "findings" -> evidence.findings[place[2]]
          [] place[1] = "network" -> Finding("high", "network", evidence.network[place[2]])
          [] place[1] = "filesystem_path" -> Finding("critical", "filesystem_path", place[2])
          [] place[1] = "output_marker" -> Finding("critical", "output_marker", place[2])]

\* evaluate_security
Gate(findings) ==
  IF \E place \in DOMAIN findings : findings[place].severity \in Severe THEN "fail" ELSE "pass"

-----------------------------------------------------------------------------
(* harness_verifiers.py and HarnessKernel.verify                           *)

\* evaluate_verifier
Passes(verifier, evidence) ==
  CASE verifier.kind = "exit_code_zero" -> evidence.exit_code = 0
    [] verifier.kind = "assertion_true" -> verifier.of \in evidence.assertions
    [] verifier.kind = "stdout_contains" -> verifier.of \in evidence.stdout
    [] verifier.kind = "stderr_empty" -> EvidencePresent(evidence, "stderr") /\ evidence.stderr = {}
    [] verifier.kind = "evidence_present" -> EvidencePresent(evidence, verifier.of)

Check(id, passed) == [id |-> id, passed |-> passed, evidence_ids |-> {}]

\* The evidence ids that are not empty.
EvidenceIds(findings) ==
  {findings[place].evidence_id : place \in DOMAIN findings} \ {None}

\* Continuity, required evidence, the adapter's checks, the manifest's verifiers
\* and the gate, which cites the evidence of its findings.
Checks(plan, evidence) ==
  LET findings == Findings(evidence) IN
    {Check(<<"provenance-continuity">>, evidence.provenance_digest = plan.provenance_digest),
     Check(<<"runtime-continuity">>, evidence.runtime_backend = plan.runtime_backend),
     Check(<<"command-continuity">>, \E command \in evidence.commands : command.argv = plan.command),
     [id |-> <<"security-gate">>, passed |-> Gate(findings) = "pass", evidence_ids |-> EvidenceIds(findings)]}
    \cup {Check(<<"input-continuity">>,
            \E command \in evidence.commands : command.stdin_digest = digest) :
              digest \in {plan.stdin_digest} \ {None}}
    \cup {Check(<<"evidence", kind>>, EvidencePresent(evidence, kind)) : kind \in plan.required_evidence}
    \cup {Check(<<"domain", name>>, name \in evidence.assertions) : name \in DomainAssertions(plan.adapter)}
    \cup {Check(<<"check", verifier>>, Passes(verifier, evidence)) : verifier \in plan.manifest.verifiers}

FailedIds(checks) == {check.id : check \in {c \in checks : ~c.passed}}

\* HarnessVerdict; verify refuses evidence of another run id.
Verify(plan, evidence) ==
  LET checks == Checks(plan, evidence)
      findings == Findings(evidence)
      failed == FailedIds(checks)
  IN [run_id |-> plan.run_id, manifest |-> plan.manifest,
      provenance_digest |-> plan.provenance_digest, runtime_backend |-> plan.runtime_backend,
      plan |-> plan, evidence |-> evidence,
      status |-> IF failed = {} THEN "pass" ELSE "fail",
      security_gate |-> Gate(findings),
      checks |-> checks, failed_check_ids |-> failed,
      security_findings |-> findings]
=============================================================================
