------------------------------ MODULE MCEvaluation ------------------------------
(* Eight manifests, ten inputs made of them, and what may happen to their runs. *)
EXTENDS Evaluation, TLC

Manifest(adapter, runtimes, required, verifiers, artifacts) ==
  [adapter |-> adapter, runtimes |-> runtimes, capabilities |-> {}, filesystem |-> "isolated",
   snapshot_required |-> FALSE, capture |-> required \cup Mandatory(adapter),
   required |-> required \cup Mandatory(adapter), verifiers |-> verifiers,
   budget |-> 1, artifacts |-> artifacts]

RunSpec(run_id, backend, ref) ==
  [run_id |-> run_id, provenance_digest |-> <<"provenance", ref>>, ref |-> ref, backend |-> backend,
   filesystem |-> "isolated", limit |-> 1, image |-> "sha", version |-> "pinned"]

ExitZero == [kind |-> "exit_code_zero", of |-> None]

Agent == Manifest("coding.agent.v1", {"openshell"}, {"network"}, {ExitZero}, {})

Browser(runtimes, artifacts) ==
  Manifest("browser.playwright.v1", runtimes, {},
           {ExitZero, [kind |-> "assertion_true", of |-> "browser_artifacts_valid"]}, artifacts)

Attested ==
  Manifest("coding.command.v1", {"fake", "openshell"}, {"assertions"},
           {[kind |-> "assertion_true", of |-> "runtime_attested"]}, {})

Input(manifest, run_id, runtime) ==
  [manifest |-> manifest, spec |-> RunSpec(run_id, Backend(runtime), "sha"), runtime |-> runtime]

MCInputs ==
  [agent |-> Input(Agent, "r1", "openshell"),
   branch |-> [manifest |-> Agent, spec |-> RunSpec("r1", "openshell", "branch"), runtime |-> "openshell"],
   mocked |-> Input(Manifest("coding.agent.v1", {"fake"}, {}, {ExitZero}, {}), "r3", "fake"),
   browser |-> Input(Browser({"fake", "openshell"}, BrowserArtifacts), "r2", "fixture"),
   sandboxed |-> Input(Browser({"fake", "openshell"}, BrowserArtifacts), "r2", "openshell"),
   no_download |-> Input(Browser({"fake"}, BrowserArtifacts \ {"downloads"}), "r2", "fixture"),
   brokered |-> Input(Manifest("coding.command.v1", {"cloudflare"}, {"exit_code", "stdout", "inference"},
                        {ExitZero, [kind |-> "stdout_contains", of |-> "done"]}, {}), "r1", "cloudflare"),
   untraced |-> Input(Manifest("coding.command.v1", {"fake"}, {"network"},
                        {[kind |-> "evidence_present", of |-> "network"]}, {}), "r3", "fake"),
   attested |-> Input(Attested, "r3", "openshell"),
   unattested |-> Input(Attested, "r3", "fake")]

Clean == [exit_code |-> 0, text |-> {"done"}, network |-> <<"allowed">>, trace |-> <<"allowed">>,
          changed |-> {"main.py"}, findings |-> <<>>, receipt |-> TRUE, artifacts |-> TRUE,
          calls |-> FALSE, snapshot |-> None]

\* A happening on this host, where nothing is watched.
Local(events) == [events EXCEPT !.network = <<>>, !.changed = {}]

MCHappenings ==
  [clean |-> Clean,
   faked |-> [Clean EXCEPT !.text = FakeText, !.network = <<>>, !.trace = <<>>, !.changed = {}, !.receipt = FALSE],
   shown |-> Local(Clean),
   called |-> [Clean EXCEPT !.calls = TRUE],
   snapshot |-> [Clean EXCEPT !.snapshot = "s1"],
   denied |-> [Clean EXCEPT !.network = <<"allowed", "denied">>],
   broken |-> [Local(Clean) EXCEPT !.exit_code = 1],
   traced |-> [Local(Clean) EXCEPT !.exit_code = 1, !.trace = <<"denied">>],
   severe |-> [Clean EXCEPT !.findings = <<[severity |-> "high", evidence_id |-> None]>>],
   unproven |-> [Clean EXCEPT !.receipt = FALSE],
   silent |-> [Local(Clean) EXCEPT !.receipt = FALSE],
   spoiled |-> [Local(Clean) EXCEPT !.artifacts = FALSE]]

\* What may make a difference to a run of a manifest.
Relevant ==
  [agent |-> {"clean", "snapshot", "denied", "severe", "unproven"},
   branch |-> {"clean"},
   mocked |-> {"faked"},
   browser |-> {"shown", "broken", "traced", "silent", "spoiled"},
   sandboxed |-> {"clean"},
   no_download |-> {"shown"},
   brokered |-> {"clean", "called"},
   untraced |-> {"faked"},
   attested |-> {"clean"},
   unattested |-> {"faked"}]

MCTried == UNION {{input} \X Relevant[input] : input \in DOMAIN Relevant}

Symmetry == Permutations(Publishers)

MCFiles == <<"outcome-scorecard", "run-artifact-bundle">>

MCAuthorities ==
  [id : {"team"}, manifest : {MCInputs[input].manifest : input \in DOMAIN MCInputs}]
    \cup {[id |-> "auditor", manifest |-> Agent]}

Identity(ref) == [repository |-> "repository", workflow_ref |-> ref]

MCIdentities == {Identity("release"), Identity("fork")}

MCPolicies ==
  {[allowed_key_ids |-> {"k1"}, require_rank_eligible |-> TRUE,
    expected |-> [repository |-> "repository", workflow_ref |-> "release"]],
   [allowed_key_ids |-> {"k1", "k2"}, require_rank_eligible |-> FALSE,
    expected |-> [repository |-> "repository", workflow_ref |-> None]]}
=============================================================================
