------------------------------ MODULE RunArtifacts ------------------------------
(***************************************************************************)
(* RunArtifactBuilder.build and the validators of a RunArtifactBundle      *)
(* (run_artifact_*.py), and the attestation of a bundle                    *)
(* (attestation_contract.py, attestation_crypto.py), as operators.         *)
(*                                                                         *)
(* A digest is what it is a digest of, so that the validator of a single   *)
(* artifact's own digest has nothing to refuse.  Of the graph the nodes    *)
(* are kept; an edge only ever joins two nodes that were added before it.  *)
(***************************************************************************)
EXTENDS HarnessKernel, FiniteSets, Functions

-----------------------------------------------------------------------------
(* RunArtifactBuilder._validate_continuity                                 *)

\* _is_immutable_reference: a commit or a digest, and nothing else.
Immutable(ref) == ref = "sha"

\* Mutant: the verdict need not be about this evidence.
ContinuousWithoutEvidence(authority, plan, evidence, verdict) ==
  /\ authority.manifest = plan.manifest
  /\ Immutable(plan.run_spec.ref)
  /\ evidence.run_id = plan.run_id
  /\ verdict.run_id = plan.run_id
  /\ verdict.plan = plan

Continuous(authority, plan, evidence, verdict) ==
  /\ authority.manifest = plan.manifest
  /\ Immutable(plan.run_spec.ref)
  /\ plan.run_spec.backend = plan.runtime_backend
  /\ evidence.run_id = plan.run_id
  /\ evidence.provenance_digest = plan.provenance_digest
  /\ evidence.runtime_backend = plan.runtime_backend
  /\ verdict.run_id = plan.run_id
  /\ verdict.manifest = plan.manifest
  /\ verdict.provenance_digest = plan.provenance_digest
  /\ verdict.plan = plan
  /\ verdict.evidence = evidence
  /\ verdict.runtime_backend = plan.runtime_backend
  /\ verdict.failed_check_ids = FailedIds(verdict.checks)
  /\ verdict.status = (IF verdict.failed_check_ids = {} THEN "pass" ELSE "fail")
  /\ verdict.security_gate = "fail" => <<"security-gate">> \in verdict.failed_check_ids
  /\ Gate(verdict.security_findings) = "fail" => verdict.security_gate = "fail"

-----------------------------------------------------------------------------
(* _build_graph                                                            *)

\* The items that carry an evidence id of their own, by their channel and index.
SourceIds(evidence) ==
  LET places ==
        {<<"findings", i>> : i \in {j \in DOMAIN evidence.findings :
                                      evidence.findings[j].evidence_id # None}}
          \cup {<<"network", i>> : i \in {j \in DOMAIN evidence.network :
                                            evidence.network[j].evidence_id # None}}
  IN [place \in places |-> evidence[place[1]][place[2]].evidence_id]

Unresolved(evidence, verdict) ==
  {place \in DOMAIN verdict.security_findings :
     verdict.security_findings[place].evidence_id \notin Range(SourceIds(evidence)) \cup {None}}

\* The gate's check cites the id of each finding that has one.
CitesTwice(verdict) ==
  \E i, j \in DOMAIN verdict.security_findings :
    /\ i # j
    /\ verdict.security_findings[i].evidence_id = verdict.security_findings[j].evidence_id
    /\ verdict.security_findings[i].evidence_id # None

\* A source id that occurs twice, a check that cites an unknown one or one twice, a
\* passing verdict with such a finding, and two nodes that are equal are refused.
GraphAccepts(evidence, verdict) ==
  /\ IsInjective(SourceIds(evidence))
  /\ \A check \in verdict.checks : check.evidence_ids \subseteq Range(SourceIds(evidence))
  /\ ~CitesTwice(verdict)
  /\ Unresolved(evidence, verdict) # {} => verdict.status = "fail" /\ verdict.security_gate = "fail"
  /\ IsInjective(verdict.security_findings)

Channels(evidence) ==
  {<<"network", i>> : i \in DOMAIN evidence.network}
    \cup {<<"findings", i>> : i \in DOMAIN evidence.findings}
    \cup {<<kind>> : kind \in evidence.captured \ {"network", "findings"}}

Runtime(plan) == [backend |-> plan.runtime_backend, version |-> plan.run_spec.version,
                  image_digest |-> plan.run_spec.image]

Graph(authority, plan, evidence, verdict) ==
  [run_id |-> plan.run_id,
   nodes |->
     {<<"evaluator_authority", authority>>, <<"harness_plan", plan>>,
      <<"skill_provenance", plan.provenance_digest>>, <<"runtime", Runtime(plan)>>,
      <<"evidence_bundle", evidence>>, <<"harness_verdict", verdict>>}
     \cup {<<"evidence_object", channel>> : channel \in Channels(evidence)}
     \cup {<<"verification_check", check>> : check \in verdict.checks}
     \cup {<<"security_finding", finding>> : finding \in Range(verdict.security_findings)}
     \cup {<<"unresolved_evidence_reference", verdict.security_findings[place].evidence_id>> :
             place \in Unresolved(evidence, verdict)}]

-----------------------------------------------------------------------------
(* _build_replay, _build_trace, _build_scorecard                           *)

SnapshotCapable(plan) == "snapshot_restore" \in plan.runtime_capabilities

\* A runtime version that is mutable counts only if replay is not exact.
ReplayClass(plan, evidence) ==
  IF SnapshotCapable(plan) /\ evidence.snapshot_digest # None /\ plan.run_spec.image = "sha"
  THEN "exact"
  ELSE IF plan.run_spec.version = "latest" THEN "none" ELSE "partial"

Replay(authority, plan, evidence) ==
  [run_id |-> plan.run_id, plan |-> plan, authority |-> authority,
   provenance_digest |-> plan.provenance_digest, runtime |-> Runtime(plan),
   snapshot_capable |-> SnapshotCapable(plan), snapshot_digest |-> evidence.snapshot_digest,
   replay_class |-> ReplayClass(plan, evidence)]

\* The digests among the attributes of the spans.
Trace(authority, plan, evidence, verdict) ==
  [run_id |-> plan.run_id, plan |-> plan,
   attributes |-> {<<"authority_digest", authority>>, <<"plan_digest", plan>>,
                   <<"evidence_digest", evidence>>, <<"verdict_digest", verdict>>},
   execute |-> IF evidence.exit_code = 0 THEN "ok" ELSE "error",
   verify |-> IF verdict.status = "pass" THEN "ok" ELSE "error"]

\* non_compensable_failures; only attested evidence counts here.
Failures(plan, evidence, verdict) ==
  {<<"missing-evidence", kind>> : kind \in plan.required_evidence \ evidence.captured}
    \cup {<<"security-gate-failed">> : gate \in {verdict.security_gate} \cap {"fail"}}
    \cup {<<"verdict-failed">> : status \in {verdict.status} \ {"pass"}}
    \cup {<<"high-or-critical-security-finding">> : gate \in {Gate(verdict.security_findings)} \cap {"fail"}}

\* OutcomeScorecard.validate_scorecard, and _build_scorecard in the same words.
Eligible(card) ==
  /\ card.outcome_status = "pass" /\ card.security_gate = "pass"
  /\ card.captured = card.required
  /\ card.passed = card.checks
  /\ card.failures = {}

\* diagnostic_score in hundredths, rounded down; the rate of nothing is whole.
Score(plan, evidence, verdict) ==
  LET rate(part, whole) ==
        IF whole = {} THEN 3500 ELSE (3500 * Cardinality(part)) \div Cardinality(whole)
      replay == ReplayClass(plan, evidence)
  IN IF verdict.security_gate = "fail" THEN 0
     ELSE rate(plan.required_evidence \cap evidence.captured, plan.required_evidence)
          + rate({check \in verdict.checks : check.passed}, verdict.checks)
          + (IF verdict.status = "pass" THEN 2000 ELSE 0)
          + (CASE replay = "exact" -> 1000 [] replay = "partial" -> 500 [] replay = "none" -> 0)

Scorecard(authority, plan, evidence, verdict) ==
  [run_id |-> plan.run_id, authority |-> authority, plan |-> plan,
   evidence |-> evidence, verdict |-> verdict, runtime |-> Runtime(plan),
   outcome_status |-> verdict.status, security_gate |-> verdict.security_gate,
   required |-> Cardinality(plan.required_evidence),
   captured |-> Cardinality(plan.required_evidence \cap evidence.captured),
   checks |-> Cardinality(verdict.checks),
   passed |-> Cardinality({check \in verdict.checks : check.passed}),
   replay_class |-> ReplayClass(plan, evidence),
   failures |-> Failures(plan, evidence, verdict),
   diagnostic_score |-> Score(plan, evidence, verdict)]

-----------------------------------------------------------------------------
(* RunArtifactBundle                                                       *)

Bundle(authority, plan, evidence, verdict) ==
  [authority |-> authority, graph |-> Graph(authority, plan, evidence, verdict),
   replay |-> Replay(authority, plan, evidence),
   trace |-> Trace(authority, plan, evidence, verdict),
   scorecard |-> Scorecard(authority, plan, evidence, verdict),
   run_id |-> plan.run_id, plan |-> plan, evidence |-> evidence, verdict |-> verdict]

\* Mutant: the continuity of the nested artifacts is left to their digests.
ValidByDigests(b) ==
  /\ Cardinality({b.run_id, b.graph.run_id, b.replay.run_id, b.trace.run_id, b.scorecard.run_id}) = 1
  /\ b.authority = b.scorecard.authority
  /\ b.plan = b.replay.plan /\ b.plan = b.trace.plan /\ b.plan = b.scorecard.plan
  /\ b.evidence = b.scorecard.evidence /\ b.verdict = b.scorecard.verdict

\* validate_bundle and validate_cross_artifact_continuity
ValidBundle(b) ==
  /\ Cardinality({b.run_id, b.graph.run_id, b.replay.run_id, b.trace.run_id, b.scorecard.run_id}) = 1
  /\ b.authority = b.scorecard.authority /\ b.authority = b.replay.authority
  /\ b.plan = b.replay.plan /\ b.plan = b.trace.plan /\ b.plan = b.scorecard.plan
  /\ b.evidence = b.scorecard.evidence /\ b.verdict = b.scorecard.verdict
  /\ b.scorecard.replay_class = b.replay.replay_class
  /\ b.scorecard.runtime = b.replay.runtime
  /\ {<<"evaluator_authority", b.authority>>, <<"harness_plan", b.plan>>,
      <<"skill_provenance", b.replay.provenance_digest>>, <<"evidence_bundle", b.evidence>>,
      <<"harness_verdict", b.verdict>>, <<"runtime", b.replay.runtime>>} \subseteq b.graph.nodes
  /\ {<<"authority_digest", b.authority>>, <<"plan_digest", b.plan>>,
      <<"evidence_digest", b.evidence>>, <<"verdict_digest", b.verdict>>} \subseteq b.trace.attributes

\* RunArtifactBuilder.build raises unless:
Builds(authority, plan, evidence, verdict) ==
  /\ Continuous(authority, plan, evidence, verdict)
  /\ GraphAccepts(evidence, verdict)
  /\ ValidBundle(Bundle(authority, plan, evidence, verdict))

-----------------------------------------------------------------------------
(* Attestation                                                             *)

\* build_statement; its predicate repeats what the bundle is made of.
Statement(bundle, identity) ==
  [subject |-> bundle, bundle |-> bundle, identity |-> identity,
   rank_eligible |-> Eligible(bundle.scorecard),
   outcome_status |-> bundle.scorecard.outcome_status,
   security_gate |-> bundle.scorecard.security_gate]

\* sign_bundle; what a key has signed no other key has.
Envelope(bundle, identity, key) ==
  [payload |-> Statement(bundle, identity), keyid |-> key,
   sig |-> <<key, Statement(bundle, identity)>>]

\* Mutant: an envelope is good for every bundle of its run.
VerifiesByRunId(bundle, envelope, key, policy) ==
  /\ envelope.keyid = key /\ key \in policy.allowed_key_ids
  /\ envelope.payload.subject.run_id = bundle.run_id
  /\ ValidBundle(bundle)
  /\ envelope.sig = <<key, envelope.payload>>

\* verify_attestation; an expectation that is None is not looked at.
Verifies(bundle, envelope, key, policy) ==
  LET statement == envelope.payload IN
  /\ envelope.keyid = key
  /\ key \in policy.allowed_key_ids
  /\ statement = Statement(bundle, statement.identity)
  /\ ValidBundle(bundle)
  /\ envelope.sig = <<key, statement>>
  /\ \A field \in DOMAIN policy.expected :
       policy.expected[field] # None => statement.identity[field] = policy.expected[field]
  /\ policy.require_rank_eligible => statement.rank_eligible
=============================================================================
