----------------------------- MODULE SemanticGate -----------------------------
(* The policy that says which test must run (model/buckets.py), its mirror that
   names what forbids it, the third copy in graph/coverage_relation.py and the
   adapter for the evidence of the older scoring (gate_adapter.py).           *)

Confidences == {"strong", "medium", "weak", "unknown"}

Coverages ==
  {"exact_api_same_usage_shape", "exact_api_different_arguments",
   "exact_api_different_call_style", "exact_api_unknown_usage_shape",
   "same_family_related_api", "same_modifier_or_attribute_family",
   "shared_helper_related_api", "harness_only_usage", "broad_fallback",
   "unresolved_coverage", "unknown"}

UsageKinds ==
  {"import", "component_instantiation", "chained_modifier", "static_modifier",
   "method_call", "member_access", "event_handler", "config_object",
   "resource_reference", "type_reference", "harness_only", "unknown"}

NonModuleKinds ==
  {"component", "modifier", "attribute", "event_or_method", "configuration", "helper_family"}
ApiKinds == NonModuleKinds \cup {"module", ""}

\* BucketGateInputs; blocked: semantic_blockers is not empty.
GateInputs ==
  [source : Confidences, consumer : Confidences, coverage : Coverages,
   usage : UsageKinds, kind : ApiKinds, onlyFallback : BOOLEAN, onlyPathRule : BOOLEAN,
   fanout : BOOLEAN, noBetter : BOOLEAN, blocked : BOOLEAN]

SemanticBuckets == {"must_run", "recommended", "possible", "unresolved"}

ImportOnly(i) == i.usage = "import" /\ i.kind \in NonModuleKinds
Fair == {"strong", "medium"}

\* What makes a test a possible one, however strong the rest is.
Degraded(i) ==
  \/ i.onlyFallback \/ i.onlyPathRule
  \/ i.fanout /\ i.consumer # "strong"
  \/ i.coverage = "broad_fallback"

\* assign_bucket: the first rule that applies decides.
AssignBucket(i) ==
  IF i.blocked \/ i.coverage = "unresolved_coverage" THEN "unresolved"
  ELSE IF i.coverage = "harness_only_usage" THEN "possible"
  ELSE IF ImportOnly(i) THEN IF i.consumer \in Fair THEN "recommended" ELSE "possible"
  ELSE IF Degraded(i) THEN "possible"
  ELSE IF /\ i.source = "strong" /\ i.consumer = "strong"
          /\ \/ i.coverage = "exact_api_same_usage_shape"
             \/ i.coverage = "exact_api_different_arguments" /\ i.noBetter
       THEN "must_run"
  ELSE IF \/ i.coverage \in {"exact_api_different_arguments", "exact_api_different_call_style"}
          \/ i.source \in Fair /\ i.consumer \in Fair
       THEN "recommended"
  ELSE "possible"

RuleIf(rule, applies) == IF applies THEN {rule} ELSE {}

\* The rules of violates_must_run_gate that speak of one coverage class.
CoverageRules(i) ==
  RuleIf("unresolved_coverage", i.coverage = "unresolved_coverage")
  \cup RuleIf("harness_only", i.coverage = "harness_only_usage")
  \cup RuleIf("broad_fallback", i.coverage = "broad_fallback")
  \cup RuleIf("unknown_usage_shape", i.coverage = "exact_api_unknown_usage_shape")
  \cup RuleIf("import_only_non_module", ImportOnly(i))

\* violates_must_run_gate: the rules that forbid must_run, none when it is allowed.
ViolatedRules(i) ==
  RuleIf("semantic_blocker_present", i.blocked)
  \cup CoverageRules(i)
  \cup RuleIf("fallback_only_source", i.onlyFallback)
  \cup RuleIf("path_only_source", i.onlyPathRule)
  \cup RuleIf("generic_fanout_no_direct_consumer", i.fanout /\ i.consumer # "strong")
  \cup RuleIf("source_not_strong", i.source # "strong")
  \cup RuleIf("consumer_not_strong", i.consumer # "strong")
  \cup RuleIf("diff_args_better_test_exists",
              i.coverage = "exact_api_different_arguments" /\ ~ i.noBetter)
  \cup RuleIf("unsupported_coverage_equivalence",
              /\ i.coverage \notin {"exact_api_different_arguments", "exact_api_same_usage_shape"}
              /\ CoverageRules(i) = {})

-------------------------------------------------------------------------------
\* The bucket of the graph (coverage_relation._assign_bucket), from three of the
\* inputs only.
GraphBucket(source, consumer, coverage) ==
  IF coverage \in {"harness_only_usage", "broad_fallback"} THEN "possible"
  ELSE IF coverage = "unresolved_coverage" THEN "unresolved"
  ELSE IF source = "strong" /\ consumer = "strong" /\ coverage = "exact_api_same_usage_shape"
       THEN "must_run"
  ELSE IF \/ coverage \in {"exact_api_different_arguments", "exact_api_different_call_style"}
          \/ source \in Fair /\ consumer \in Fair
       THEN "recommended"
  ELSE "possible"

\* _compute_order_score, in hundredths.
Boost(confidence) ==
  IF confidence = "strong" THEN 10 ELSE IF confidence = "medium" THEN 5 ELSE 0
BaseScore(bucket) ==
  IF bucket = "must_run" THEN 100
  ELSE IF bucket = "recommended" THEN 70
  ELSE IF bucket = "possible" THEN 40 ELSE 10

-------------------------------------------------------------------------------
\* The older scoring's evidence: e.nonLexical, e.direct (a type or member hint was
\* met directly), e.reasons ("import" when each is an import, "direct" when one is
\* a direct use, "other"), e.weak (the score is at most 12).
LegacyEvidence ==
  [nonLexical : BOOLEAN, direct : BOOLEAN, reasons : {"import", "direct", "other"},
   weak : BOOLEAN]

\* legacy_to_gate_inputs
LegacyInputs(e) ==
  [source |-> IF e.nonLexical THEN "strong" ELSE "weak",
   consumer |-> IF e.direct THEN "strong" ELSE "unknown",
   coverage |-> "unknown",
   usage |-> IF e.reasons = "import" THEN "import" ELSE "unknown",
   kind |-> "", onlyFallback |-> e.weak /\ e.reasons # "direct", onlyPathRule |-> FALSE,
   fanout |-> FALSE, noBetter |-> FALSE, blocked |-> FALSE]

\* apply_must_run_gate
LegacyBucket(bucket, e) ==
  IF bucket # "must_run" \/ (e.nonLexical /\ e.direct) THEN bucket
  ELSE IF ViolatedRules(LegacyInputs(e)) = {} THEN bucket
  ELSE IF e.nonLexical THEN "high-confidence related" ELSE "possible related"
===============================================================================
