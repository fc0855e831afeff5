-------------------------- MODULE UniversalPipeline --------------------------
(* --universal-impact (impact/universal_pipeline.py): each changed file is given
   a layer and one resolver, the targets of all files are limited together, and
   the report says how deep the resolution went.

   A changed file is a record of what its resolver can find out: its layer, the
   confidence of the rule that gave it, whether a route knows its path, whether
   the SDK declares a name for its topics, the profile that matches it, and the
   test files that mention it in the order of the scan, each with its module (or
   stem) and its mentions, "import" or "use", in the order of its lines.       *)
EXTENDS Integers, Sequences, SequencesExt, FiniteSets

CONSTANTS
  PerApi, PerProfile,                 \* bounds: recommended targets of an API, of a profile
  PerDomain,                          \* bound: possible targets of a domain
  TotalRecommended, TotalPossible,    \* bounds: all of them (5, 5, 5, 20, 20 in the code)
  ChangeSets,    \* the sequences of changed files a run may meet
  NoProfile      \* the profile of a file that none matches

\* The targets are in the order of their identifiers.
ASSUME LimitsAssumption ==
  /\ PerApi \in Nat /\ PerProfile \in Nat /\ PerDomain \in Nat
  /\ TotalRecommended \in Nat /\ TotalPossible \in Nat
  /\ \A files \in ChangeSets :
       /\ files \in Seq(Range(files))
       /\ \A k \in DOMAIN files :
            /\ files[k].tests \in Seq(Range(files[k].tests))
            /\ \A n \in DOMAIN files[k].tests : files[k].tests[n].target \in Nat

VARIABLES
  changed,       \* the files of this run
  perFile,       \* the results so far: [bucket, layer, topics, profiled]
  candidates,    \* all_candidates
  report,        \* the honesty marker, NoReport before
  ranked,        \* the candidates still to be judged
  kept, suppressed  \* the outcome, in the order of the ranking

-------------------------------------------------------------------------------
\* Which of the targets that all resolvers found are kept (impact/fanout_limiter.py):
\* one candidate for each target, in the order of the evidence, as many as the caps
\* allow.  Targets are numbered in the order of their identifiers.
limiterVars == <<ranked, kept, suppressed>>

Place(name, order) == CHOOSE k \in DOMAIN order : order[k] = name

StrengthRank(c) == Place(c.strength, <<"strong", "medium", "weak">>)
BucketOrder(c) == Place(c.bucket, <<"must_run", "recommended", "possible", "unresolved">>)
SourceRank(c) ==
  Place(c.source, <<"coverage_equivalence", "direct_xts_usage", "sdk_plus_usage",
                    "infra_profile", "fallback">>)

\* _deduplicate: of each target the first of the strongest evidence.
(* Variant: a target that is known is not looked at again. *)
FirstSeen(cs) ==
  {k \in DOMAIN cs : \A j \in DOMAIN cs : cs[j].target = cs[k].target => k <= j}

Strongest(cs) ==
  {k \in DOMAIN cs : \A j \in DOMAIN cs :
     cs[j].target = cs[k].target =>
       \/ StrengthRank(cs[k]) < StrengthRank(cs[j])
       \/ StrengthRank(cs[k]) = StrengthRank(cs[j]) /\ k <= j}

\* _rank: the bucket, the source, the strength and the target decide in turn.
RankKey(c) == <<BucketOrder(c), SourceRank(c), StrengthRank(c), c.target>>
RankedBefore(c, d) ==
  \E n \in 1..4 : /\ RankKey(c)[n] < RankKey(d)[n]
                  /\ \A m \in 1..n - 1 : RankKey(c)[m] = RankKey(d)[m]

RankedCandidates(cs) == {cs[k] : k \in Strongest(cs)}

\* The one that is judged next.
Foremost == CHOOSE c \in ranked : \A d \in ranked : d = c \/ RankedBefore(c, d)

-------------------------------------------------------------------------------
\* What a kept candidate is counted with.  No resolver names the API of a
\* candidate, so that all direct ones are of one API, "default".
Group(c) ==
  CASE c.bucket = "recommended" /\ c.source = "infra_profile" -> <<"profile", c.profile>>
    [] c.bucket = "recommended" /\ c.source # "infra_profile" -> <<"api", "default">>
    [] c.bucket = "possible" -> <<"domain", c.domain>>
    [] OTHER -> <<"uncapped", "">>

GroupCap(c) ==
  CASE Group(c)[1] = "profile" -> PerProfile [] Group(c)[1] = "api" -> PerApi
    [] Group(c)[1] = "domain" -> PerDomain [] OTHER -> 0
TotalCap(c) == IF c.bucket = "recommended" THEN TotalRecommended ELSE TotalPossible

Capped(c) == c.bucket \in {"recommended", "possible"}

InGroup(c) == Cardinality({k \in DOMAIN kept : Group(kept[k]) = Group(c)})
InBucket(c) == Cardinality({k \in DOMAIN kept : kept[k].bucket = c.bucket})

NoRoom(c) == Capped(c) /\ (InGroup(c) >= GroupCap(c) \/ InBucket(c) >= TotalCap(c))

LimiterInit == ranked = {} /\ kept = <<>> /\ suppressed = <<>>

\* _apply_caps, one candidate.
Keep ==
  /\ ranked # {} /\ ~ NoRoom(Foremost)
  /\ kept' = Append(kept, Foremost) /\ ranked' = ranked \ {Foremost}
  /\ UNCHANGED suppressed

Suppress ==
  /\ ranked # {} /\ NoRoom(Foremost)
  /\ suppressed' = Append(suppressed, Foremost) /\ ranked' = ranked \ {Foremost}
  /\ UNCHANGED kept

-------------------------------------------------------------------------------
\* The pipeline.
NoReport == [level |-> "none", best |-> "none"]

universalVars == <<changed, perFile, candidates, report, limiterVars>>

GestureLayers == {"gesture_framework", "gesture_referee", "native_node"}
TopicLayers == GestureLayers \cup {"native_peer", "ani_bridge", "native_event"}
ProfileLayers ==
  {"jsi_bridge", "inspector", "select_overlay", "component_universal", "node_universal",
   "pipeline_universal", "common_method"}

Domain(layer) == IF layer \in GestureLayers THEN "gesture" ELSE layer

\* find_usage_edges: the first mention of a name in a file makes its edge, the
\* later ones have the identifier of that edge.
IsUse(test) == test.mentions[1] = "use"

\* compute_max_bucket over the scanned tests.
TopicBucket(file, tests) ==
  IF ~ file.routed THEN "unresolved"
  ELSE IF file.named /\ \E k \in DOMAIN tests : IsUse(tests[k]) THEN "recommended"
  ELSE "possible"

Result(file, bucket, layer, topics, profiled) ==
  [bucket |-> bucket, layer |-> layer,
   confidence |-> IF layer = "unknown" THEN "none" ELSE file.confidence,
   topics |-> topics, profiled |-> profiled]

UniversalInit ==
  /\ changed \in ChangeSets
  /\ perFile = <<>> /\ candidates = <<>> /\ report = NoReport
  /\ LimiterInit

Pending == Len(perFile) < Len(changed) /\ report = NoReport
Current == changed[Len(perFile) + 1]

RecordFile(result, found) ==
  /\ perFile' = Append(perFile, result)
  /\ candidates' = candidates \o found
  /\ UNCHANGED <<changed, report, limiterVars>>

\* A topic resolver scans for the names that the SDK has for the topics of the
\* file; the scan stops at its deadline or at its limit of files, after n tests.
Scanned(file, n) == IF file.routed /\ file.named THEN SubSeq(file.tests, 1, n) ELSE <<>>

\* A module with a mention of a name is a candidate, an import is enough.
TopicCandidate(file, bucket, test) ==
  [target |-> test.target, bucket |-> bucket, source |-> "direct_xts_usage",
   domain |-> Domain(file.layer), profile |-> "", strength |-> "medium"]

ResolveTopic ==
  /\ Pending /\ Current.layer \in TopicLayers
  /\ \E n \in 0..Len(Current.tests) :
       LET tests == Scanned(Current, n)
           bucket == TopicBucket(Current, tests)
       IN RecordFile(Result(Current, bucket, Current.layer, Current.routed, FALSE),
                 [k \in DOMAIN tests |-> TopicCandidate(Current, bucket, tests[k])])

\* BroadInfraProfileResolver: a scan for the terms of the profile that matches, to
\* its deadline or MAX_TARGETS.
Discovered(file, n) ==
  IF file.profile # NoProfile THEN SubSeq(file.tests, 1, n) ELSE <<>>

ProfileBucket(file, tests) ==
  IF file.profile = NoProfile THEN "unresolved"
  ELSE IF tests # <<>> THEN "recommended" ELSE "possible"

ProfileCandidate(file, bucket, test) ==
  [target |-> test.target, bucket |-> bucket, source |-> "infra_profile",
   domain |-> file.layer, profile |-> file.profile, strength |-> "weak"]

ResolveProfile ==
  /\ Pending /\ Current.layer \in ProfileLayers
  /\ \E n \in 0..Len(Current.tests) :
       LET tests == Discovered(Current, n)
           bucket == ProfileBucket(Current, tests)
       IN RecordFile(Result(Current, bucket, Current.layer, FALSE, TRUE),
                 [k \in DOMAIN tests |-> ProfileCandidate(Current, bucket, tests[k])])

\* A layer without a resolver.
ResolveUnknown ==
  /\ Pending /\ Current.layer \notin TopicLayers \cup ProfileLayers
  /\ RecordFile(Result(Current, "unresolved", Current.layer, FALSE, FALSE), <<>>)

\* An error of the classifier makes the layer unknown, one of a resolver leaves it.
ResolverFails ==
  /\ Pending
  /\ \E layer \in {"unknown"} \cup ({Current.layer} \cap (TopicLayers \cup ProfileLayers)) :
       RecordFile(Result(Current, "unresolved", layer, FALSE, FALSE), <<>>)

-------------------------------------------------------------------------------
BucketValue(b) == Place(b, <<"unresolved", "possible", "recommended", "must_run">>)

\* _compute_universal_max_bucket: the first of the best.
MaxBucket ==
  LET buckets == {perFile[k].bucket : k \in DOMAIN perFile}
  IN IF buckets = {} THEN "unresolved"
     ELSE CHOOSE b \in buckets : \A c \in buckets : BucketValue(c) <= BucketValue(b)

\* compute_resolution_confidence
Unresolved(r) == r.layer = "unknown" /\ ~ r.profiled
Shallow(r) == ~ Unresolved(r) /\ ((r.profiled /\ ~ r.topics) \/ r.confidence \in {"low", "medium"})

Level ==
  IF \E k \in DOMAIN perFile : Unresolved(perFile[k]) THEN "unresolved"
  ELSE IF \E k \in DOMAIN perFile : Shallow(perFile[k]) THEN "shallow"
  ELSE IF \E k \in DOMAIN perFile : perFile[k].topics THEN "deep"
  ELSE "shallow"

\* limit, when all candidates are known; the report is of the files alone.
Limit ==
  /\ Len(perFile) = Len(changed) /\ report = NoReport
  /\ ranked' = RankedCandidates(candidates)
  /\ report' = [level |-> Level, best |-> MaxBucket]
  /\ UNCHANGED <<changed, perFile, candidates, kept, suppressed>>

UniversalNext ==
  \/ ResolveTopic \/ ResolveProfile \/ ResolveUnknown \/ ResolverFails
  \/ Limit
  \/ (Keep \/ Suppress) /\ UNCHANGED <<changed, perFile, candidates, report>>
-------------------------------------------------------------------------------
Judged == kept \o suppressed
Rest(c) == {k \in DOMAIN kept : RankedBefore(kept[k], c)}

\* What the caps drop is the worst of what the resolvers found, and nothing else:
\* each target found is judged once, on its strongest evidence, so that a weak
\* match of a profile never speaks for a module with a use of the API; one is
\* dropped only when its group or its bucket is full of better ones, and none is
\* in a better bucket than the report admits.  Nothing must run.  The report says
\* "deep" only when each file has a known layer and none has just a profile.
CapsKeepTheBest ==
  /\ ranked = {} /\ report # NoReport =>
       /\ {Judged[k].target : k \in DOMAIN Judged}
            = {candidates[k].target : k \in DOMAIN candidates}
       /\ \A j, k \in DOMAIN Judged : j # k => Judged[j].target # Judged[k].target
       /\ \A j, k \in DOMAIN kept : j < k => RankedBefore(kept[j], kept[k])
  /\ \A k \in DOMAIN Judged, j \in DOMAIN candidates :
       candidates[j].target = Judged[k].target =>
         StrengthRank(Judged[k]) <= StrengthRank(candidates[j])
  /\ \A k \in DOMAIN suppressed :
       LET c == suppressed[k]
           better == Rest(c)
       IN \/ Cardinality({j \in better : Group(kept[j]) = Group(c)}) = GroupCap(c)
          \/ Cardinality({j \in better : kept[j].bucket = c.bucket}) = TotalCap(c)
  /\ \A k \in DOMAIN kept :
       /\ kept[k].bucket # "must_run"
       /\ BucketValue(kept[k].bucket) <= BucketValue(report.best)
       /\ InGroup(kept[k]) <= GroupCap(kept[k]) /\ InBucket(kept[k]) <= TotalCap(kept[k])
  /\ report.level = "deep" =>
       \A k \in DOMAIN perFile : perFile[k].layer # "unknown" /\ ~ perFile[k].profiled
===============================================================================
