----------------------------- MODULE BatchQuality -----------------------------
(* What a batch says of itself (batch_validate.py): the summary of each request, from
   the entries of its files and the ranking of its targets, and the quality of all.
   A rate is a pair of numbers; the requests that failed have no numbers.         *)
EXTENDS PrResolver

CONSTANT Earlier   \* sequences of summaries that may precede the one of the present request

\* The unresolved_reason of an entry; the first one is one of _NON_PRODUCT_REASONS.
Reason(i) ==
  CASE entries[i].resolver = "skip" -> "no test impact"
    [] entries[i].resolver = "unresolved" -> "no pattern"
    [] entries[i].resolver = "bridge" /\ files[i].bridge = "infrastructure" -> "generic bridge"
    [] OTHER -> "none"

IsProduct(i) == Reason(i) # "no test impact"
IsOpen(i) == Reason(i) # "none"

(* Variant: a broad rule does not cover a file. *)
CoveredByTests(i) == entries[i].apis # {} \/ entries[i].projects # {}
IsCovered(i) == entries[i].apis # {} \/ entries[i].projects # {} \/ entries[i].broad

IsCanonical(i) == entries[i].canonical # {}
IsExact(i) == entries[i].projects # {} /\ ~ entries[i].broad
IsOfFamily(i) == entries[i].resolver \in {"bridge", "cpp", "naming"} /\ Reason(i) = "none"

\* The buckets of the ranking, as it wrote them into the provenance of the result.
RankedSizes ==
  [bucket \in Range(Buckets) |-> Cardinality(KeptOfBucket(bucket, BeforeRanking))]
DroppedCount == Cardinality(Selected(BeforeRanking) \ Kept(BeforeRanking))

\* The rates divide by one when there is nothing.
AtLeastOne(n) == IF n > 1 THEN n ELSE 1

\* _summarize_result
Summary ==
  LET all == DOMAIN entries
      product == {i \in all : IsProduct(i)}
      canonical == {i \in all : IsCanonical(i)}
      open == {i \in all : IsOpen(i)}
      strong == {i \in all : files[i].strongRole}
  IN [status |-> "ok", policy |-> policy, files |-> NFiles,
      actionable |-> AtLeastOne(Cardinality({i \in all : ~ files[i].excluded})),
      covered |-> Cardinality({i \in all : IsCovered(i)}),
      canonical |-> Cardinality(canonical),
      exact |-> Cardinality({i \in all : IsExact(i)}),
      family |-> Cardinality({i \in all : IsOfFamily(i)}),
      broad |-> Cardinality({i \in all : entries[i].broad}),
      open |-> Cardinality(open), weak |-> Cardinality(lowConfidence),
      product |-> Cardinality(product),
      productCanonical |-> Cardinality(product \cap canonical),
      productOpen |-> Cardinality(product \cap open),
      strong |-> Cardinality(strong), strongCanonical |-> Cardinality(strong \cap canonical),
      targets |-> Cardinality(Selected(entries) \cup extra), extra |-> Cardinality(extra),
      buckets |-> RankedSizes, dropped |-> DroppedCount]
Failed == [status |-> "error"]

\* In a summary no part is more than its whole; a request that failed has no numbers.
Parts ==
  ({"covered", "canonical", "exact", "family", "broad"} \X {"files"})
  \cup {<<"extra", "targets">>, <<"productCanonical", "product">>, <<"productOpen", "product">>,
        <<"strongCanonical", "strong">>}
IsSummary(s) ==
  \/ s.status = "error"
  \/ /\ s.status = "ok" /\ s.actionable \in Nat \ {0}
     /\ \A pair \in Parts : s[pair[1]] \in Nat /\ s[pair[2]] \in Nat /\ s[pair[1]] <= s[pair[2]]

\* So are the summaries of the earlier requests, which are made as this one is.
ASSUME EarlierAssumption ==
  \A earlier \in Earlier :
    earlier \in Seq(Range(earlier)) /\ \A k \in DOMAIN earlier : IsSummary(earlier[k])

-------------------------------------------------------------------------------
\* cmd_validate_batch: the numbers of the requests that were answered, in a batch that is
\* not resumed (otherwise the total is that of the requests now asked for).
NoMean == <<0, 1>>
PlusRate(x, y) == <<x[1] * y[2] + y[1] * x[2], x[2] * y[2]>>

\* Of the requests ks: the sum of the rates of a part in the whole, their mean, and the
\* total of a part.
RateSum(list, ks, part, whole) ==
  LET sum[k \in 0..Len(list)] ==
        IF k = 0 THEN NoMean
        ELSE IF k \in ks THEN PlusRate(sum[k - 1], <<list[k][part], AtLeastOne(list[k][whole])>>)
        ELSE sum[k - 1]
  IN sum[Len(list)]

Mean(list, ks, part, whole) ==
  LET sum == RateSum(list, ks, part, whole)
  IN IF ks = {} THEN NoMean ELSE <<sum[1], sum[2] * Cardinality(ks)>>

TotalOf(list, ks, part) ==
  LET sum[k \in 0..Len(list)] ==
        IF k = 0 THEN 0 ELSE sum[k - 1] + (IF k \in ks THEN list[k][part] ELSE 0)
  IN sum[Len(list)]

Answered(list) == {k \in DOMAIN list : list[k].status = "ok"}
Settled(list) ==
  {k \in Answered(list) : list[k].policy \notin {"manual_review", "require_broader_suite"}}

(* Variant: the requests that failed are not excluded. *)
ExcludedByPolicy(list) ==
  {k \in Answered(list) : list[k].policy \in {"manual_review", "require_broader_suite"}}
Excluded(list) ==
  {k \in DOMAIN list : \/ list[k].status # "ok"
                       \/ list[k].policy \in {"manual_review", "require_broader_suite"}}

Gate(list, ks) ==
  [requests |-> Cardinality(ks), canonical |-> Mean(list, ks, "canonical", "files"),
   exact |-> Mean(list, ks, "exact", "files"),
   productOpen |-> Mean(list, ks, "productOpen", "product")]

Quality(list) ==
  LET ok == Answered(list)
      products == {k \in ok : list[k].product > 0}
  IN [total |-> Len(list), ok |-> Cardinality(ok),
      errors |-> Cardinality({k \in DOMAIN list : list[k].status = "error"}),
      covered |-> Mean(list, ok, "covered", "files"),
      actionable |-> Mean(list, ok, "covered", "actionable"),
      canonical |-> Mean(list, ok, "canonical", "files"),
      exact |-> Mean(list, ok, "exact", "files"),
      family |-> Mean(list, ok, "family", "files"),
      broad |-> Mean(list, ok, "broad", "files"),
      canonicalOfProduct |-> Mean(list, products, "productCanonical", "product"),
      openOfProduct |-> Mean(list, products, "productOpen", "product"),
      strong |-> <<TotalOf(list, ok, "strongCanonical"), AtLeastOne(TotalOf(list, ok, "strong"))>>,
      files |-> TotalOf(list, ok, "files"), coveredFiles |-> TotalOf(list, ok, "covered"),
      openFiles |-> TotalOf(list, ok, "open"), weakFiles |-> TotalOf(list, ok, "weak"),
      withTargets |-> Cardinality({k \in ok : list[k].targets > 0}),
      withCanonical |-> Cardinality({k \in ok : list[k].canonical > 0}),
      clean |-> Gate(list, ok), adjusted |-> Gate(list, Settled(list)), excluded |-> Excluded(list)]

-------------------------------------------------------------------------------
\* The numbers add up.  Of a request: every file with product code is covered, is open, or
\* lost its targets to the ranking or to a resolver that gave none, and one is both only
\* by the indexes of coverage and coupling; the targets are what the ranking kept and
\* the fallback added; a must_run target needs a file with a canonical API; and the CI is
\* told "ok" only without open files.
\* Of a batch: every request is in the adjusted gate or is excluded, no rate but that of
\* the actionable files is over one, and that one only by files that are excluded.
QualityAddsUp ==
  phase = "done" => \E s \in {Summary} :
    LET kept == s.buckets["must_run"] + s.buckets["recommended"] + s.buckets["fallback"]
        lost == {i \in DOMAIN entries : entries[i].apis = {} /\ entries[i].projects = {} /\
                   \/ DOMAIN entries[i].reasons # {}
                   \/ Resolver(files[i]) \in {"native", "idl", "bridge", "cpp"}}
    IN /\ s.product <= s.covered + s.productOpen + Cardinality(lost)
       /\ \A i \in DOMAIN entries : IsOpen(i) /\ IsCovered(i) => entries[i].projects \subseteq files[i].covers
       /\ s.targets = kept + s.extra
       /\ kept + s.dropped = Cardinality(Selected(BeforeRanking))
       /\ s.buckets["must_run"] > 0 => s.canonical > 0
       /\ s.policy = "ok" => s.productOpen = 0
       /\ \A earlier \in Earlier :
            \E q \in {Quality(Append(earlier, s))} :
            LET rates == {q.covered, q.canonical, q.exact, q.family, q.broad,
                          q.canonicalOfProduct, q.openOfProduct, q.strong}
            IN /\ q.adjusted.requests + Cardinality(q.excluded) = q.total
               /\ q.ok + q.errors = q.total /\ q.withCanonical <= q.ok
               /\ \A r \in rates : r[1] <= r[2]
               /\ q.actionable[1] > q.actionable[2] =>
                    \/ \E k \in DOMAIN earlier :
                         earlier[k].status = "ok" /\ earlier[k].covered > earlier[k].actionable
                    \/ \E i \in DOMAIN entries : IsCovered(i) /\ files[i].excluded

\* Every file of a request has its answer, what the CI is told of the gap and of the verdict
\* is true of the entries, and what the batch reports of them adds up.
RequestIsAnswered == EveryFileIsAccounted /\ GapIsComplete /\ OkMeansSelected /\ QualityAddsUp
===============================================================================
