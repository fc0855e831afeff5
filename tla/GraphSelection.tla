---------------------------- MODULE GraphSelection ----------------------------
(* The queries on the API graph: the tests of a changed symbol, of a changed
   range of lines and of a changed file (graph/resolver.py, coverage_relation.py,
   hunk_impact.py).  The command asks the first two, the comparison of the graph
   with the older selection (graph/comparison.py) the third.

   The graph is read from a file and not changed; its edges have an order, that
   of the file.  What is nondeterministic is the graph and the query.         *)
EXTENDS SemanticGate, Naturals, Sequences, SequencesExt, FiniteSetsExt

CONSTANTS
  Graphs,        \* the graphs a query may meet: [uses, sources], sequences of edges,
                 \* [projectOf], the project of each consumer, NoProject when it has none,
                 \* [runnable], the projects that map to a target known to run, and
                 \* [apis], the names of each API
  NoGraph,
  Files, Symbols,
  Spans,         \* Spans[f]: the symbols of the file and their lines, <<symbol, first, last>>
  MaxLine        \* bound: lines of a file

NoFile == "no file"
NoProject == 0

VARIABLES
  graph,         \* the graph of this run, NoGraph when there is no readable file
  asked,         \* the lookups still to do: <<symbol or "", file or NoFile>>
  answers,       \* the selections found, one sequence for each lookup
  hunk,          \* "none", or "overall": the lookups are those of one hunk
  overall        \* the bucket of the hunk

graphVars == <<graph, asked, answers, hunk, overall>>

\* _infer_usage_kind, from the provenance of the evidence; "call" is a parser's
\* evidence with a function or symbol.
UsageKind(evidence) ==
  CASE evidence = "import" -> "import" [] evidence = "call" -> "method_call"
    [] evidence = "config_rule" -> "type_reference" [] OTHER -> "unknown"

\* _determine_coverage_equivalence: only a direct use has a known shape.
Coverage(use) ==
  CASE use.confidence = "strong" /\ UsageKind(use.evidence) = "method_call" -> "exact_api_same_usage_shape"
    [] use.confidence = "strong" /\ UsageKind(use.evidence) # "method_call" -> "exact_api_unknown_usage_shape"
    [] use.confidence = "medium" -> "same_modifier_or_attribute_family"
    [] OTHER -> "unresolved_coverage"

\* The first edge that says what implements the API, whatever file it is from.
SourceImpact(api) ==
  LET Says(edge) == edge.api = api /\ edge.type # "backs_component"
      told == SelectSeq(graph.sources, Says)
  IN IF told = <<>> THEN "unknown" ELSE told[1].confidence

\* build_selection_result of one relation: a use of the API.
Selection(use) ==
  LET source == SourceImpact(use.api)
      bucket == GraphBucket(source, use.confidence, Coverage(use))
  IN [api |-> use.api, project |-> graph.projectOf[use.consumer], bucket |-> bucket,
      coverage |-> Coverage(use), source |-> source, consumer |-> use.confidence,
      usage |-> UsageKind(use.evidence),
      runnable |-> graph.projectOf[use.consumer] \in graph.runnable,
      score |-> BaseScore(bucket) + Boost(source) + Boost(use.confidence)]

\* resolve_coverage_relations, for the APIs in turn.
Relations(apis) ==
  FlattenSeq([k \in DOMAIN apis |->
    LET Uses(edge) == edge.api = apis[k]
        uses == SelectSeq(graph.uses, Uses)
    IN [j \in DOMAIN uses |-> Selection(uses[j])]])

Pair(r) == <<r.api, r.project>>

\* _deduplicate_results: of each pair of API and project the first of the highest
\* score, in the order of the scores, equal ones in that of their pairs.
(* Variant: a later result replaces an earlier one. *)
LastOfPair(rs) ==
  {k \in DOMAIN rs : \A j \in DOMAIN rs : Pair(rs[j]) = Pair(rs[k]) => j <= k}

BestOfPair(rs) ==
  {k \in DOMAIN rs : \A j \in DOMAIN rs :
     Pair(rs[j]) = Pair(rs[k]) =>
       \/ rs[j].score < rs[k].score
       \/ rs[j].score = rs[k].score /\ k <= j}

Deduplicated(rs) ==
  LET First(k) == Min({j \in DOMAIN rs : Pair(rs[j]) = Pair(rs[k])})
      Before(k, j) == \/ rs[k].score > rs[j].score
                      \/ rs[k].score = rs[j].score /\ First(k) < First(j)
      order == SetToSortSeq(BestOfPair(rs), Before)
  IN [n \in DOMAIN order |-> rs[order[n]]]

\* resolve_changed_symbol_to_tests: the APIs that an edge with this symbol names,
\* sorted, each once.
ApisOfSymbol(symbol, file) ==
  SetToSortSeq({e.api : e \in {e \in Range(graph.sources) :
                                 e.symbol = symbol /\ file \in {NoFile, e.file}}}, <)

\* resolve_changed_file_to_tests: an API for each edge of the file.
ApisOfFile(file) ==
  LET From(edge) == edge.file = file
      edges == SelectSeq(graph.sources, From)
  IN [k \in DOMAIN edges |-> edges[k].api]

ApisOfLookup(lookup) ==
  IF lookup[1] = "" THEN ApisOfFile(lookup[2]) ELSE ApisOfSymbol(lookup[1], lookup[2])

\* resolve_hunk_to_symbols: those whose span holds all the lines, then those whose
\* span meets them.
Holds(span, from, to) == span[2] <= from /\ to <= span[3]
Meets(span, from, to) == from <= span[3] /\ span[2] <= to

HunkSymbols(file, from, to) ==
  LET HoldsAll(span) == Holds(span, from, to)
      MeetsSome(span) == Meets(span, from, to) /\ ~ Holds(span, from, to)
      strong == SelectSeq(Spans[file], HoldsAll)
      weak == SelectSeq(Spans[file], MeetsSome)
      Name(spans) == [k \in DOMAIN spans |-> spans[k][1]]
      NotStrong(symbol) == symbol \notin Range(Name(strong))
  IN Name(strong) \o SelectSeq(Name(weak), NotStrong)

GraphInit ==
  /\ graph \in Graphs \cup {NoGraph}
  /\ asked = <<>> /\ answers = <<>> /\ hunk = "none" /\ overall = "possible"

\* --changed-symbol, with the changed file when there is just one.
AskSymbols ==
  /\ \E symbols \in SeqOf(Symbols, 2) \ {<<>>}, file \in Files \cup {NoFile} :
       asked' = [k \in DOMAIN symbols |-> <<symbols[k], file>>]
  /\ UNCHANGED <<graph, answers, hunk, overall>>

\* --changed-lines: a range that ends before it starts is refused.
AskLines ==
  /\ \E file \in Files, from, to \in 1..MaxLine :
       /\ from <= to
       /\ asked' = LET symbols == HunkSymbols(file, from, to)
                   IN [k \in DOMAIN symbols |-> <<symbols[k], file>>]
  /\ hunk' = "overall"
  /\ UNCHANGED <<graph, answers, overall>>

\* compare_graph_selection, of one file.
AskFile ==
  /\ \E file \in Files : asked' = <<<<"", file>>>>
  /\ UNCHANGED <<graph, answers, hunk, overall>>

\* One lookup; without a graph it finds nothing and is reported as unresolved.
Lookup ==
  /\ asked # <<>>
  /\ asked' = Tail(asked)
  /\ answers' = Append(answers, IF graph = NoGraph THEN <<>>
                                ELSE Deduplicated(Relations(ApisOfLookup(Head(asked)))))
  /\ UNCHANGED <<graph, hunk, overall>>

BucketRank(b) == CASE b = "must_run" -> 3 [] b = "recommended" -> 2 [] b = "possible" -> 1
                   [] OTHER -> 0

Found == UNION {Range(answers[k]) : k \in DOMAIN answers}

\* _compute_overall_bucket
SumUp ==
  /\ asked = <<>> /\ hunk = "overall"
  /\ overall' = IF \E s \in Found : s.bucket = "must_run" THEN "must_run"
                ELSE IF \E s \in Found : s.bucket = "recommended" THEN "recommended"
                ELSE "possible"
  /\ hunk' = "summed"
  /\ UNCHANGED <<graph, asked, answers>>

-------------------------------------------------------------------------------
\* The gate's inputs that the graph has for a selection.
InputsOf(s) ==
  [source |-> s.source, consumer |-> s.consumer, coverage |-> s.coverage,
   usage |-> s.usage, kind |-> "component", onlyFallback |-> FALSE, onlyPathRule |-> FALSE,
   fanout |-> FALSE, noBetter |-> FALSE, blocked |-> FALSE]

\* What a lookup finds is the best that the graph has, and no more: every use of
\* an API that a changed symbol implements is of a pair of API and project that is
\* selected once, with a bucket as good as that use gives; the better buckets come
\* first; a test that must run passes the gate of model/buckets.py and has a
\* strong direct use in the graph; and a hunk has the bucket of its best test.
BestEvidenceIsSelected ==
  graph # NoGraph =>
    /\ \A k \in DOMAIN answers :
         /\ \A i, j \in DOMAIN answers[k] :
              i < j => /\ Pair(answers[k][i]) # Pair(answers[k][j])
                       /\ BucketRank(answers[k][i].bucket) >= BucketRank(answers[k][j].bucket)
         /\ \A s \in Range(answers[k]), use \in Range(graph.uses) :
              use.api = s.api =>
                \E t \in Range(answers[k]) :
                   /\ Pair(t) = <<use.api, graph.projectOf[use.consumer]>>
                   /\ BucketRank(t.bucket) >= BucketRank(Selection(use).bucket)
    /\ \A s \in Found :
         s.bucket = "must_run" =>
           /\ ViolatedRules(InputsOf(s)) = {}
           /\ \E use \in Range(graph.uses) :
                /\ use.api = s.api /\ graph.projectOf[use.consumer] = s.project
                /\ use.confidence = "strong" /\ use.evidence = "call"
    /\ hunk = "summed" =>
         /\ \A s \in Found : BucketRank(s.bucket) <= BucketRank(overall)
         /\ overall = "must_run" => \E s \in Found : s.bucket = "must_run"
===============================================================================
