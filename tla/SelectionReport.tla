--------------------------- MODULE SelectionReport ---------------------------
(* format_report (cli.py): each changed file and each symbol query is scored
   against the test projects; what is left after the filters is shown, and what is
   worth planning goes to the coverage planner with its rank.

   An item is [query, surface, shared, subject, lineage]: the subject is what its
   signals are taken from, surface the one its path or its words name ("both" when
   none), shared that the file is in a common directory or is a base of others.
   Nothing is kept from one item to the next but the lists of the report.      *)
EXTENDS Scoring

CONSTANTS
  Corpora,       \* the sequences of projects on disk, in the order of their names
  Items,         \* the sequences of changed files and queries, the files first
  Options,       \* [variants, relevance, keep, top], 0 when there is no limit
  MinScore,      \* COVERAGE_MIN_SCORE
  BroadFamilies, \* a shared file with this many families ...
  Flood,         \* ... and more projects than this is broad
  CommonPaths    \* the tokens of the paths of suites about common attributes

VARIABLES
  projects, options,   \* of this run
  pending,       \* items still to do
  results,       \* the results so far
  planned        \* coverage_candidates: [item, project, rank]

reportVars == <<projects, options, pending, results, planned>>

Surfaces == {"static", "dynamic"}
Modes(mode) == IF mode \in Surfaces THEN {mode} ELSE Surfaces

\* variant_matches
VariantMatches(p, mode) ==
  mode \in {"auto", "both"} \/ p.variant = "both" \/ (p.variant # "unknown" /\ p.variant = mode)

\* ensure_project_search_summary: what all files of a project have.
InFiles(p, Part(_)) == UNION {Part(p.files[k]) : k \in DOMAIN p.files}
Names(p) == InFiles(p, LAMBDA f : f.imported \cup f.calls \cup Owners(f.typeCalls))
Pairs(p) == InFiles(p, LAMBDA f : f.typeCalls \cup f.fields)

\* project_matches_exact_api_prefilter
MatchesExact(p, s) ==
  \/ (s.members \cup s.exact) \cap Pairs(p) # {}
  \/ \E api \in s.exact : api[1] \in Names(p) /\ api[2] \in InFiles(p, LAMBDA f : f.members)

\* project_might_match
MightMatch(p, s) ==
  LET fieldOwners == InFiles(p, LAMBDA f : Owners(f.fields))
      called == InFiles(p, LAMBDA f : f.members)
      words == InFiles(p, LAMBDA f : f.words)
  IN \/ s.modules \cap InFiles(p, LAMBDA f : f.modules) # {}
     \/ s.hints \cap (p.path \cup InFiles(p, LAMBDA f : f.path) \cup words) # {}
     \/ s.methods \cap called # {}
     \/ s.types \cap (Names(p) \cup fieldOwners) # {}
     \/ s.symbols \cap (Names(p) \cup called \cup fieldOwners \cup words) # {}
     \/ \E n \in s.symbols : Bare[n] # n /\ Bare[n] \in InFiles(p, LAMBDA f : f.bases)
     \/ s.weakSymbols \cap InFiles(p, LAMBDA f : f.calls) # {}

\* select_candidate_projects: those that use the very API, else those that might
\* match, else all of the variant.
FirstNotEmpty(sets) ==
  LET full == {k \in DOMAIN sets : sets[k] # {}} IN IF full = {} THEN {} ELSE sets[Min(full)]

Candidates(s, mode) ==
  LET variant == {k \in DOMAIN projects : VariantMatches(projects[k], mode)}
      exact == {k \in variant : s.exact # {} /\ MatchesExact(projects[k], s)}
  IN FirstNotEmpty(<<exact, {k \in variant : MightMatch(projects[k], s)}, variant>>)

\* The signals with the symbols that are common among the candidates.
Weighed(s, among, query) ==
  LET list == SetToSeq(among)
      common == CommonSymbols([k \in DOMAIN list |-> projects[list[k]]], s)
  IN [s EXCEPT !.common = common, !.commonTypes = IF query THEN {} ELSE common]

MatchedSurfaces(p, hits) == {f.surface : f \in HitFiles(p, hits)} \cap Surfaces

\* should_keep_project_for_surface
KeepForSurface(p, hits, mode) ==
  MatchedSurfaces(p, hits) = {} \/ MatchedSurfaces(p, hits) \cap Modes(mode) # {}

\* project_entry_primary_surfaces
PrimarySurfaces(p, hits) ==
  IF MatchedSurfaces(p, hits) # {} THEN MatchedSurfaces(p, hits)
  ELSE IF p.variant = "unknown" THEN {} ELSE Modes(p.variant)

\* project_entry; only possible tests are ever duplicates of each other.
PlainEntry(k, p, s, hits, score, bucket, specificity) ==
  [project |-> k, score |-> score, bucket |-> bucket,
   scope |-> Scope(specificity, Len(hits)), specific |-> Max({0, specificity.score}),
   signature |-> IF bucket = "possible related" THEN <<Signature(p, s, hits)>> ELSE <<>>,
   types |-> DirectTypes(p, s, hits), direct |-> HasDirectHints(p, s, hits),
   members |-> UsedMembers(p, s, hits), families |-> Families(p, s, hits),
   surfaces |-> PrimarySurfaces(p, hits)]

WithHits(k, p, s, hits) ==
  PlainEntry(k, p, s, hits, ScoreProject(p, s, hits),
    GatedBucket(ScoreProject(p, s, hits), NonLexical(p, s, hits), HasDirectHints(p, s, hits)),
    Specificity(p, s, hits))
ProjectEntry(k, s) == WithHits(k, projects[k], s, FileHits(projects[k], s))

Scored(s, among, mode) ==
  {e \in {ProjectEntry(k, s) : k \in among} :
     e.score > 0 /\ KeepForSurface(projects[e.project], FileHits(projects[e.project], s), mode)}

\* A shared file that is about many families and finds many projects keeps only
\* those with direct evidence.
Abstained(item, s, entries) ==
  IF /\ item.shared /\ Cardinality(s.families) >= BroadFamilies
     /\ Cardinality(entries) > Flood
  THEN {e \in entries : e.direct}
  ELSE entries

-------------------------------------------------------------------------------
\* project_result_sort_tuple; SortKeys are compared from the left.
ScopeOrder == [direct |-> 0, focused |-> 1, broad |-> 2]
RankOfBucket(b) ==
  CASE b = "must-run" -> 0 [] b = "high-confidence related" -> 1
    [] b = "possible related" -> 2 [] OTHER -> 99

SortKey(e) ==
  <<ScopeOrder[e.scope], RankOfBucket(e.bucket), -e.specific, -e.score, e.project>>

Before(d, e) ==
  LET a == SortKey(d)
      b == SortKey(e)
  IN \E k \in DOMAIN a : a[k] < b[k] /\ \A j \in 1..(k - 1) : a[j] = b[j]

SortProjectResults(entries) == SetToSortSeq(entries, Before)

\* deduplicate_by_coverage_signature
Duplicates(ranked, k) == {j \in 1..(k - 1) : ranked[j].signature = ranked[k].signature}

\* Mutant: what has no signature is taken for a duplicate as well.
DeduplicateAll(ranked) ==
  LET stays == {k \in DOMAIN ranked :
                  options.keep = 0 \/ Cardinality(Duplicates(ranked, k)) < options.keep}
      order == SetToSortSeq(stays, <)
  IN [k \in DOMAIN order |-> ranked[order[k]]]

Deduplicate(ranked) ==
  LET stays == {k \in DOMAIN ranked :
                  \/ options.keep = 0 \/ ranked[k].signature = <<>>
                  \/ Cardinality(Duplicates(ranked, k)) < options.keep}
      order == SetToSortSeq(stays, <)
  IN [k \in DOMAIN order |-> ranked[order[k]]]

Allowed ==
  [all |-> {"must-run", "high-confidence related", "possible related"},
   balanced |-> {"must-run", "high-confidence related"}, strict |-> {"must-run"}]

\* filter_project_results_by_relevance
Relevant(list) == SelectSeq(list, LAMBDA e : e.bucket \in Allowed[options.relevance])

Top(list) == IF options.top = 0 THEN list ELSE SubSeq(list, 1, Min({options.top, Len(list)}))

\* restrict_explicit_surface_projects: of a query that names its surface.
RestrictSurface(list, surface) ==
  LET exclusive == SelectSeq(list, LAMBDA e : e.surfaces = {surface})
      supporting == SelectSeq(list, LAMBDA e : surface \in e.surfaces)
  IN IF surface \notin Surfaces THEN list
     ELSE IF exclusive # <<>> THEN exclusive
     ELSE IF supporting # <<>> THEN supporting ELSE list

\* diversify_symbol_query_projects: a surface that no shown project is for takes the
\* last place that is not replaced yet.
Replacement(list, shown, surface) ==
  LET rest == SelectSeq(list, LAMBDA e : \A k \in DOMAIN shown : shown[k].project # e.project)
      exclusive == SelectSeq(rest, LAMBDA e : e.surfaces = {surface})
      supporting == SelectSeq(rest, LAMBDA e : surface \in e.surfaces)
  IN IF \E k \in DOMAIN shown : shown[k].surfaces = {surface} THEN <<>>
     ELSE IF exclusive # <<>> THEN exclusive ELSE supporting

Diversify(list) ==
  LET shown == Top(list)
      static == Replacement(list, shown, "static")
      first == IF static = <<>> THEN shown ELSE [shown EXCEPT ![Len(shown)] = static[1]]
      dynamic == Replacement(list, first, "dynamic")
      place == IF static = <<>> THEN Len(shown) ELSE Len(shown) - 1
  IN IF Len(shown) < 2 THEN shown
     ELSE IF dynamic = <<>> THEN first ELSE [first EXCEPT ![place] = dynamic[1]]

-------------------------------------------------------------------------------
\* What is said of the coverage of an API by the projects left.
CoversDirectly(e, api) == OwnerOf[api[1]] \in e.types \/ api \in e.members
OfFamily(e, api) == OwnerOf[api[1]] \in e.families

\* Mutant: a project of the family is asked before one that uses the API.
FamilyFirst(api, list, lineage) ==
  IF \E k \in DOMAIN list : OfFamily(list[k], api) THEN "indirectly_covered"
  ELSE IF \E k \in DOMAIN list : CoversDirectly(list[k], api) THEN "covered"
  ELSE "not_covered"

\* _build_coverage_gap_report
GapClass(api, list, lineage) ==
  IF \E k \in DOMAIN list : CoversDirectly(list[k], api) THEN "covered"
  ELSE IF \E k \in DOMAIN list : OfFamily(list[k], api) THEN "indirectly_covered"
  ELSE IF lineage.known /\ api \notin lineage.consumed THEN "unresolved"
  ELSE "not_covered"

Gap(apis, list, lineage) == [api \in apis |-> GapClass(api, list, lineage)]

\* build_function_coverage_rows: by the types alone, whatever members are used.
FunctionRow(symbol, apis, list) ==
  LET direct == {api \in apis : \E k \in DOMAIN list : OwnerOf[api[1]] \in list[k].types}
      indirect == {api \in apis \ direct : \E k \in DOMAIN list : OfFamily(list[k], api)}
  IN [symbol |-> symbol, direct |-> direct, indirect |-> indirect,
      uncovered |-> apis \ (direct \cup indirect),
      status |-> IF apis = {} THEN "unresolved"
                 ELSE IF direct # {} THEN "covered"
                 ELSE IF indirect # {} THEN "indirectly_covered" ELSE "not_covered"]

FunctionRows(lineage, list) ==
  LET symbols == lineage.symbols
  IN IF symbols # <<>>
     THEN [k \in DOMAIN symbols |-> FunctionRow(symbols[k].name, symbols[k].apis, list)]
     ELSE IF lineage.apis = {} THEN <<>>
     ELSE <<FunctionRow("file level", lineage.apis, list)>>

\* broad_common_overmatch: a content modifier that only common suites match.
Overmatched(s, list) ==
  LET top == 1..Min({5, Len(list)})
      path == [k \in top |-> projects[list[k].project].path]
  IN /\ "contentmodifier" \in s.hints \cup s.symbols
     /\ Cardinality(s.families) >= 5
     /\ Cardinality({k \in top : path[k] \cap CommonPaths # {}}) >= Min({3, Cardinality(top)})
     /\ \A k \in top : "contentmodifier" \notin path[k]

\* build_unresolved_analysis: the best score is that of the entry that is first.
UnresolvedReason(s, list, lineage) ==
  IF list = <<>>
  THEN IF AffectedApis(lineage) # {} THEN "consumer_evidence_gap"
       ELSE IF lineage.symbols # <<>> THEN "lineage_gap" ELSE "no_matches"
  ELSE IF list[1].score < 12 THEN "weak_signal"
  ELSE IF Overmatched(s, list) THEN "broad_common_overmatch" ELSE "none"

-------------------------------------------------------------------------------
\* parse_test_file, which discover_projects and the rebuilding of the cache call without
\* the path that it would keep as relative_path.
ParseTestFile(f) == [f EXCEPT !.path = {}]

DiscoverProjects(corpus) ==
  [k \in DOMAIN corpus |->
     [corpus[k] EXCEPT !.files = [j \in DOMAIN @ |-> ParseTestFile(@[j])]]]

ReportInit ==
  /\ projects \in {DiscoverProjects(corpus) : corpus \in Corpora}
  /\ pending \in Items /\ options \in Options
  /\ results = <<>> /\ planned = {}

\* resolve_variants_mode, and the surface that a query names.
EffectiveMode(item) == IF options.variants = "auto" THEN item.surface ELSE options.variants

PlanFor(n, list, worth) ==
  {[item |-> n, project |-> list[k].project, rank |-> k] : k \in worth}

\* One changed file: scored, filtered, shown, planned when the score is worth it.
FileResult(item, s, mode, ranked, kept, list) ==
  /\ results' = Append(results,
       [item |-> item, signals |-> s, mode |-> mode, ranked |-> ranked,
        kept |-> kept, shown |-> Top(list),
        gap |-> Gap(AffectedApis(item.lineage), list, item.lineage),
        functions |-> FunctionRows(item.lineage, list),
        unresolved |-> UnresolvedReason(s, kept, item.lineage)])
  /\ planned' = planned \cup
       PlanFor(Len(results) + 1, list, {k \in DOMAIN list : list[k].score >= MinScore})

\* One symbol query: whatever is left is planned, whatever its score.
QueryResult(item, s, mode, ranked, kept, list) ==
  /\ results' = Append(results,
       [item |-> item, signals |-> s, mode |-> mode, ranked |-> ranked,
        kept |-> kept, shown |-> IF mode = "both" THEN Diversify(list) ELSE Top(list),
        gap |-> <<>>, functions |-> <<>>, unresolved |-> "none"])
  /\ planned' = planned \cup PlanFor(Len(results) + 1, list, DOMAIN list)

\* In both, \E x \in {e} names the value e.
AnalyzeFile ==
  /\ pending # <<>> /\ ~ Head(pending).query
  /\ LET item == Head(pending)
         mode == EffectiveMode(item)
     IN \E raw \in {ApplyLineage(InferSignals(item.subject), item.lineage)} :
        \E among \in {Candidates(raw, mode)} :
        \E s \in {Weighed(raw, among, FALSE)} :
        \E ranked \in {SortProjectResults(Abstained(item, s, Scored(s, among, mode)))} :
        \E kept \in {Deduplicate(ranked)} :
        \E list \in {Relevant(kept)} : FileResult(item, s, mode, ranked, kept, list)
  /\ pending' = Tail(pending)
  /\ UNCHANGED <<projects, options>>

AnalyzeQuery ==
  /\ pending # <<>> /\ Head(pending).query
  /\ LET item == Head(pending)
         mode == EffectiveMode(item)
     IN \E raw \in {QuerySignals(item.subject)} :
        \E among \in {Candidates(raw, mode)} :
        \E s \in {Weighed(raw, among, TRUE)} :
        \E ranked \in {SortProjectResults(Scored(s, among, mode))} :
        \E kept \in {Deduplicate(ranked)} :
        \E list \in {RestrictSurface(Relevant(kept), item.surface)} :
          QueryResult(item, s, mode, ranked, kept, list)
  /\ pending' = Tail(pending)
  /\ UNCHANGED <<projects, options>>

ReportNext == AnalyzeFile \/ AnalyzeQuery
ReportSpec == ReportInit /\ [][ReportNext]_reportVars

-------------------------------------------------------------------------------
PlannedOf(n) == {x.project : x \in {y \in planned : y.item = n}}

\* A project that must run for a change, as its own files say, reaches the planner
\* under every filter: the shortlist, the abstention of shared files, the removal of
\* duplicates, the relevance mode and the number shown never lose it.  Left aside: the
\* shortlist of the very API, the surface asked for, and a query that names one.
\* What is shown and has a score worth planning is planned too.
MustRunIsPlanned ==
  \A n \in DOMAIN results :
    LET r == results[n]
        s == r.signals
        Fits(k) ==
          /\ VariantMatches(projects[k], r.mode)
          /\ KeepForSurface(projects[k], FileHits(projects[k], s), r.mode)
          /\ \/ s.exact = {} \/ MatchesExact(projects[k], s)
             \/ \A j \in DOMAIN projects :
                  VariantMatches(projects[j], r.mode) => ~ MatchesExact(projects[j], s)
    IN /\ \/ r.item.query /\ r.item.surface # "both"
          \/ {k \in DOMAIN projects : Fits(k) /\ ProjectEntry(k, s).bucket = "must-run"} \subseteq PlannedOf(n)
       /\ {r.shown[k].project : k \in {j \in DOMAIN r.shown : r.shown[j].score >= MinScore}}
            \subseteq PlannedOf(n)

\* Removing duplicates loses no evidence: an API that a project covered directly is
\* still covered directly by one that was kept.
DedupKeepsCoverage ==
  \A n \in DOMAIN results :
    LET r == results[n]
    IN \A api \in AffectedApis(r.item.lineage) :
         (\E k \in DOMAIN r.ranked : CoversDirectly(r.ranked[k], api))
           => \E k \in DOMAIN r.kept : CoversDirectly(r.kept[k], api)

\* The two tables of one result that say what is covered do not contradict each
\* other: what a function's row takes for covered is not in the gap of the APIs, and
\* what the gap has only indirectly is nowhere direct or uncovered.
GapAgreesWithFunctions ==
  \A n \in DOMAIN results : \A k \in DOMAIN results[n].functions :
    LET row == results[n].functions[k]
        gap == results[n].gap
    IN /\ \A api \in row.direct : gap[api] = "covered"
       /\ \A api \in row.indirect : gap[api] \in {"covered", "indirectly_covered"}
       /\ \A api \in row.uncovered : gap[api] # "indirectly_covered"

\* What a result says of the coverage survives its filters and its own tables.
CoverageIsTold == DedupKeepsCoverage /\ GapAgreesWithFunctions

\* What the documents say of a symbol that more than 30% of the candidates import: a
\* project that has the symbol in its path still gets the full points for using it.
PathKeepsFullPoints ==
  \A n \in DOMAIN results : \A k \in DOMAIN results[n].ranked :
    LET s == results[n].signals
        p == projects[results[n].ranked[k].project]
        reduced == {"soft imports symbol", "soft calls"}
    IN \A r \in FirstReasons(p, s, FileHits(p, s), 3) :
         r[1] \in reduced => \A name \in r[2] : Bare[name] \notin p.path
===============================================================================
