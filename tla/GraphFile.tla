------------------------------ MODULE GraphFile ------------------------------
(* Where the graph of the queries comes from: the graphs of graph/adapters.py, made for
   the tests, and the file that scripts/build_api_graph.py makes of the SDK, of what
   the test sources use and of the map of lineage; the graph itself, its rules
   (graph/schema.py, graph/validation.py) and its way into the file and out of it; and
   the query for the name of an API (graph/resolver.py).

   Names and paths are numbers, in the order of the texts; ApiName and SourceName have
   the texts that are asked for, and Lower the names in lower case.          *)
EXTENDS GraphSelection

CONSTANTS
  ApiName,         \* the names of the components that the SDK declares
  SourceName,      \* the paths of the engine files
  Lower,          \* Lower[name]: the name in lower case
  Committed,       \* the graph of tests/fixtures/graphs/button_graph.json
  Requests,        \* what a graph may be made from
  ScannedFiles, SourcesPerApi,   \* 500 files and 5 sources for each API
  QueryNames,      \* the names of APIs asked for
  NoRequestMade,
  KnownComponents, KnownEnums,     \* KNOWN_ARKUI_COMPONENTS, KNOWN_ARKUI_ENUMS
  EventMethods, AttributeMethods   \* _EVENT_METHODS, _ATTRIBUTE_METHODS

VARIABLES
  request, made,   \* the request and the graph made of it so far
  making,          \* what is made next, "none" when nothing is under way
  gaps,            \* the coverage gaps that the builder writes beside the graph
  apiAnswer        \* the answer to the query for a name, <<>> before it

makingVars == <<request, made, making, gaps, apiAnswer>>

-------------------------------------------------------------------------------
\* What the test sources use, by their text (xts_usage_index.py), which projects can
\* run (runnability_map.py), and how well a use stands for an API
\* (coverage_equivalence.py).
(* A test source is [path, root, ext, lines]: its number, the number of the directory
   below the root of all tests that it is in, and its lines.  A line is [kind, chain,
   enums, components, methods]: "code", "blank", "comment" (//) or "block" (a line of a
   block comment); whether it begins with a call of a method on the line before; and the
   names before a dot and a name, before a bracket, and of the methods called.  A source
   that cannot be read has no lines.  The code takes at most one entry of each name and
   kind from a line, which is what a set of entries is.                         *)
LookAhead == 5
Extensions == <<"ets", "ts", "js">>

\* A component is surely made when a chain of calls follows it; a block comment in
\* between breaks the chain, a line comment does not.
FollowedByChain(lines, n) ==
  \E k \in (n + 1)..(n + LookAhead) :
    /\ k <= Len(lines) /\ lines[k].kind = "code" /\ lines[k].chain
    /\ \A j \in (n + 1)..(k - 1) : lines[j].kind \in {"blank", "comment"}

UseEntry(source, n, api, kind, confidence) ==
  [api |-> api, kind |-> kind, project |-> source.root, path |-> source.path, line |-> n,
   confidence |-> confidence]

\* _scan_file, without the duplicates that _deduplicate removes.
EntriesOfLine(source, n) ==
  LET line == source.lines[n]
      surely == IF FollowedByChain(source.lines, n) THEN "strong" ELSE "medium"
      events == line.methods \cap EventMethods
  IN IF line.kind # "code" THEN {}
     ELSE {UseEntry(source, n, e, "enum_or_config", "strong") : e \in line.enums \cap KnownEnums}
       \cup {UseEntry(source, n, c, "component_creation", surely) : c \in line.components \cap KnownComponents}
       \cup {UseEntry(source, n, m, "event_or_method", "medium") : m \in events}
       \cup {UseEntry(source, n, m, "attribute", "medium") : m \in (line.methods \cap AttributeMethods) \ events}

\* build_usage_index: the sources of each extension in turn, the first "most" of them.
ScannedSources(sources, most) ==
  LET Of(ext) == LET Has(s) == s.ext = ext IN SelectSeq(sources, Has)
      all == FlattenSeq([k \in DOMAIN Extensions |-> Of(Extensions[k])])
  IN IF Len(all) > most THEN SubSeq(all, 1, most) ELSE all
UsageEntries(sources, most) ==
  LET scanned == ScannedSources(sources, most)
  IN UNION {UNION {EntriesOfLine(scanned[k], n) : n \in DOMAIN scanned[k].lines}
              : k \in DOMAIN scanned}

-------------------------------------------------------------------------------
\* build_runnability_map, of projects [root, marked, files] with the whole path of
\* their directories as roots: marked to be skipped, and with or without test files.
Status(project, configured) ==
  IF ~ configured THEN "unknown"
  ELSE IF project.marked THEN "disabled"
  ELSE IF project.files THEN "runnable" ELSE "unknown"
RunnabilityMap(projects, configured) ==
  [root \in {p.root : p \in projects} |->
     Status(CHOOSE p \in projects : p.root = root, configured)]

\* get_runnability_state
StateOf(root, map) == IF root \in DOMAIN map THEN map[root] ELSE "missing_target"

\* derive_coverage_equivalences: the directory of a use is looked up as if it were
\* the root of its project; without an entry nothing is known of it.
ExactKinds == {"component_creation", "attribute", "event_or_method"}
(* Variant: a strong use is taken for exact whether or not its project can run. *)
WithoutStatus(entry, map) ==
  CASE entry.kind \notin ExactKinds \/ entry.confidence # "strong" -> "indirect"
    [] OTHER -> "exact"
KnownToRun(root, map) == root \in DOMAIN map /\ map[root] = "runnable"
Equivalence(entry, map) ==
  CASE entry.kind = "unknown" \/ entry.confidence = "weak" -> "unknown"
    [] entry.kind \notin ExactKinds \/ entry.confidence # "strong" -> "indirect"
    [] KnownToRun(<<entry.project>>, map) -> "exact"
    [] OTHER -> "partial"

\* max_allowed_bucket of both, and combined_max_bucket.
LevelBucket(level) ==
  CASE level = "exact" -> "must_run" [] level \in {"partial", "indirect"} -> "recommended"
    [] OTHER -> "possible"
StatusBucket(status) == IF status = "runnable" THEN "must_run" ELSE "possible"
CombinedBucket(level, status) ==
  IF "possible" \in {LevelBucket(level), StatusBucket(status)} THEN "possible"
  ELSE IF "recommended" \in {LevelBucket(level), StatusBucket(status)} THEN "recommended"
  ELSE "must_run"

-------------------------------------------------------------------------------
\* graph/schema.py.  Two nodes or two edges with one id are refused.
EdgeTypes ==    \* in the order of the texts, in which the ids of edges begin with them
  <<"backs_component", "belongs_to_project", "bridges_dynamic", "declares", "depends_on",
    "fanout_accessor", "implements", "maps_to_target", "produces_artifact",
    "provides_static_modifier", "uses_api", "wraps">>

EmptyGraph == [nodes |-> <<>>, edges |-> <<>>, raised |-> FALSE]

AddNode(g, node) ==
  IF node.id \in DOMAIN g.nodes THEN [g EXCEPT !.raised = TRUE]
  ELSE [g EXCEPT !.nodes = (node.id :> node) @@ @]
AddEdge(g, edge) ==
  IF edge.id \in DOMAIN g.edges THEN [g EXCEPT !.raised = TRUE]
  ELSE [g EXCEPT !.edges = (edge.id :> edge) @@ @]

Node(type, n) == [id |-> <<type, n>>, names |-> {}, kind |-> ""]
ApiNode(n, names, kind) == [id |-> <<"api_entity", n>>, names |-> names, kind |-> kind]

\* The id of an edge is its type and the two parts of its name.
Edge(id, from, to) ==
  [id |-> id, type |-> id[1], from |-> from, to |-> to, provenance |-> "parser",
   symbol |-> "", located |-> TRUE, source |-> "unknown", consumer |-> "unknown",
   run |-> "unknown", generic |-> FALSE, rule |-> "", level |-> 2]

GraphOf(nodes, edges) ==
  FoldLeft(AddEdge, FoldLeft(AddNode, EmptyGraph, nodes), edges)

TypeBefore(a, b) ==
  \E i, j \in DOMAIN EdgeTypes : i < j /\ EdgeTypes[i] = a /\ EdgeTypes[j] = b
IdBefore(x, y) ==
  \/ TypeBefore(x[1], y[1])
  \/ x[1] = y[1] /\ x[2] < y[2]
  \/ x[1] = y[1] /\ x[2] = y[2] /\ x[3] < y[3]

\* to_dict: the edges in the order of their ids.
Sorted(g) ==
  LET ids == FoldSet(LAMBDA id, list : Append(list, id), <<>>, DOMAIN g.edges)
      order == SortSeq(ids, IdBefore)
  IN [k \in DOMAIN order |-> g.edges[order[k]]]

OfType(g, type) == {e \in {g.edges[id] : id \in DOMAIN g.edges} : e.type = type}
ApisIn(g) == {id[2] : id \in {x \in DOMAIN g.nodes : x[1] = "api_entity"}}

\* from_dict and what the queries take from the edges.
EvidenceKind(edge) ==
  CASE edge.provenance = "parser" /\ edge.symbol # "" -> "call"
    [] edge.provenance \in {"import", "config_rule"} -> edge.provenance [] OTHER -> "other"
AsRead(g) ==
  LET edges == Sorted(g)
      IsUse(e) == e.type = "uses_api"
      IsSource(e) == e.type \in {"provides_static_modifier", "implements", "backs_component"}
                       /\ e.to[1] = "api_entity"
      uses == SelectSeq(edges, IsUse)
      sources == SelectSeq(edges, IsSource)
      IsHome(e) == e.type = "belongs_to_project"
      homes == SelectSeq(edges, IsHome)
      HomeOf(c) == LET OfConsumer(e) == e.from = c IN SelectSeq(homes, OfConsumer)
  IN [uses |-> [k \in DOMAIN uses |->
        [consumer |-> uses[k].from, api |-> uses[k].to[2], confidence |-> uses[k].consumer,
         evidence |-> EvidenceKind(uses[k])]],
      sources |-> [k \in DOMAIN sources |->
        [file |-> SourceName[sources[k].from[2]], symbol |-> sources[k].symbol,
         api |-> sources[k].to[2], type |-> sources[k].type, confidence |-> sources[k].source]],
      projectOf |-> [c \in {e.from : e \in OfType(g, "uses_api")} |->
                       IF HomeOf(c) = <<>> THEN NoProject ELSE HomeOf(c)[1].to[2]],
      runnable |-> {e.from[2] : e \in {x \in OfType(g, "maps_to_target") : x.run = "strong"}},
      apis |-> [a \in ApisIn(g) |-> g.nodes[<<"api_entity", a>>].names]]

-------------------------------------------------------------------------------
\* validate_graph: the rules that an edge breaks.  That two nodes have one canonical id
\* is excluded here: it is their id in the graph.  A function counts as a symbol.
EdgeErrors(g, e) ==
  (IF e.from \notin DOMAIN g.nodes THEN {"missing_from_node"} ELSE {})
    \cup (IF e.to \notin DOMAIN g.nodes THEN {"missing_to_node"} ELSE {})
    \cup (IF /\ e.type = "declares" /\ e.to \in DOMAIN g.nodes
             /\ e.to[1] = "api_entity" /\ g.nodes[e.to].kind = ""
          THEN {"api_entity_without_kind"} ELSE {})
    \cup (IF /\ e.type = "produces_artifact" \/ e.provenance = "artifact"
             /\ e.source # "unknown" \/ e.consumer # "unknown"
          THEN {"artifact_as_semantic_evidence"} ELSE {})
    \cup (IF e.type = "fanout_accessor" /\ ~ e.generic THEN {"fanout_missing_generic"} ELSE {})
    \cup (IF e.provenance = "config_rule" /\ e.rule = "" THEN {"config_rule_missing_id"} ELSE {})
    \cup (IF /\ e.type = "uses_api" /\ e.consumer = "strong"
             /\ ~ e.located /\ e.symbol = ""
             /\ e.provenance \notin {"parser", "import", "config_rule"}
          THEN {"strong_uses_api_no_evidence"} ELSE {})
EdgeWarnings(e) ==
  IF e.provenance = "parser" /\ ~ e.located THEN {"parser_missing_source_file"} ELSE {}

IsValid(g) == \A id \in DOMAIN g.edges : EdgeErrors(g, g.edges[id]) = {}

\* validate_must_run_candidate
CandidateErrors(inputs, levels) ==
  (IF levels = {0} THEN {"must_run_parser_level_zero"} ELSE {}) \cup ViolatedRules(inputs)

-------------------------------------------------------------------------------
\* graph/adapters.py.  The way from an engine file by a modifier to a test that
\* uses it; d is [source, family, sdk, consumer, project, target, artifact], 0 for none.
EngineFile(n) == <<"engine_file", n>>
Api(n) == <<"api_entity", n>>

StaticNodes(d) ==
  <<Node("engine_file", d.source), Node("sdk_declaration", d.sdk),
    ApiNode(1, {"ButtonModifier"}, "modifier")>>
    \o (IF d.family = 0 THEN <<>> ELSE <<Node("component_family", d.family)>>)
    \o <<Node("api_surface", 1), Node("consumer_file", d.consumer),
         Node("consumer_project", d.project), Node("runnable_target", d.target)>>
    \o (IF d.artifact = 0 THEN <<>> ELSE <<Node("build_artifact", d.artifact)>>)

Uses(d) ==
  [Edge(<<"uses_api", d.consumer, d.sdk>>, <<"consumer_file", d.consumer>>, Api(1)) EXCEPT
     !.symbol = "ButtonModifier", !.consumer = "strong"]

Belongs(n, consumer, project) ==
  [Edge(<<"belongs_to_project", n, 0>>, <<"consumer_file", consumer>>,
        <<"consumer_project", project>>) EXCEPT
     !.run = "strong"]
MapsTo(project, target) ==
  [Edge(<<"maps_to_target", target, 0>>, <<"consumer_project", project>>,
        <<"runnable_target", target>>) EXCEPT
     !.run = "strong", !.level = 1, !.provenance = "artifact", !.located = FALSE]

StaticEdges(d) ==
  <<[Edge(<<"provides_static_modifier", d.source, 0>>, EngineFile(d.source), Api(1)) EXCEPT
       !.symbol = "ButtonModifier", !.source = "strong"],
    [Edge(<<"declares", 0, d.sdk>>, <<"sdk_declaration", d.sdk>>, Api(1)) EXCEPT !.level = 3]>>
    \o (IF d.family = 0 THEN <<>>
        ELSE <<[Edge(<<"backs_component", 0, d.family>>, EngineFile(d.source),
                     <<"component_family", d.family>>) EXCEPT !.source = "strong"]>>)
    \o <<Uses(d), Belongs(d.project, d.consumer, d.project), MapsTo(d.project, d.target)>>
    \o (IF d.artifact = 0 THEN <<>>
        ELSE <<[Edge(<<"produces_artifact", d.target, 0>>, <<"runnable_target", d.target>>,
                     <<"build_artifact", d.artifact>>) EXCEPT
                  !.run = "strong", !.level = 1, !.provenance = "artifact", !.located = FALSE]>>)

StaticGraph(d) == GraphOf(StaticNodes(d), StaticEdges(d))

\* The negative control: the same, with the target that is the default, but the test
\* only imports the modifier.
WithoutEdge(g, id) == [g EXCEPT !.edges = [x \in DOMAIN g.edges \ {id} |-> g.edges[x]]]
ImportOnlyGraph(d) ==
  AddEdge(WithoutEdge(StaticGraph([d EXCEPT !.target = 1, !.artifact = 1]), Uses(d).id),
          [Uses(d) EXCEPT !.provenance = "import", !.consumer = "medium"])

\* One accessor for the content modifiers of all families (1 the shared one, 2 of the
\* button, 3 of the list); there is a test for the button alone.
FanoutNodes ==
  <<Node("engine_file", 1), Node("component_family", 1), Node("component_family", 2),
    ApiNode(2, {"contentModifier", "Button.contentModifier"}, "modifier"),
    ApiNode(3, {"contentModifier", "List.contentModifier"}, "modifier"),
    ApiNode(1, {"contentModifier", "contentModifier (shared)"}, "modifier"),
    Node("consumer_file", 1), Node("consumer_file", 2),
    Node("consumer_project", 1), Node("runnable_target", 1)>>

FromAccessor(id, to) ==
  [Edge(id, EngineFile(1), to) EXCEPT !.symbol = "contentModifier", !.source = "medium", !.generic = TRUE]
BacksFamily(n) ==
  [Edge(<<"backs_component", 0, n>>, EngineFile(1), <<"component_family", n>>) EXCEPT
     !.source = "medium"]
FanoutEdges ==
  <<FromAccessor(<<"provides_static_modifier", 0, 1>>, Api(2)),
    FromAccessor(<<"provides_static_modifier", 0, 2>>, Api(3)),
    FromAccessor(<<"fanout_accessor", 0, 1>>, Api(1)), BacksFamily(1), BacksFamily(2),
    [Edge(<<"uses_api", 1, 0>>, <<"consumer_file", 1>>, Api(2)) EXCEPT
       !.symbol = "contentModifier", !.consumer = "strong"],
    Belongs(1, 1, 1), Belongs(2, 2, 1), MapsTo(1, 1)>>

FanoutGraph == GraphOf(FanoutNodes, FanoutEdges)

-------------------------------------------------------------------------------
\* scripts/build_api_graph.py
Ensure(g, node) == IF node.id \in DOMAIN g.nodes THEN g ELSE AddNode(g, node)
EnsureEdge(g, edge) == IF edge.id \in DOMAIN g.edges THEN g ELSE AddEdge(g, edge)

\* _build_from_lineage, of the declarations [path, api, skipped] in their order; the
\* name to filter by is taken in any case.
Declarations(r) ==
  LET Wanted(f) == ~ f.skipped /\ (r.filter = "" \/ Lower[r.filter] = Lower[ApiName[f.api]])
      wanted == SelectSeq(r.sdk, Wanted)
  IN IF Len(wanted) > r.limit THEN SubSeq(wanted, 1, r.limit) ELSE wanted
Declare(g, f) ==
  LET sdk == Node("sdk_declaration", f.path)
      api == ApiNode(f.api, {ApiName[f.api]}, "component")
      edge == [Edge(<<"declares", 0, f.api>>, sdk.id, api.id) EXCEPT !.level = 3]
  IN Ensure(EnsureEdge(Ensure(Ensure(g, sdk), api), edge), Node("component_family", f.api))

\* _enrich_with_xts_usage: the uses by a project, one for each API.
(* Variant: a component that is made without a chain of calls counts too. *)
AnyCreation(entry) == entry.kind = "component_creation"
SureUse(entry) == entry.kind = "component_creation" /\ entry.confidence = "strong"
AddUse(entry, g) ==
  IF ~ SureUse(entry) \/ \A a \in ApisIn(g) : ApiName[a] # entry.api THEN g
  ELSE LET project == Node("consumer_project", entry.project)
           api == CHOOSE a \in ApisIn(g) : ApiName[a] = entry.api
       IN EnsureEdge(Ensure(g, project),
            [Edge(<<"uses_api", entry.project, api>>, project.id, Api(api)) EXCEPT
               !.provenance = "fallback_heuristic", !.consumer = "medium", !.level = 1])

\* _enrich_with_ace_engine, from the map of lineage: the first sources of each API.
AddSource(pair, g) ==
  EnsureEdge(Ensure(g, Node("engine_file", pair[1])),
    [Edge(<<"implements", pair[1], pair[2]>>, EngineFile(pair[1]), Api(pair[2])) EXCEPT
       !.provenance = "path_rule", !.source = "medium"])
FirstSources(sources) ==
  {s \in sources : Cardinality({t \in sources : t < s}) < SourcesPerApi}
AddSources(g, lineage) ==
  FoldSet(AddSource, g,
    UNION {FirstSources(lineage[a]) \X {a} : a \in ApisIn(g) \cap DOMAIN lineage})

\* _find_coverage_gaps
GapsOf(g) == ApisIn(g) \ {e.to[2] : e \in OfType(g, "uses_api")}

-------------------------------------------------------------------------------
MakingInit ==
  request \in Requests /\ made = EmptyGraph /\ making = "graph" /\ gaps = {} /\ apiAnswer = <<>>

Adapt ==
  /\ making = "graph" /\ request.from # "builder"
  /\ made' = CASE request.from = "static" -> StaticGraph(request.descriptors)
               [] request.from = "import" -> ImportOnlyGraph(request.descriptors)
               [] OTHER -> FanoutGraph
  /\ making' = "file" /\ UNCHANGED <<request, gaps, apiAnswer, graphVars>>

\* Without the SDK, or when it is told so (--fixture-only), the builder takes the graph
\* that is committed with the tests.
UsesCommitted == request.fixtureOnly \/ "sdk" \notin request.roots

TakeCommitted ==
  /\ making = "graph" /\ request.from = "builder" /\ UsesCommitted
  /\ made' = Committed /\ making' = "document"
  /\ UNCHANGED <<request, gaps, apiAnswer, graphVars>>

ReadDeclarations ==
  /\ making = "graph" /\ request.from = "builder" /\ ~ UsesCommitted
  /\ made' = FoldLeft(Declare, EmptyGraph, Declarations(request)) /\ making' = "uses"
  /\ UNCHANGED <<request, gaps, apiAnswer, graphVars>>

AddUses ==
  /\ making = "uses" /\ making' = "sources"
  /\ made' = IF "xts" \notin request.roots THEN made
             ELSE FoldSet(AddUse, made, UsageEntries(request.tests, ScannedFiles))
  /\ UNCHANGED <<request, gaps, apiAnswer, graphVars>>

AddEngineSources ==
  /\ making = "sources" /\ making' = "document"
  /\ made' = IF "ace" \in request.roots THEN AddSources(made, request.lineage) ELSE made
  /\ UNCHANGED <<request, gaps, apiAnswer, graphVars>>

\* The document of the builder holds the graph as one of its members ...
WriteDocument ==
  /\ making = "document" /\ making' = "file" /\ gaps' = GapsOf(made)
  /\ UNCHANGED <<request, made, apiAnswer, graphVars>>

\* ... and the command reads a file that is the graph: of the document as it is it
\* finds no nodes and no edges.
Load ==
  /\ making = "file" /\ making' = "loaded"
  /\ \E unwrapped \in IF request.from = "builder" THEN BOOLEAN ELSE {TRUE} :
       graph' = AsRead(IF unwrapped THEN made ELSE EmptyGraph)
  /\ UNCHANGED <<request, made, gaps, apiAnswer, asked, answers, hunk, overall>>

\* resolve_api_query, with an index of all test sources and what is known to run.
ApisNamed(name) == SetToSortSeq({a \in DOMAIN graph.apis : name \in graph.apis[a]}, <)
AnswerTo(name, entries, map) ==
  LET uses == {e \in entries : e.api = name}
  IN [name |-> name, selections |-> Deduplicated(Relations(ApisNamed(name))),
      gap |-> Relations(ApisNamed(name)) = <<>>,
      levels |-> [e \in uses |-> Equivalence(e, map)],
      suggested |-> {e.project : e \in {x \in uses :
                       x.kind = "component_creation" /\ x.confidence = "strong"}}]

AskApi ==
  /\ making = "loaded" /\ making' = "answered"
  /\ \E name \in QueryNames, configured \in BOOLEAN :
       apiAnswer' = AnswerTo(name, UsageEntries(request.tests, Len(request.tests)),
                             RunnabilityMap(request.projects, configured))
  /\ UNCHANGED <<request, made, gaps, graphVars>>

MakingNext ==
  \/ Adapt \/ TakeCommitted \/ ReadDeclarations \/ AddUses \/ AddEngineSources
  \/ WriteDocument \/ Load \/ AskApi

\* export_graph_debug: every relation of every API, the best first.
Exported ==
  LET all == Relations(SetToSortSeq(DOMAIN graph.apis, <))
      Before(k, j) == \/ all[k].score > all[j].score
                      \/ all[k].score = all[j].score /\ k < j
      order == SortSeq([k \in DOMAIN all |-> k], Before)
  IN [n \in DOMAIN order |-> all[order[n]]]

-------------------------------------------------------------------------------
\* No step of making a graph is refused and what is made keeps the rules of graphs.  A
\* graph that is loaded as it was made has the gaps that were written beside it, and
\* none of the builder's says that a test must run; of the adapters' the direct use
\* of the modifier does, its mere import and the shared accessor do not.
\* Whoever uses an API in the graph of the builder is suggested for it too, the gap of
\* an answer is one of the graph, and a test may be a must only where it stands for the
\* API exactly, whichever of the two looks at its state.
GraphsAreSound ==
  /\ ~ made.raised /\ IsValid(made) /\ \A id \in DOMAIN made.edges : EdgeWarnings(made.edges[id]) = {}
  /\ making = "loaded" =>
       LET must == {s \in Range(Exported) : s.bucket = "must_run"}
           loaded == DOMAIN graph.apis # {} \/ ApisIn(made) = {}
       IN /\ request.from = "builder" /\ loaded => gaps = {a \in DOMAIN graph.apis : Relations(<<a>>) = <<>>}
          /\ request.from = "builder" /\ ~ UsesCommitted => must = {}
          /\ request.from = "static" => must # {}
          /\ request.from \in {"import", "fanout"} => must = {}
          /\ \A s \in must : CandidateErrors(InputsOf(s), {e.level : e \in OfType(made, "uses_api")}) = {}
  /\ making = "answered" =>
       /\ apiAnswer.gap <=> apiAnswer.selections = <<>>
       /\ request.from = "builder" /\ ~ UsesCommitted =>
            {e.from[2] : e \in {x \in OfType(made, "uses_api") : apiAnswer.name = ApiName[x.to[2]]}}
              \subseteq apiAnswer.suggested
       /\ \A e \in DOMAIN apiAnswer.levels : \A configured \in BOOLEAN :
            LET map == RunnabilityMap(request.projects, configured)
                level == Equivalence(e, map)
            IN level = "exact" <=>
                 CombinedBucket(level, StateOf(<<e.project>>, map)) = "must_run"
===============================================================================
