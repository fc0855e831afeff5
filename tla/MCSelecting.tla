------------------------------ MODULE MCSelecting ------------------------------
EXTENDS Selecting, MCSelectionReport

-------------------------------------------------------------------------------
\* The graph: two APIs (1, 2), three consumer files, the third without a project.
MCProjectOf == ("c1" :> 1) @@ ("c2" :> 1) @@ ("c3" :> 2) @@ ("c4" :> NoProject)

MCUse(consumer, api, confidence, evidence) ==
  [consumer |-> consumer, api |-> api, confidence |-> confidence, evidence |-> evidence]
MCUses ==
  {MCUse("c1", 1, "medium", "other"), MCUse("c1", 1, "strong", "import"),
   MCUse("c2", 1, "strong", "call"), MCUse("c3", 1, "strong", "call"),
   MCUse("c3", 2, "weak", "config_rule"), MCUse("c4", 2, "strong", "call")}

MCEdge(file, symbol, api, type, confidence) ==
  [file |-> file, symbol |-> symbol, api |-> api, type |-> type, confidence |-> confidence]
MCSources ==
  {MCEdge("f1", "ButtonModifier", 1, "provides_static_modifier", "strong"),
   MCEdge("f2", "contentModifier", 1, "implements", "medium"),
   MCEdge("f1", "contentModifier", 2, "implements", "strong"),
   MCEdge("f2", "ButtonModifier", 2, "backs_component", "strong")}

MCDistinct(s) == \A j, k \in DOMAIN s : j # k => s[j] # s[k]
MCGraphs ==
  {g \in [uses : SeqOf(MCUses, 3), sources : SeqOf(MCSources, 2), projectOf : {MCProjectOf},
           runnable : {{1}}, apis : {<<{"A"}, {"B"}>>}] :
     MCDistinct(g.uses) /\ MCDistinct(g.sources)}

\* What a graph is made from: the builder's requests, and those of the adapters.
MCApiName == <<"Button", "Slider", "Web", "Chart">>
MCSourceName == <<"f1", "f2", "f3">>
MCLower ==
  ("Button" :> "button") @@ ("Slider" :> "slider") @@ ("SLIDER" :> "slider") @@ ("Web" :> "web")
    @@ ("Chart" :> "chart")
MCDescriptors ==
  [source : {1}, family : {0, 1}, sdk : {1}, consumer : {1}, project : {1}, target : {1},
   artifact : {0, 1}]

\* Of the committed graph the ways by the button and by the slider, each with the modifier
\* that comes from the file shared by both.
MCModifier == <<"ButtonModifier", "SliderModifier">>
MCProvides(file, api, symbol, confidence) ==
  [Edge(<<"provides_static_modifier", file, api>>, EngineFile(file), Api(api)) EXCEPT
     !.symbol = symbol, !.source = confidence]
MCWay(n) ==
  <<MCProvides(n, n, MCModifier[n], "strong"), MCProvides(3, n + 2, "CommonModifier", "medium"),
    [Edge(<<"uses_api", n, n>>, <<"consumer_file", n>>, Api(n)) EXCEPT
       !.symbol = MCApiName[n], !.consumer = "strong"],
    Belongs(n, n, n), MapsTo(n, n)>>
MCNodesOfWay(n) ==
  <<Node("engine_file", n), Node("consumer_file", n), Node("consumer_project", n),
    Node("runnable_target", n), ApiNode(n, {MCApiName[n]}, IF n = 1 THEN "modifier" ELSE "component"),
    ApiNode(n + 2, {"CommonModifier"}, "modifier")>>
MCCommitted ==
  GraphOf(MCNodesOfWay(1) \o MCNodesOfWay(2) \o <<Node("engine_file", 3)>>, MCWay(1) \o MCWay(2))

MCDeclaration(path, api) == [path |-> path, api |-> api, skipped |-> FALSE]
MCSdkFiles ==
  <<MCDeclaration(1, 1), [MCDeclaration(2, 3) EXCEPT !.skipped = TRUE], MCDeclaration(3, 2),
    MCDeclaration(4, 2)>>

MCLine(kind, chain, components, methods) ==
  [kind |-> kind, chain |-> chain, enums |-> {}, components |-> components, methods |-> methods]
MCMade(c) == MCLine("code", FALSE, {c, "Row"}, {})
MCChain == [MCLine("code", TRUE, {}, {"onClick", "width", "trim"}) EXCEPT !.enums = {"Color", "Mine"}]
MCComment == MCLine("comment", FALSE, {}, {})
MCBlock == MCLine("block", FALSE, {"Slider"}, {})
MCUsing(path, root, ext, lines) == [path |-> path, root |-> root, ext |-> ext, lines |-> lines]
MCUsingTests ==
  {<<MCUsing(1, 1, "js", <<MCMade("Button"), MCComment, MCChain>>),
     MCUsing(2, 2, "ets", <<MCMade("Slider"), MCBlock, MCChain>>),
     MCUsing(3, 2, last, <<MCMade("Button"), MCMade("Button"), MCChain>>)>> : last \in {"ets", "ts", "c"}}

MCKnownProject(root, marked, hasFiles) == [root |-> root, marked |-> marked, files |-> hasFiles]
MCTestProjects ==
  {{MCKnownProject(<<1>>, marked, TRUE), MCKnownProject(<<2, 1>>, FALSE, TRUE),
    MCKnownProject(<<2>>, FALSE, hasFiles)} : marked, hasFiles \in BOOLEAN}
MCLineages == {<<{1, 2}, {2}>>, <<{3}>>}

MCRequest ==
  [from |-> "builder", fixtureOnly |-> FALSE, roots |-> {}, filter |-> "", limit |-> 2, sdk |-> MCSdkFiles,
   tests |-> <<>>, projects |-> {}, lineage |-> <<>>, descriptors |-> 0]
MCRequests ==
  {[MCRequest EXCEPT !.roots = roots, !.filter = filter, !.limit = limit, !.tests = tests,
      !.lineage = lineage, !.projects = known] :
     roots \in SUBSET {"sdk", "xts", "ace"}, filter \in {"", "SLIDER"}, limit \in {1, 3},
     tests \in MCUsingTests, lineage \in MCLineages, known \in MCTestProjects}
  \cup {[MCRequest EXCEPT !.fixtureOnly = TRUE, !.roots = {"sdk", "xts", "ace"}]}
  \cup {[MCRequest EXCEPT !.from = from, !.descriptors = d] :
          from \in {"static", "import", "fanout"}, d \in MCDescriptors}

\* The first symbol ends in the line where the second begins.
MCSpans == ("f1" :> <<<<"ButtonModifier", 1, 2>>, <<"contentModifier", 2, 3>>>>) @@ ("f2" :> <<<<"contentModifier", 1, 3>>>>)

MCTest(target, mentions) == [target |-> target, mentions |-> mentions]
MCFile(layer, confidence, routed, named, profile, tests) ==
  [layer |-> layer, confidence |-> confidence, routed |-> routed, named |-> named,
   profile |-> profile, tests |-> tests]
MCImport == <<"import", "use">>
MCFiles ==
  {MCFile("gesture_framework", "strong", TRUE, TRUE, "none",
          <<MCTest(1, <<"use">>), MCTest(2, MCImport)>>),
   MCFile("gesture_framework", "medium", TRUE, TRUE, "none",
          <<MCTest(2, MCImport), MCTest(3, MCImport)>>),
   MCFile("native_peer", "strong", TRUE, TRUE, "none",
          <<MCTest(4, MCImport), MCTest(3, MCImport), MCTest(1, <<"use">>)>>),
   MCFile("native_event", "strong", FALSE, TRUE, "none", <<>>),
   MCFile("native_peer", "strong", TRUE, FALSE, "none", <<MCTest(1, <<"use">>)>>),
   MCFile("inspector", "medium", FALSE, FALSE, "p1",
          <<MCTest(1, <<"use">>), MCTest(5, <<"use">>), MCTest(5, <<"use">>)>>),
   MCFile("jsi_bridge", "strong", FALSE, FALSE, "p2",
          <<MCTest(4, <<"use">>), MCTest(6, <<"use">>)>>),
   MCFile("common_method", "medium", FALSE, FALSE, "none", <<>>),
   MCFile("component_pattern", "strong", FALSE, FALSE, "none", <<>>),
   MCFile("unknown", "none", FALSE, FALSE, "none", <<>>)}
MCChangeSets == SeqOf(MCFiles, 3) \ {<<>>}

-------------------------------------------------------------------------------
\* Pull requests: three files out of twenty-one kinds, three APIs, four projects.
CONSTANTS apiA, apiB, apiC

MCApis == {apiA, apiB, apiC}
MCProjects == 1..4

\* apiA is known by its canonical id, apiB by its member, apiC has no consumers.
MCById == [x \in MCApis |-> IF x = apiA THEN {1, 2} ELSE {}]
MCByMember == [x \in MCApis |-> IF x = apiC THEN {} ELSE {2, 3}]
MCByName == [x \in MCApis |-> IF x = apiC THEN {} ELSE {3, 4}]
MCStrongUse == {<<apiA, 1>>}
MCFamily == {2}
MCBroadTargets == {3, 4}
MCSiblings == [p \in MCProjects |-> IF p = 1 THEN {1, 4} ELSE {p}]

None == [category |-> "source", matches |-> <<>>, risk |-> "low", bridge |-> "generated",
         mappings |-> {}, comment |-> FALSE, importers |-> {}, covers |-> {},
         excluded |-> FALSE, strongRole |-> FALSE]
M(x) == [api |-> x, id |-> x = apiA, sdk |-> x = apiA, strong |-> x = apiA, common |-> FALSE,
         touched |-> TRUE]
Mapped(ms) == [None EXCEPT !.mappings = ms]
By(r, targets) == [None EXCEPT !.matches = r :> targets]

MCProfiles ==
  { [None EXCEPT !.category = "documentation", !.covers = {4}],
    [By("native", {3}) EXCEPT !.mappings = {M(apiA), M(apiC)}],
    By("override", {4}),
    [By("idl", {}) EXCEPT !.mappings = {M(apiB)}], [By("idl", {}) EXCEPT !.mappings = {M(apiC)}],
    [By("bridge", {1, 2}) EXCEPT !.risk = "high"],
    [By("bridge", {}) EXCEPT !.risk = "critical", !.bridge = "infrastructure"],
    [By("overtake", {}) EXCEPT !.risk = "critical"],
    [By("cpp", {4}) EXCEPT !.risk = "medium", !.mappings = {M(apiA)}],
    By("naming", {2}),
    [Mapped({M(apiA)}) EXCEPT !.strongRole = TRUE], Mapped({M(apiA), M(apiC)}),
    [Mapped({M(apiB)}) EXCEPT !.excluded = TRUE], [Mapped({M(apiC)}) EXCEPT !.strongRole = TRUE],
    [Mapped({M(apiA)}) EXCEPT !.comment = TRUE],
    Mapped({[M(apiA) EXCEPT !.common = TRUE], [M(apiB) EXCEPT !.touched = FALSE]}),
    [None EXCEPT !.importers = {1}],
    By("area", {3, 4}), By("tokens", {1}),
    [By("broad", {}) EXCEPT !.risk = "low"],
    [None EXCEPT !.covers = {2}] }

\* The earlier requests of a batch: none, a failed one, and one of two files that went well.
MCEarlierSummary ==
  [status |-> "ok", policy |-> "require_broader_suite", files |-> 2, actionable |-> 2, covered |-> 1,
   canonical |-> 1, exact |-> 1, family |-> 0, broad |-> 0, open |-> 1, weak |-> 0, product |-> 2,
   productCanonical |-> 1, productOpen |-> 1, strong |-> 1, strongCanonical |-> 1, targets |-> 2,
   extra |-> 1, buckets |-> [b \in Range(Buckets) |-> 0], dropped |-> 0]
MCEarlier == {<<>>, <<Failed, MCEarlierSummary>>}

-------------------------------------------------------------------------------
\* Topics.
\* Some rules and topics of config/source_layers.json and config/api_topics.json,
\* and one topic with the name of an engine class.
MCLayerRule(layer, role, tokens) == [layer |-> layer, role |-> role, tokens |-> tokens]
MCLayerRules ==
  <<MCLayerRule("native_peer", "sdk_peer_implementation", {}),
    MCLayerRule("ani_bridge", "ani_modifier_binding", {}),
    MCLayerRule("gesture_referee", "gesture_referee_core", {}),
    MCLayerRule("gesture_framework", "gesture_recognizer_core", {}),
    MCLayerRule("native_node", "ndk_node_gesture_implementation", {}),
    MCLayerRule("native_event", "ndk_event_implementation", {}),
    MCLayerRule("native_node", "ndk_event_implementation", {}),
    MCLayerRule("unknown", "unknown", {})>>

MCTopic(names, families) == [names |-> Range(names), families |-> Range(families)]
MCTopicConfig ==
  ("gesture.core" :> MCTopic(<<>>, <<>>)) @@
  ("gesture.group" :> MCTopic(<<"GestureGroup", "Gesture">>, <<"gestureGroup">>)) @@
  ("gesture.custom_recognition" :> MCTopic(<<"onGestureJudgeBegin", "GestureReferee">>, <<>>)) @@
  ("gesture.pan" :> MCTopic(<<"PanGesture", "PanGestureOptions">>, <<"panGesture">>)) @@
  ("native.peer.canvas" :> MCTopic(<<"Canvas", "CanvasRenderingContext2D">>, <<>>)) @@
  ("native.peer.canvas_rendering_context" :> MCTopic(<<"CanvasRenderingContext2D">>, <<>>)) @@
  ("ani.canvas" :> MCTopic(<<"Canvas">>, <<>>)) @@
  ("ani.xcomponent" :> MCTopic(<<"XComponentAni">>, <<>>)) @@
  ("native.node.gesture" :> MCTopic(<<"OH_ArkUI_GestureRecognizer">>, <<>>)) @@
  ("native.event.touch" :> MCTopic(<<"ArkUI_NodeTouchEvent">>, <<>>))

MCEngineFile(rule, tokens) == [rules |-> {rule, 8}, tokens |-> tokens]
MCSourceFiles ==
  {MCEngineFile(1, {"drawing_canvas", "canvas"}), MCEngineFile(1, {"canvas"}), MCEngineFile(1, {}),
   MCEngineFile(2, {"x_component"}), MCEngineFile(2, {"canvas"}),
   MCEngineFile(3, {"gesture_referee"}), MCEngineFile(4, {"pan_recognizer"}), MCEngineFile(4, {}),
   MCEngineFile(5, {"gesture_impl"}), MCEngineFile(6, {"ui_input_event"}),
   MCEngineFile(7, {"event_converter"})}

MCSdkIndexes ==
  {NoSdk, {"PanGesture", "Gesture", "CanvasRenderingContext2D", "onGestureJudgeBegin"}}
MCCompound == {"OH_ArkUI_GestureRecognizer", "ArkUI_NodeTouchEvent"}

MCMention(name, kind) == [name |-> name, kind |-> kind]
MCLines ==
  LET imported(n) == MCMention(n, "import_only")
      used(n) == MCMention(n, "component_instantiation")
  IN {<<used("PanGesture"), imported("PanGesture")>>,
      <<imported("CanvasRenderingContext2D"), used("CanvasRenderingContext2D"), used("Canvas")>>,
      <<imported("Gesture"), MCMention("onGestureJudgeBegin", "event_handler")>>,
      <<used("CanvasRenderingContext2D"), used("ArkUI_NodeTouchEvent"), used("GestureGroup")>>}

MCTestSource(file, dirs, ext, lines) ==
  [file |-> file, project |-> IF file = 1 THEN "p1" ELSE "p2", dirs |-> dirs, ext |-> ext,
   mentions |-> lines]
MCTestTrees ==
  {NoXts, <<>>} \cup
  {<<MCTestSource(1, {"gesture", "commonEvents"}, "ets", a),
     MCTestSource(2, {"canvas", "ndk"}, "ets", b), MCTestSource(3, dirs, ext, c)>> :
     a \in MCLines, b \in MCLines, c \in MCLines,
     dirs \in {{}, {"canvas", "gesture"}}, ext \in {"ets", "c"}}

-------------------------------------------------------------------------------
\* The indexes: two test projects and one of each other tree, each edited once or twice.
\* The methods of buttons are filtered; those of the slider are all taken.
MCAllowed == [f \in {"button"} |-> {"role", "contentModifier"}]
MCInherited == [f \in {"button"} |-> {"padding"}]
MCDirAlias == [n \in {"track"} |-> "slider"]

MCDeclares(methods, camel) == [declares |-> TRUE, methods |-> methods, camel |-> camel]
MCSdk(components, modifiers) ==
  [components |-> components, modifiers |-> modifiers, common |-> {"padding", "margin"}]
MCSdkAt == <<
  MCSdk([f \in {"button", "datapanel"} |->
           IF f = "button" THEN MCDeclares({"role", "contentModifier", "onClick"}, FALSE)
           ELSE MCDeclares({"contentModifier"}, TRUE)],
        {<<"button", "dynamic">>, <<"button", "static">>, <<"panel", "dynamic">>}),
  MCSdk([f \in {"button", "slider"} |->
           IF f = "button" THEN MCDeclares({"role"}, FALSE)
           ELSE MCDeclares({"contentModifier", "step"}, FALSE)],
        {<<"slider", "dynamic">>}),
  MCSdk([f \in {"button", "slider"} |->
           IF f = "button" THEN [MCDeclares({}, FALSE) EXCEPT !.declares = FALSE]
           ELSE MCDeclares({"contentModifier"}, FALSE)],
        {<<"button", "static">>}) >>

MCText(sets, contents, menu, spans) ==
  [sets |-> sets, contents |-> contents, menu |-> menu, spans |-> spans]
MCNoText == MCText({}, {}, FALSE, {})
MCEngineSource(name, dir, text) ==
  [path |-> <<"source", name>>, dir |-> dir, prefix |-> "", native |-> "",
   tokens |-> {dir, "pattern"}, accessor |-> FALSE, readable |-> TRUE, rules |-> {}, text |-> text]
MCSpan(owner, verb, object, first, last) == <<<<owner, verb, object>>, first, last>>
MCButton ==
  MCEngineSource("button", "button",
    MCText({"role"}, {}, FALSE, {MCSpan("ButtonModelNG", "Set", "role", 1, 3),
                                 MCSpan("ButtonModelNG", "", "OnModifyDone", 3, 5)}))
MCHelper ==
  [MCEngineSource("helper", "", MCText({}, {<<"button", FALSE>>, <<"slider", TRUE>>}, TRUE,
     {MCSpan("", "ContentModifierImpl", "slider", 1, 2), MCSpan("", "ContentModifier", "button", 4, 6)}))
   EXCEPT !.accessor = TRUE]
MCShared ==
  [MCEngineSource("shared", "", MCText({}, {<<"slider", TRUE>>}, FALSE,
     {MCSpan("", "ContentModifierImpl", "button", 1, 2), MCSpan("", "ContentModifierImpl", "slider", 2, 4)}))
   EXCEPT !.rules = {<<"button", "contentModifier", "button">>,
                     <<"slider", "contentModifier", "slider">>}]
MCEngineAt == <<
  {MCButton, MCHelper},
  {MCShared, [MCEngineSource("track", "track", MCText({"step", "role"}, {}, FALSE,
                {MCSpan("", "Get", "step", 2, 2)})) EXCEPT !.prefix = "panel"]},
  {[MCButton EXCEPT !.readable = FALSE], MCShared,
   [MCEngineSource("native", "", MCNoText) EXCEPT !.native = "datapanel", !.tokens = {"panel"}]} >>

MCUseFile ==
  [key |-> "", imported |-> {}, calls |-> {}, members |-> {}, typed |-> {}, bases |-> {},
   ets |-> TRUE, marks |-> {"decorator"}]
MCProject(uses, names) == [files |-> uses, names |-> names]
MCTestAt == [p \in {"t1", "t2"} |->
  IF p = "t1"
  THEN <<MCProject({[MCUseFile EXCEPT !.imported = {Component("button")},
                                      !.members = {"role", "padding", "onClick"}]}, {}),
         MCProject({[MCUseFile EXCEPT !.bases = {"button"}, !.marks = {"use static"}],
                    [MCUseFile EXCEPT !.imported = {Component("panel")}]}, {"static"}),
         MCProject({}, {"static", "dynamic"})>>
  ELSE <<Absent,
         MCProject({[MCUseFile EXCEPT !.typed = {Method("slider", "step")}, !.ets = FALSE],
                    [MCUseFile EXCEPT !.calls = {Component("slider")}, !.members = {"step"},
                       !.marks = {}]}, {"dynamic"}),
         Absent>>]

MCExample(file, members) ==
  [MCUseFile EXCEPT !.key = file, !.calls = {Modifier("button")}, !.members = members]
MCExamplesAt == <<
  {<<"example", {MCExample("example/a", {"role"}), MCExample("example/b", {"contentModifier"})}>>,
   <<"empty", {}>>},
  {<<"example", {MCExample("example/a", {}), [MCUseFile EXCEPT !.key = "example/c"]}>>},
  {} >>

-------------------------------------------------------------------------------
\* Registries: of four components and what they share; a name that is unique in one SDK and
\* not in another, a parent in another spelling, and in two, and a member declared twice.
MCDeclared(parent, members) ==
  [k \in 1..(Len(members) + 1) |->
     [parent |-> parent, member |-> IF k = 1 THEN "" ELSE members[k - 1]]]
MCRegistries ==
  {<<>>,
   MCDeclared("ButtonAttribute", <<"role", "font", "fontFeature">>)
     \o MCDeclared("TextAttribute", <<"font">>) \o MCDeclared("CommonMethod", <<"width">>)
     \o MCDeclared("WebAttribute", <<"zoom">>) \o MCDeclared("DataPanelAttribute", <<"closeEffect">>)
     \o MCDeclared("ImageSpanAttribute", <<"align">>) \o MCDeclared("ButtonType", <<>>),
   MCDeclared("CommonMethod", <<"width", "align">>)
     \o MCDeclared("ButtonAttribute", <<"role", "role", "width", "font">>)
     \o MCDeclared("TextAttribute", <<"align">>) \o MCDeclared("zoom", <<>>)
     \o MCDeclared("SpanInterface", <<"align">>) \o MCDeclared("WebAttribute", <<"zoom">>),
   MCDeclared("DataPanelAttribute", <<"closeEffect", "editing">>)
     \o MCDeclared("DATAPANELAttribute", <<"closeEffect">>)
     \o MCDeclared("Controller", <<"editing", "role">>) \o MCDeclared("TextAttribute", <<"editing">>)}

MCSdkAlias == [n \in {"Kind"} |-> <<"Missing", "ButtonType">>]
MCParentNames ==
  [button |-> <<"ButtonAttribute", "ButtonInterface", "Button">>,
   text |-> <<"TextAttribute", "TextInterface", "Text">>,
   span |-> <<"SpanAttribute", "SpanInterface", "Span">>,
   datapanel |-> <<"DatapanelAttribute", "DatapanelInterface", "Datapanel">>]
MCParents ==
  UNION {Range(MCParentNames[f]) : f \in DOMAIN MCParentNames} \cup Range(CommonParents)
    \cup {"WebAttribute", "DataPanelAttribute", "DATAPANELAttribute", "ImageSpanAttribute",
          "ButtonType", "Controller", "zoom"}
MCFolded ==
  [p \in MCParents |-> IF p \in {"DataPanelAttribute", "DATAPANELAttribute"}
                       THEN "DatapanelAttribute" ELSE p]
MCMemberAlias == [n \in {"editImpl"} |-> "editing"]
MCParentOf == [x \in {<<"text", "editing">>} |-> "Controller"]
MCWithoutImpl == [n \in {"roleImpl", "editImpl"} |-> IF n = "roleImpl" THEN "role" ELSE "edit"]
MCWithoutFamily == [x \in {<<"button", "buttonRole">>} |-> "role"]
MCExtends == {<<"font", "fontFeature">>, <<"role", "roleImpl">>}
MCEnds == {<<"SpanAttribute", "ImageSpanAttribute">>}
MCWithin == MCExtends \cup MCEnds \cup {<<"Button", "ButtonAttribute">>, <<"Button", "ButtonType">>}

MCMethod(prefix, name) ==
  [prefix |-> prefix, name |-> name, declared |-> name = "width", internal |-> name = "zoom" /\ prefix = "Get"]
MCLookedFor == <<"role", "font", "width", "zoom", "closeEffect", "align", "editing", "roleImpl",
                 "editImpl", "buttonRole", "Kind">>
MCRolePrefixes ==
  {<<"model_static", "Set">>, <<"model_ng", "Set">>, <<"model_other", "Get">>,
   <<"native_modifier", "Set">>, <<"native_modifier", "Reset">>, <<"native_node_accessor", "Get">>,
   <<"jsview_dynamic", "Js">>, <<"jsview_dynamic", "JS">>, <<"pattern", "">>, <<"pattern", "Set">>,
   <<"infrastructure", "Set">>}
MCCoded(path, role, family, methods) ==
  [path |-> path, role |-> role, family |-> family, methods |-> methods]
MCEngineIndexes ==
  {<<MCCoded(<<1, 1>>, rp[1], f, [k \in DOMAIN MCLookedFor |-> MCMethod(rp[2], MCLookedFor[k])]),
     MCCoded(<<2, 1>>, "model_static", "button", <<MCMethod("Set", "role"), MCMethod("Set", "Kind")>>)>> :
     rp \in MCRolePrefixes, f \in DOMAIN MCParentNames}
MCChangedPaths == {<<1, 1>>, <<3, 1>>}

MCUsed(project, kind, name) == [project |-> project, kind |-> kind, name |-> name]
MCTestUses ==
  {{MCUsed(1, "chained", "font"), MCUsed(2, "chained", "fontFeature"), MCUsed(3, "chained", "align"),
    MCUsed(1, "construction", "Button"), MCUsed(4, "import", "role"), MCUsed(4, "access", "Kind")},
   {MCUsed(1, "chained", "role"), MCUsed(2, "chained", "width"), MCUsed(3, "construction", "zoom"),
    MCUsed(3, "access", "ButtonType"), MCUsed(4, "chained", "editing"), MCUsed(2, "chained", "closeEffect")}}
===============================================================================
