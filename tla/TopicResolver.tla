---------------------------- MODULE TopicResolver ----------------------------
(* From a changed engine file to the tests that use its API, by topics:
   impact/source_classifier.py and the four resolvers of impact/ (gesture_api,
   native_peer, ani_bridge, native_event), which share the validator and the linker.

   UniversalPipeline takes what a resolver finds as given; here it is found: the
   first rule gives the layer, the first route the topics, the configuration the
   SDK names of each topic, the SDK index those that are declared, and a scan of the
   test sources topic by topic and file by file, cut at a deadline or at a number of
   files, the uses.

   A changed file is [rules, tokens]: the numbers of the rules that match its path
   and the route tokens that occur in its path or in the family its name gives.  A
   test source is [file, project, dirs, ext, mentions], its mentions in the order of its
   lines.                                                                     *)
EXTENDS Naturals, Sequences, FiniteSets, SequencesExt, FiniteSetsExt

CONSTANTS
  SourceFiles,   \* the changed files
  LayerRules,    \* config/source_layers.json: a sequence of [layer, role, tokens]
  TopicConfig,   \* config/api_topics.json: topic -> [names, families], both sets
  SdkIndexes,    \* what the SDK may declare: sets of names, NoSdk
  NoSdk,         \* there is no SDK directory
  TestTrees,     \* the test trees: sequences of test sources, NoXts
  NoXts,         \* there is no XTS directory
  Compound,      \* the names with an underscore, which the patterns do not match
  MaxFiles       \* _MAX_FILES

\* A file of the rules has at least one of them; a path is one source of a tree.
ASSUME TreesAssumption ==
  /\ \A f \in SourceFiles : f.rules \subseteq DOMAIN LayerRules
  /\ \A t \in TestTrees \ {NoXts} :
       /\ \A k \in DOMAIN t : t[k].mentions \in Seq(Range(t[k].mentions))
       /\ \A j, k \in DOMAIN t : t[j].file = t[k].file => t[j] = t[k]

VARIABLES
  engineFile,    \* the changed file, classified: [layer, role, tokens]
  sdk, tree,     \* the SDK and the test tree of this run
  topicIds,      \* impact_topics
  sdkTopics,     \* sdk_api_topics, of the configured ones: [topic, names, confidence, reasons]
  usage,         \* consumer_usage_edges: [topic, name, file, project, kind]
  scan,          \* the scan: [topic, seen], and whether one was cut short
  resolution     \* what resolve() returns, Unanswered before

topicVars == <<engineFile, sdk, tree, topicIds, sdkTopics, usage, scan, resolution>>

Unanswered == [bucket |-> "none", modules |-> {}, families |-> {}, reasons |-> {}]

-------------------------------------------------------------------------------
\* SourceClassifier.classify_path: the first rule that matches, else unknown; the
\* topic hints of the rule are searched for route tokens as the path is.
Classified(file) ==
  IF file.rules = {} THEN [layer |-> "unknown", role |-> "unknown", tokens |-> {}]
  ELSE LET rule == LayerRules[Min(file.rules)]
       IN [layer |-> rule.layer, role |-> rule.role, tokens |-> file.tokens \cup rule.tokens]

-------------------------------------------------------------------------------
\* The routing tables, most specific first.
Route(token, topics) == [token |-> token, topics |-> topics]

GestureRoutes ==
  <<Route("gesture_referee", <<"gesture.core", "gesture.group", "gesture.custom_recognition">>),
    Route("gesture_recognizer", <<"gesture.core", "gesture.custom_recognition">>),
    Route("pan_recognizer", <<"gesture.pan">>), Route("tap_recognizer", <<"gesture.tap">>),
    Route("long_press_recognizer", <<"gesture.long_press">>),
    Route("swipe_recognizer", <<"gesture.swipe">>),
    Route("pinch_recognizer", <<"gesture.pinch">>),
    Route("rotation_recognizer", <<"gesture.rotation">>),
    Route("gesture_group", <<"gesture.group">>),
    Route("gesture_impl", <<"native.node.gesture">>)>>

NativePeerRoutes ==
  <<Route("drawing_rendering_context", <<"native.peer.canvas_rendering_context">>),
    Route("canvas_rendering_context", <<"native.peer.canvas_rendering_context">>),
    Route("x_component_controller", <<"native.peer.xcomponent_controller">>),
    Route("drawing_canvas", <<"native.peer.canvas", "native.peer.canvas_rendering_context">>),
    Route("canvas", <<"native.peer.canvas">>),
    Route("xcomponent", <<"native.peer.xcomponent">>),
    Route("x_component", <<"native.peer.xcomponent">>)>>

AniRoutes ==
  <<Route("canvas", <<"ani.canvas">>), Route("x_component", <<"ani.xcomponent">>),
    Route("xcomponent", <<"ani.xcomponent">>)>>

NativeEventRoutes ==
  <<Route("ui_input_event", <<"native.event.ui_input", "native.event.touch">>),
    Route("event_converter", <<"native.event.converter">>),
    Route("gesture_impl", <<"native.event.gesture_bridge">>)>>

\* The names of the engine that must not pass for names of the SDK.
GestureInternal ==
  {"PanRecognizer", "TapRecognizer", "LongPressRecognizer", "PinchRecognizer",
   "RotationRecognizer", "SwipeRecognizer", "GestureReferee", "GestureScope",
   "GestureRecognizer", "SequenceRecognizer", "ExclusiveRecognizer", "ParallelRecognizer",
   "RecognizerGroup", "ClickRecognizer", "DragEventActuator", "GestureEventActuator",
   "GestureEventHub", "GestureInfo", "GestureSnapshot", "GestureDispatcher",
   "GestureTarget", "TouchEventActuator"}
NativePeerInternal ==
  {"DrawingCanvasPeer", "CanvasPeer", "DrawingRenderingContextPeerImpl",
   "DrawingRenderingContextAccessor", "DrawingCanvasPeerImpl", "XComponentControllerPeer",
   "XComponentControllerPeerImpl", "XComponentControllerAccessor", "NativeCanvasImpl",
   "NativeRenderingContextImpl"}
AniInternal ==
  {"CanvasAniModifier", "DrawingAniModifier", "XComponentAniModifier", "CanvasAni",
   "DrawingAni", "XComponentAni", "AniModifier", "AniBinding", "AniCanvas",
   "AniXComponent", "CanvasAniImpl", "XComponentAniImpl"}
NativeEventInternal ==
  {"UIInputEventImpl", "ArkUIEventConverter", "EventConverterImpl", "NativeEventImpl",
   "NativeNodeEventImpl", "GestureEventImpl", "GestureImplInner", "NodeGestureImpl",
   "ArkUIGestureImpl", "NativeGestureImpl"}

\* A linker: the directories it prefers, in its order, and what it reads there.
GestureXtsLinker ==
  [dirs |-> <<"gestureRecognition", "gesture", "commonEvents", "panGesture", "tapGesture",
              "longPressGesture", "swipeGesture", "pinchGesture", "rotationGesture",
              "gestureGroup", "customGestureRecognition", "gestureHandler", "gestureEvent">>,
   exts |-> <<"ets">>]
NativePeerXtsLinker ==
  [dirs |-> <<"canvas", "draw", "xcomponent", "xNode", "XNode", "XComponent", "platform">>,
   exts |-> <<"ets">>]
NativeEventXtsLinker ==
  [dirs |-> <<"native", "ndk", "c_arkui", "c_arkui_test", "event", "gesture",
              "ActsAceEngineNDK", "ActsAceEngineNative">>,
   exts |-> <<"ets", "c", "cpp">>]

\* A resolver is the layers it takes and the tables it works with.
GestureApiResolver ==
  [layers |-> {"gesture_framework", "gesture_referee", "native_node"}, routes |-> GestureRoutes,
   internal |-> GestureInternal, linker |-> GestureXtsLinker]
NativePeerResolver ==
  [layers |-> {"native_peer"}, routes |-> NativePeerRoutes,
   internal |-> NativePeerInternal, linker |-> NativePeerXtsLinker]
AniBridgeResolver ==
  [layers |-> {"ani_bridge"}, routes |-> AniRoutes,
   internal |-> AniInternal, linker |-> NativePeerXtsLinker]
NativeEventResolver ==
  [layers |-> {"native_event", "native_node"}, routes |-> NativeEventRoutes,
   internal |-> NativeEventInternal, linker |-> NativeEventXtsLinker]

GestureScope(entity) ==
  entity.layer = "native_node" => entity.role = "ndk_node_gesture_implementation"

\* _resolve_file: one resolver for a layer, the first that has it, so that the layer
\* native_node is never asked of the resolver of events.
LayerResolver ==
  LET order == <<GestureApiResolver, NativePeerResolver, AniBridgeResolver, NativeEventResolver>>
  IN order[Min({k \in DOMAIN order : engineFile.layer \in order[k].layers})]

\* _route_entity: the topics of the first route one of whose tokens occurs.
RouteOf(resolver, entity) ==
  LET hits == {k \in DOMAIN resolver.routes : resolver.routes[k].token \in entity.tokens}
  IN IF hits = {} THEN <<>> ELSE resolver.routes[Min(hits)].topics

-------------------------------------------------------------------------------
\* _resolve_sdk_topics: the names the configuration has for a topic; a topic that is
\* not configured, or has no names to ask for, gives none.
Configured(topic) == topic \in DOMAIN TopicConfig /\ TopicConfig[topic].names # {}

SdkTopic(resolver, topic) ==
  LET asked == TopicConfig[topic].names
      public == asked \ resolver.internal
  IN [topic |-> topic, names |-> public,
      confidence |-> IF public = {} THEN "none" ELSE "medium",
      reasons |-> (IF public # {} THEN {"sdk_not_validated"} ELSE {})
                    \cup (IF public # asked THEN {"internal_name"} ELSE {})]

\* GestureSdkValidator.validate_sdk_topic: without an SDK the names stay as they are.
Validated(topic, index) ==
  IF index = NoSdk THEN [topic EXCEPT !.reasons = @ \cup {"sdk_index_not_available"}]
  ELSE LET declared == topic.names \cap index
       IN [topic EXCEPT !.names = declared,
             !.confidence = IF declared = {} THEN "none"
                            ELSE IF declared = topic.names THEN "strong" ELSE "medium",
             !.reasons = IF declared = topic.names THEN {} ELSE {"sdk_declaration_missing"}]

\* The names that are sought for the k-th topic.
NamesOf(k) == IF k \in DOMAIN sdkTopics THEN sdkTopics[k].names ELSE {}

-------------------------------------------------------------------------------
\* The order of a scan: directory by directory, extension by extension; a source
\* below two of the directories is read twice.  Without a directory, all of them.  A
\* place is <<directory, extension, source>>, by their numbers.
InDir(linker) ==
  {p \in (DOMAIN linker.dirs) \X (DOMAIN linker.exts) \X (DOMAIN tree) :
     linker.dirs[p[1]] \in tree[p[3]].dirs /\ tree[p[3]].ext = linker.exts[p[2]]}
OfExt(linker) ==
  {p \in {1} \X (DOMAIN linker.exts) \X (DOMAIN tree) : tree[p[3]].ext = linker.exts[p[2]]}

Sources(linker) ==
  IF \E k \in DOMAIN tree : tree[k].dirs \cap Range(linker.dirs) # {}
  THEN InDir(linker) ELSE OfExt(linker)

ReadBefore(p, q) ==
  \/ p[1] < q[1]
  \/ p[1] = q[1] /\ (p[2] < q[2] \/ (p[2] = q[2] /\ p[3] < q[3]))

\* _scan_file_for_names: the mentions of the names, but of none with an underscore.
Hits(test, names) ==
  {k \in DOMAIN test.mentions : test.mentions[k].name \in names \ Compound}

EdgeOf(topic, test, mention) ==
  [topic |-> topic.topic, name |-> mention.name, file |-> test.file,
   project |-> test.project, kind |-> mention.kind]

\* Variant: the edges of a source are known by their topic and name.
EdgePerName(topic, test) ==
  {EdgeOf(topic, test, test.mentions[k]) :
     k \in {h \in Hits(test, topic.names) : \A e \in usage : e.name # test.mentions[h].name}}

\* find_usage_edges: the first mention of (topic, file, name) makes the edge.
IsFresh(topic, test, k) ==
  /\ \A j \in 1..k - 1 : test.mentions[j].name # test.mentions[k].name
  /\ ~ \E e \in usage :
       e.topic = topic.topic /\ e.file = test.file /\ e.name = test.mentions[k].name

EdgesOf(topic, test) ==
  {EdgeOf(topic, test, test.mentions[k]) :
     k \in {h \in Hits(test, topic.names) : IsFresh(topic, test, h)}}

\* compute_max_bucket(filter_by_confidence=True): an import is weak, other uses strong.
IsStrong(edge) == edge.kind # "import_only"

MaxTopicBucket(topics, named, edges) ==
  IF topics = <<>> THEN "unresolved"
  ELSE IF (\E k \in DOMAIN named : named[k].names # {}) /\ (\E e \in edges : IsStrong(e))
       THEN "recommended"
  ELSE "possible"

\* _collect_recommended_families
ConfiguredFamilies(topics) ==
  UNION {IF topic \in DOMAIN TopicConfig THEN TopicConfig[topic].families ELSE {} :
           topic \in Range(topics)}

\* _augment_families_from_edges: with the projects of the strong edges.
RecommendedFamilies(topics, edges) ==
  ConfiguredFamilies(topics) \cup {e.project : e \in {d \in edges : IsStrong(d)}}

-------------------------------------------------------------------------------
NotScanned == [topic |-> 0, seen |-> {}, cut |-> FALSE]

TopicInit ==
  /\ topicIds = <<>> /\ sdkTopics = <<>> /\ usage = {}
  /\ scan = NotScanned /\ resolution = Unanswered
  /\ engineFile \in {Classified(file) : file \in SourceFiles}
  /\ engineFile.layer \in UNION {r.layers : r \in {GestureApiResolver, NativePeerResolver,
                                               AniBridgeResolver, NativeEventResolver}}
  /\ sdk \in SdkIndexes
  /\ tree \in TestTrees

\* resolve(): out of the resolver's scope, or without a route, nothing is resolved.
Unroutable(resolver) ==
  \/ resolver = GestureApiResolver /\ ~ GestureScope(engineFile)
  \/ RouteOf(resolver, engineFile) = <<>>

Empty(reason) ==
  [bucket |-> "unresolved", modules |-> {}, families |-> {}, reasons |-> {reason}]

Refuse(resolver) ==
  /\ resolution = Unanswered /\ scan.topic = 0 /\ Unroutable(resolver)
  /\ resolution' = Empty("no_route")
  /\ UNCHANGED <<engineFile, sdk, tree, topicIds, sdkTopics, usage, scan>>

\* resolve() up to the scan.
TakeRoute(resolver) ==
  /\ resolution = Unanswered /\ scan.topic = 0 /\ ~ Unroutable(resolver)
  /\ topicIds' = RouteOf(resolver, engineFile)
  /\ sdkTopics' = [k \in {n \in DOMAIN topicIds' : Configured(topicIds'[n])} |->
                    Validated(SdkTopic(resolver, topicIds'[k]), sdk)]
  /\ scan' = [scan EXCEPT !.topic = 1]
  /\ UNCHANGED <<engineFile, sdk, tree, usage, resolution>>

Scanning == resolution = Unanswered /\ scan.topic \in DOMAIN topicIds /\ tree # NoXts

\* One source of the scan for the topic, the next.
ScanSource(resolver) ==
  /\ Scanning /\ NamesOf(scan.topic) # {} /\ Cardinality(scan.seen) < MaxFiles
  /\ \E p \in Sources(resolver.linker) \ scan.seen :
       /\ \A q \in Sources(resolver.linker) \ scan.seen : q = p \/ ReadBefore(p, q)
       /\ usage' = usage \cup EdgesOf(sdkTopics[scan.topic], tree[p[3]])
       /\ scan' = [scan EXCEPT !.seen = @ \cup {p}]
  /\ UNCHANGED <<engineFile, sdk, tree, topicIds, sdkTopics, resolution>>

\* The end of the sources, the limit, or the deadline at any source before: each
\* topic has its own.  A topic without names is not scanned for.
NextTopic(resolver) ==
  /\ Scanning
  /\ scan' = [topic |-> scan.topic + 1, seen |-> {},
              cut |-> scan.cut \/ (NamesOf(scan.topic) # {} /\ scan.seen # Sources(resolver.linker))]
  /\ UNCHANGED <<engineFile, sdk, tree, topicIds, sdkTopics, usage, resolution>>

\* The rest of resolve(): the reasons are those of the topics before they were
\* validated, so that a name the SDK does not declare is none.
TopicReasons(resolver) ==
  LET own == UNION {IF Configured(topic) THEN SdkTopic(resolver, topic).reasons
                    ELSE {"topic_config"} : topic \in Range(topicIds)}
  IN (IF sdk = NoSdk THEN own \cup {"sdk_index_not_available"} ELSE own \ {"sdk_not_validated"})
       \cup (IF tree = NoXts THEN {"xts_index_not_available"} ELSE {})

Conclude(resolver) ==
  /\ resolution = Unanswered /\ scan.topic > 0
  /\ tree = NoXts \/ scan.topic > Len(topicIds)
  /\ resolution' =
       [bucket |-> MaxTopicBucket(topicIds, sdkTopics, usage),
        modules |-> {e.project : e \in usage},
        families |-> RecommendedFamilies(topicIds, usage), reasons |-> TopicReasons(resolver)]
  /\ UNCHANGED <<engineFile, sdk, tree, topicIds, sdkTopics, usage, scan>>

\* resolve() of the four classes, each with its own copy of the steps.
Begin(resolver) == Refuse(resolver) \/ TakeRoute(resolver)
Link(resolver) == ScanSource(resolver) \/ NextTopic(resolver)

RouteGesture == Begin(GestureApiResolver)
LinkGesture == Link(GestureApiResolver)
ConcludeGesture == Conclude(GestureApiResolver)
ResolveGesture ==
  LayerResolver = GestureApiResolver /\ (RouteGesture \/ LinkGesture \/ ConcludeGesture)

RouteNativePeer == Begin(NativePeerResolver)
LinkNativePeer == Link(NativePeerResolver)
ConcludeNativePeer == Conclude(NativePeerResolver)
ResolveNativePeer ==
  LayerResolver = NativePeerResolver /\ (RouteNativePeer \/ LinkNativePeer \/ ConcludeNativePeer)

RouteAniBridge == Begin(AniBridgeResolver)
LinkAniBridge == Link(AniBridgeResolver)
ConcludeAniBridge == Conclude(AniBridgeResolver)
ResolveAniBridge ==
  LayerResolver = AniBridgeResolver /\ (RouteAniBridge \/ LinkAniBridge \/ ConcludeAniBridge)

RouteNativeEvent == Begin(NativeEventResolver)
LinkNativeEvent == Link(NativeEventResolver)
ConcludeNativeEvent == Conclude(NativeEventResolver)
ResolveNativeEvent ==
  LayerResolver = NativeEventResolver /\ (RouteNativeEvent \/ LinkNativeEvent \/ ConcludeNativeEvent)

TopicNext == ResolveGesture \/ ResolveNativePeer \/ ResolveAniBridge \/ ResolveNativeEvent

\* What is there to find, from the tables, the SDK and the tree: the names of the
\* topics that are public and, when there is an SDK, declared.
Sought ==
  {n \in UNION {TopicConfig[t].names : t \in {u \in Range(topicIds) : Configured(u)}} :
     n \notin LayerResolver.internal /\ (sdk = NoSdk \/ n \in sdk)}

Mentions(test, n) == {k \in DOMAIN test.mentions : test.mentions[k].name = n}
UsedIn(test) ==
  \E n \in Sought \ Compound :
    LET at == Mentions(test, n)
    IN at # {} /\ test.mentions[Min(at)].kind # "import_only"
MentionedIn(test) == \E n \in Sought : Mentions(test, n) # {}

\* The answer is what the test sources say.  Only names of the SDK are sought, those
\* the SDK does not declare no more, or the answer says that nobody looked; a test
\* project is named only for a source that mentions one; "recommended" needs a
\* source whose first mention of one is a use, and when no scan was cut short each
\* such source is found, its project and the bucket with it, although many topics
\* share a name and a source lies below many of the directories.
UsesAreFound ==
  /\ \A k \in DOMAIN sdkTopics : sdkTopics[k].names \subseteq Sought
  /\ resolution # Unanswered =>
       LET tests == IF tree = NoXts THEN {} ELSE {tree[p[3]] : p \in Sources(LayerResolver.linker)}
           projects == {t.project : t \in tests}
       IN /\ resolution.modules \subseteq {t.project : t \in {u \in tests : MentionedIn(u)}}
          /\ resolution.bucket = "recommended" =>
               /\ \E t \in tests : UsedIn(t)
               /\ sdk = NoSdk => "sdk_index_not_available" \in resolution.reasons
          /\ ~ scan.cut =>
               \A t \in tests : UsedIn(t) =>
                 /\ resolution.bucket = "recommended"
                 /\ t.project \in resolution.modules \cap resolution.families
          /\ resolution.bucket = "unresolved" <=> Unroutable(LayerResolver)

===============================================================================
