----------------------------- MODULE ApiLineage -----------------------------
(* The map of API lineage (api_lineage.py): which sources provide an API, from the
   declarations of the SDK and the sources of the engine, and which projects consume
   it, from the files of the tests and of the examples.

   An API is [kind, family, method]: a component, its modifier or a method of its
   attributes.  A path is a pair, so that declarations and sources are told apart; a
   symbol of a source is <<owner, verb, object>>, and is looked up without its owner.

   The SDK is [components, modifiers, common]: the component files by family, each
   with whether it declares the attributes of its family (declares), their methods,
   and whether its name has capitals inside (camel); the modifier files as pairs
   <<family, surface>>; the methods common to all components.
   A source is [path, dir, prefix, native, tokens, accessor, readable, rules, text]:
   the names that the path is read for, "" when it has none, the explicit rules of the
   file as triples <<family, method, object>>, and of the text the properties that it
   sets, its functions of content modifiers as pairs of a component and whether their
   name ends in Impl, whether one of them is for the menu item, and the spans
   <<symbol, first, last>> of its functions.
   A file of a project is [key, imported, calls, members, typed, bases]: the names it
   imports and calls as APIs, the methods it calls, those it calls on a type, and the
   families whose modifiers it extends or is typed by.                         *)
EXTENDS Naturals, Sequences, FiniteSets, SequencesExt, TLC

CONSTANTS
  AllowedMethods,     \* COMPONENT_ATTRIBUTE_METHOD_ALLOWLIST: the methods kept, by family
  InheritedFrom,   \* INHERITED_COMMON_METHOD_ALLOWLIST
  DirAlias     \* _DIR_TO_SDK_FAMILY: the family that a directory or a prefix stands for

Component(f) == [kind |-> "component", family |-> f, method |-> ""]
Modifier(f) == [kind |-> "modifier", family |-> f, method |-> ""]
Method(f, m) == [kind |-> "method", family |-> f, method |-> m]

-------------------------------------------------------------------------------
\* What _load_sdk_entities finds in the declarations.
Declared(d) == DOMAIN d.components
Modified(d) == {m[1] : m \in d.modifiers}
SdkFamilies(d) == Declared(d) \cup Modified(d)

ModifierApis(d, f) == IF f \in Modified(d) THEN {Modifier(f)} ELSE {}

\* The name of a component without a file of its own is that of its modifier.
FamilyApis(d, f) ==
  (IF f \in SdkFamilies(d) THEN {Component(f)} ELSE {}) \cup ModifierApis(d, f)

\* The attributes are looked for in the file named by the family in small letters.
OwnMethods(d, f) ==
  IF f \notin Declared(d) \/ d.components[f].camel \/ ~ d.components[f].declares THEN {}
  ELSE IF f \in DOMAIN AllowedMethods THEN d.components[f].methods \cap AllowedMethods[f]
  ELSE d.components[f].methods

InheritedMethods(d, f) ==
  IF f \in Declared(d) \cap DOMAIN InheritedFrom /\ d.components[f].declares
  THEN d.common \cap InheritedFrom[f] ELSE {}

MethodApis(d, f) == {Method(f, m) : m \in OwnMethods(d, f) \cup InheritedMethods(d, f)}

\* Who declares what: triples <<path, API, family>>.
SdkSources(d) ==
  {<<<<"declaration", f>>, Component(f), f>> : f \in Declared(d)}
    \cup {<<<<m[2], m[1]>>, Modifier(m[1]), m[1]>> : m \in d.modifiers}
    \cup UNION {{<<<<"declaration", f>>, Method(f, m), f>> : m \in OwnMethods(d, f)}
                  : f \in Declared(d)}
    \cup UNION {{<<<<"declaration", "common">>, Method(f, m), f>> : m \in InheritedMethods(d, f)}
                  : f \in Declared(d)}

SdkSurfaces(d) ==
  {<<Modifier(m[1]), m[2]>> : m \in d.modifiers}
    \cup UNION {{<<api, "static">> : api \in {Component(f)} \cup MethodApis(d, f)}
                  : f \in Declared(d)}

\* load_sdk_index, which reads the same directories: the symbols that
\* dynamic_module_symbols takes from it for a family.
OnlyDeclared(d) == Declared(d)    \* a component with a modifier only is forgotten
IndexedComponents(d) == Declared(d) \cup {f \in Modified(d) : f \notin Declared(d)}
SdkSymbols(d, f) ==
  (IF f \in IndexedComponents(d) THEN {Component(f)} ELSE {}) \cup ModifierApis(d, f)

-------------------------------------------------------------------------------
\* The map, empty; its pairs are kept in both directions by the code.
EmptyMap ==
  [sources |-> {}, symbols |-> {}, spans |-> {}, families |-> {}, surfaces |-> {},
   fileApis |-> {}, projectApis |-> {}, fileProjects |-> <<>>, kinds |-> <<>>]

RecordSources(map, triples) ==
  [map EXCEPT !.sources = @ \cup {<<t[1], t[2]>> : t \in triples},
              !.families = @ \cup {<<t[2], t[3]>> : t \in triples}]

SdkMap(d) == [RecordSources(EmptyMap, SdkSources(d)) EXCEPT !.surfaces = SdkSurfaces(d)]

\* _match_source_families: the directory of the component or its alias, the prefix of
\* the file, the prefix in native/implementation, and any other part of the path.
Resolve(d, name) ==
  IF name \in SdkFamilies(d) THEN {name}
  ELSE IF name \in DOMAIN DirAlias THEN {DirAlias[name]} \cap SdkFamilies(d) ELSE {}
MatchedFamilies(d, source) ==
  UNION {Resolve(d, name) : name \in {source.dir, source.prefix, source.native}}
    \cup (source.tokens \cap SdkFamilies(d))

\* The hints of _method_entity_symbol_hints, and of the functions of content modifiers.
Verbs == {"", "Set", "Update", "Reset", "Refresh", "Get", "GetProperty"}
Implements == {"ContentModifierImpl", "ResetContentModifierImpl"}
Hint(symbol) == <<symbol[2], symbol[3]>>

ContentMethods == {"contentModifier", "menuItemContentModifier"}

\* _record_explicit_source_fanout, as records <<API, hints>>.
ExplicitFanout(d, source) ==
  {<<x[2], {<<v, x[1][3]>> : v \in Implements}>> :
     x \in {y \in source.rules \X UNION {MethodApis(d, f) : f \in SdkFamilies(d)} :
              y[2].family = y[1][1] /\ y[2].method = y[1][2]}}

\* _detect_source_fanout: the expression takes the Impl at the end of a name for a part
\* of the component's, which is then unknown, while the hints are those of such names;
\* they are named after the family, even for the menu item.
DetectedFamilies(d, source) ==
  ({c[1] : c \in {x \in source.text.contents : ~ x[2]}} \cup (IF source.text.menu THEN {"menuitem", "select"} ELSE {}))
    \cap SdkFamilies(d)
DetectedFanout(d, source) ==
  {<<api, {<<v, api.family>> : v \in Implements}>> :
     api \in {a \in UNION {MethodApis(d, f) : f \in DetectedFamilies(d, source)} :
                a.method \in ContentMethods}}

Fanout(d, source) ==
  IF source.rules # {} THEN ExplicitFanout(d, source) ELSE DetectedFanout(d, source)

MethodMatches(source, relevant) ==
  {<<api, Verbs \X {api.method}>> : api \in {a \in relevant : a.method \in source.text.sets}}

\* The pass of _build_source_edges over one source: its families first, then what its
\* text says, which is read only when it may say something.
SourceEdges(d, map, source) ==
  LET matched == MatchedFamilies(d, source)
      relevant == UNION {MethodApis(d, f) : f \in matched}
      named == RecordSources(map,
                 UNION {{<<source.path, api, f>> : api \in FamilyApis(d, f)} : f \in matched})
      read == (relevant # {} \/ source.rules # {} \/ source.accessor) /\ source.readable
      found == IF read THEN Fanout(d, source) \cup MethodMatches(source, relevant) ELSE {}
  IN [RecordSources(named, {<<source.path, x[1], x[1].family>> : x \in found}) EXCEPT
        !.symbols = @ \cup UNION {{<<source.path, hint, x[1]>> : hint \in x[2]} : x \in found},
        !.spans = @ \cup (IF read THEN {<<source.path, s>> : s \in source.text.spans} ELSE {})]

-------------------------------------------------------------------------------
\* _record_consumer_matches: what a file of a project uses.
KnownApis(map) == {pair[2] : pair \in map.sources}

Contexts(map, file) ==
  LET names == file.imported \cup file.calls
  IN file.bases \cup {a.family : a \in names \cup file.typed}
       \cup {pair[2] : pair \in {p \in map.families : p[1] \in names}}

UsedApis(d, map, file) ==
  ((file.imported \cup file.calls \cup file.typed) \cap KnownApis(map))
    \cup UNION {ModifierApis(d, f) : f \in file.bases}
    \cup UNION {{api \in MethodApis(d, f) : api.method \in file.members} : f \in Contexts(map, file)}

\* The first to record a project says of what kind it is; a file without a path is not
\* recorded.
RecordConsumer(d, map, project, file, kind) ==
  LET used == UsedApis(d, map, file)
      keyed == file.key # "" /\ used # {}
  IN [map EXCEPT
        !.projectApis = @ \cup ({project} \X used),
        !.kinds = IF used = {} THEN @ ELSE @ @@ (project :> kind),
        !.fileApis = IF keyed THEN @ \cup ({file.key} \X used) ELSE @,
        !.fileProjects = IF keyed THEN (file.key :> project) @@ @ ELSE @]

\* _build_consumer_edges, of projects as a set of pairs <<project, files>>.
ConsumerEdges(d, map, projects, kind) ==
  LET list == SetToSeq(UNION {{x[1]} \X x[2] : x \in projects})
      Step(m, x) == RecordConsumer(d, m, x[1], x[2], kind)
  IN FoldLeft(Step, map, list)

\* build_api_lineage_map when there is no usable file.
BuildMap(d, engine, tests, examples) ==
  LET Step(m, source) == SourceEdges(d, m, source)
  IN ConsumerEdges(d, ConsumerEdges(d, FoldLeft(Step, SdkMap(d), SetToSeq(engine)),
                                    tests, "xts"),
                   {x \in examples : x[2] # {}}, "source_only")

-------------------------------------------------------------------------------
\* What the report asks of the map.
SourceApis(map, path) == {pair[2] : pair \in {p \in map.sources : p[1] = path}}

SymbolApis(map, path, symbol) ==
  {t[3] : t \in {x \in map.symbols : x[1] = path /\ x[2] = Hint(symbol)}}

SymbolsOfRange(map, path, first, last) ==
  {x[2][1] : x \in {s \in map.spans : s[1] = path /\ s[2][2] <= last /\ first <= s[2][3]}}

ProjectsOf(map, api, kind) == {y[1] : y \in {x \in map.projectApis : x[2] = api}}
ConsumerProjects(map, api, kind) ==
  {p \in ProjectsOf(map, api, kind) : map.kinds[p] = kind}

ConsumerFiles(map, project) == {f \in DOMAIN map.fileProjects : map.fileProjects[f] = project}

\* auto_pattern_alias
PatternAlias(map, f) == {pair[1] : pair \in {p \in map.families : p[2] = f}}

\* collect_source_only_consumers, before the lists are cut: who uses the APIs, where.
SourceOnlyConsumers(map, apis) ==
  [p \in UNION {ConsumerProjects(map, api, "source_only") : api \in apis} |->
     {f \in ConsumerFiles(map, p) : \E api \in apis : <<f, api>> \in map.fileApis}]
===============================================================================
