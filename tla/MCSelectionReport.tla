--------------------------- MODULE MCSelectionReport ---------------------------
(* Two components, button and slider, and the projects a change to them may meet. *)
EXTENDS SelectionReport, TLC

MCNames ==
  {"button", "buttonattribute", "buttonmodifier", "slider", "sliderattribute",
   "slidermodifier", "text", "commonattrs", "modifier", "role", "width", "step",
   "@ohos.button", "@ohos.slider"}

MCChange(pairs) == [n \in MCNames |-> IF n \in DOMAIN pairs THEN pairs[n] ELSE n]
MCBare == MCChange("buttonmodifier" :> "button" @@ "slidermodifier" :> "slider"
                   @@ "@ohos.button" :> "button" @@ "@ohos.slider" :> "slider")
MCOwnerOf == MCChange("buttonmodifier" :> "button" @@ "buttonattribute" :> "button"
                      @@ "slidermodifier" :> "slider" @@ "sliderattribute" :> "slider")
MCFamilyOfName == [n \in MCNames |-> {MCOwnerOf[n]} \cap {"button", "slider"}]
MCTypeOf == "button" :> "button" @@ "slider" :> "slider" @@ "text" :> "text"
MCSymbolsOf == "button" :> {"button", "buttonmodifier"} @@ "slider" :> {"slider"} @@ "text" :> {"text"}
MCAttributeOf ==
  "button" :> "buttonattribute" @@ "slider" :> "sliderattribute" @@ "text" :> "text"

-------------------------------------------------------------------------------
\* Test files and projects.
MCRole == <<"buttonattribute", "role">>
MCWidth == <<"buttonattribute", "width">>
MCStep == <<"sliderattribute", "step">>

MCPlain(surface) ==
  [path |-> {}, surface |-> surface, modules |-> {}, imported |-> {}, calls |-> {},
   members |-> {}, words |-> {}, bases |-> {}, typeCalls |-> {}, fields |-> {}]
MCImporting(surface, names) ==
  [MCPlain(surface) EXCEPT !.imported = names, !.calls = names, !.words = names]
MCReads(surface, names, pairs) ==
  [MCImporting(surface, names) EXCEPT !.fields = pairs, !.members = {p[2] : p \in pairs}]
MCCalls(pairs) ==
  [MCPlain("unknown") EXCEPT !.typeCalls = pairs, !.members = {p[2] : p \in pairs}]

MCTestProject(path, category, variant, tests) ==
  [path |-> path, category |-> category, variant |-> variant,
   files |-> [k \in DOMAIN tests |-> [tests[k] EXCEPT !.path = @ \cup path]]]

\* Those about the button and its role: read as a field, called, or only imported;
\* in a project of its own or in a suite about the common attributes.
MCProjectKinds ==
  << MCTestProject({"button"}, "button", "dynamic",
       <<[MCReads("dynamic", {"button"}, {MCRole}) EXCEPT !.path = {"button"}],
         MCImporting("dynamic", {"button", "text"})>>),
     MCTestProject({"commonattrs", "common"}, "attrs", "dynamic",
       <<[MCReads("dynamic", {"button", "buttonattribute"}, {MCRole, MCWidth})
            EXCEPT !.typeCalls = {MCRole}, !.modules = {"@ohos.button"}]>>),
     MCTestProject({"button"}, "button", "static",
       <<[MCImporting("static", {"button"}) EXCEPT !.typeCalls = {MCRole}, !.members = {"role"}]>>),
     MCTestProject({"modifier"}, "modifier", "both",
       <<[MCReads("static", {"buttonmodifier"}, {<<"button", "role">>}) EXCEPT !.bases = {"button"},
            !.path = {"button"}],
         MCReads("dynamic", {"buttonattribute"}, {MCRole})>>),
     MCTestProject({"slider", "button"}, "slider", "dynamic",
       <<[MCReads("unknown", {"slider", "button"}, {MCStep}) EXCEPT !.modules = {"@ohos.slider"}]>>),
     MCTestProject({}, "slider", "both", <<MCCalls({MCStep})>>),
     MCTestProject({"modifier"}, "slider", "both", <<MCCalls({MCStep})>>),
     MCTestProject({"slider"}, "slider", "both",
       <<[MCImporting("unknown", {"sliderattribute"}) EXCEPT !.members = {"step"}]>>),
     MCTestProject({"commonattrs"}, "layout", "dynamic", <<MCImporting("dynamic", {"button"})>>),
     MCTestProject({"commonattrs"}, "layout", "unknown",
       <<[MCImporting("unknown", {"slider"}) EXCEPT !.path = {"button"}], MCImporting("unknown", {"text"})>>) >>

\* The runs meet four of them.
MCCorpora ==
  LET picks == {set \in SUBSET (DOMAIN MCProjectKinds) : Cardinality(set) = 4}
      Order(set) == SetToSortSeq(set, <)
  IN {[k \in DOMAIN Order(set) |-> MCProjectKinds[Order(set)[k]]] : set \in picks}

-------------------------------------------------------------------------------
\* Changed files and queries.
MCRule ==
  [symbols |-> {"slidermodifier"}, modules |-> {"@ohos.slider"}, hints |-> {"modifier"},
   families |-> {"slider"}, types |-> {"sliderattribute"}, methods |-> {"step"},
   members |-> {MCStep}, required |-> TRUE]

MCSource(kind, components) ==
  [kind |-> kind, place |-> "component", ranges |-> TRUE, components |-> components,
   traced |-> {}, calledBy |-> {}, apiMethods |-> {}, exports |-> {}, members |-> {},
   functions |-> {}, owned |-> {}, used |-> {}, public |-> {}, strong |-> {}, weak |-> {},
   rules |-> {}]
MCAsked(name, member, rules) ==
  [name |-> name, member |-> member, components |-> {name}, rules |-> rules]

MCMap(apis, symbols, consumed) ==
  [apis |-> apis, symbols |-> symbols, consumed |-> consumed, known |-> TRUE]
MCSymbol(name, apis) == [name |-> name, apis |-> apis]

MCOf(subject, surface, shared, lineage) ==
  [query |-> FALSE, surface |-> surface, shared |-> shared, subject |-> subject,
   lineage |-> lineage]
MCAsk(subject, surface) ==
  [query |-> TRUE, surface |-> surface, shared |-> FALSE, subject |-> subject,
   lineage |-> NoLineage]

MCButtonApi == <<"button", "">>
MCChanged ==
  << MCOf(MCSource("native", {"button"}), "both", FALSE,
       MCMap({MCButtonApi, MCRole, MCStep},
             <<MCSymbol("setRole", {MCRole}), MCSymbol("setWidth", {MCWidth}), MCSymbol("x", {})>>,
             {MCRole})),
     MCOf(MCSource("native", {"button"}), "dynamic", FALSE,
       MCMap({MCButtonApi, MCWidth}, <<>>, {MCButtonApi})),
     MCOf([MCSource("ets", {"button"}) EXCEPT !.apiMethods = {"role"}, !.exports = {"buttonattribute"},
             !.used = {"text"}, !.public = {"width"}], "static", FALSE, NoLineage),
     MCOf([MCSource("header", {}) EXCEPT !.place = "utility",
             !.calledBy = {<<"button", "role">>, <<"slider", "step">>}], "both", TRUE, NoLineage),
     MCOf([MCSource("native", {"button", "slider"}) EXCEPT !.place = "common",
             !.exports = {"text"}, !.functions = {"role", "step", "width"}], "both", TRUE, NoLineage),
     MCOf([MCSource("ts", {"button"}) EXCEPT !.functions = {"role"}, !.weak = {"@ohos.slider"},
             !.members = {MCRole}], "both", FALSE, NoLineage),
     MCOf([MCSource("ts", {}) EXCEPT !.place = "state", !.exports = {"text"}], "both", TRUE, NoLineage),
     MCOf([MCSource("other", {}) EXCEPT !.rules = {MCRule}], "both", FALSE, NoLineage),
     MCOf(MCSource("other", {}), "both", FALSE,
       MCMap({MCStep}, <<MCSymbol("setStep", {})>>, {})),
     MCOf(MCSource("other", {}), "both", FALSE, MCMap({}, <<MCSymbol("helper", {})>>, {})) >>
MCQueries ==
  << MCAsk(MCAsked("button", {}, {}), "both"),
     MCAsk(MCAsked("button", {MCRole}, {}), "static"),
     MCAsk(MCAsked("slider", {}, {MCRule}), "both"),
     MCAsk(MCAsked("slider", {MCStep}, {}), "dynamic") >>

MCItems ==
  {<<MCChanged[k]>> : k \in DOMAIN MCChanged} \cup {<<MCQueries[k]>> : k \in DOMAIN MCQueries}
    \cup {<<MCChanged[1], MCQueries[3]>>}

MCLimits(variants, relevance, keep, top) ==
  [variants |-> variants, relevance |-> relevance, keep |-> keep, top |-> top]
MCOptions ==
  {MCLimits("auto", "all", 1, 2), MCLimits("both", "balanced", 0, 0),
   MCLimits("static", "strict", 1, 1)}
===============================================================================
