------------------------------- MODULE Scoring -------------------------------
(* How a test project is judged against the signals of a change (scoring.py and
   the profiles of file_indexing.py): the points of its files, the bucket and the
   scope they give, the signature by which projects count as duplicates.  The
   second half says which signals a change has.

   Names are in the compact form in which the code compares them (lower case);
   a path is the set of its tokens.

   signals: [modules, weakModules, symbols, weakSymbols, hints, families, methods,
             types, members, required, exact, common, commonTypes], sets but for
             required; members and exact hold pairs <<owner, member>>; common
             holds the symbols that too many projects import, commonTypes those
             of them that a type is compared with, none for a query.
   file:    [path, surface, modules, imported, calls, members, words, bases,
             typeCalls, fields], the last two sets of pairs.
   project: [path, category, variant, files], files in the order in which they are found. *)
EXTENDS Integers, Sequences, FiniteSets, SequencesExt, FiniteSetsExt, SemanticGate

CONSTANTS
  Bare,             \* Bare[n]: the name n without "Modifier"
  OwnerOf,          \* OwnerOf[n]: n without the suffixes of an API's owner
  UbiquitousBases,  \* UBIQUITOUS_BASES
  GenericScope,     \* tokens of paths that are broad
  FamilyKeys        \* the tokens that are families to cover

If(condition, points) == IF condition THEN points ELSE 0
Sum(set, Points(_)) == MapThenSumSet(Points, set)

Owners(pairs) == {pair[1] : pair \in pairs}

-------------------------------------------------------------------------------
\* compute_signal_symbol_df and the 30% limit, over the candidate projects.
ImportedBy(p) == UNION {p.files[k].imported : k \in DOMAIN p.files}

CommonSymbols(candidates, s) ==
  {n \in s.symbols \cup s.weakSymbols :
     10 * Cardinality({k \in DOMAIN candidates : n \in ImportedBy(candidates[k])})
       > 3 * Len(candidates)}

\* symbol_score: a common symbol that the path does not name counts 1, one of the
\* ubiquitous bases does unless the path or the families name it.
Soft(n, f, s) == n \in s.common /\ Bare[n] \notin f.path
Strong(n, f, s) == Bare[n] \notin UbiquitousBases \ (f.path \cup s.families)

ImportPoints(n, f, s, weak) ==
  IF n \notin f.imported THEN 0
  ELSE IF Soft(n, f, s) \/ ~ Strong(n, f, s) THEN 1
  ELSE IF weak THEN 2 ELSE 7

CallPoints(n, f, s, weak) ==
  IF n \notin f.calls THEN 0
  ELSE IF Soft(n, f, s) \/ ~ Strong(n, f, s) THEN 1
  ELSE IF weak THEN If(n \in f.imported, 1) + 1
  ELSE IF n \in f.imported THEN 3 ELSE 4

WordPoints(n, f, s, weak) ==
  IF n \notin f.words \/ weak \/ ~ Strong(n, f, s) THEN 0
  ELSE IF Bare[n] \in UbiquitousBases THEN 1 ELSE 2

SymbolScore(n, f, s, weak) ==
  ImportPoints(n, f, s, weak) + CallPoints(n, f, s, weak)
    + If(n \in f.members, IF ~ weak /\ Strong(n, f, s) THEN 4 ELSE 1)
    + WordPoints(n, f, s, weak)

\* The names that the types and the methods of the signals are compared with.
HintedTypes(s) == s.methods \cup s.types
Constructed(f, s) == HintedTypes(s) \cap f.calls
ImportedTypes(f, s) == HintedTypes(s) \cap f.imported
CalledOn(f, s) == {pair \in f.typeCalls : pair[1] \in HintedTypes(s)}
FieldsOf(f, s) == {pair \in f.fields : pair[1] \in HintedTypes(s)}
TypedModifiers(f, s) == {n \in s.symbols : Bare[n] # n /\ Bare[n] \in f.bases}
ExactMembers(f, s) == s.members \cap (f.fields \cup f.typeCalls)

\* A type that is common counts 1 where another one counts in full.
TypePoints(names, s, points) ==
  IF names = {} THEN 0 ELSE IF names \subseteq s.commonTypes THEN 1 ELSE points

Evidence(f, s) ==
  10 * Cardinality(s.modules \cap f.modules) + 2 * Cardinality(s.weakModules \cap f.modules)
    + Sum(s.symbols, LAMBDA n : SymbolScore(n, f, s, FALSE))
    + Sum(s.weakSymbols, LAMBDA n : SymbolScore(n, f, s, TRUE))
    + If(TypedModifiers(f, s) # {}, 5)
    + If(s.methods \cap f.members # {}, 5)
    + TypePoints(Constructed(f, s), s, 5) + TypePoints(ImportedTypes(f, s), s, 3)
    + If(CalledOn(f, s) # {}, 5) + If(FieldsOf(f, s) # {}, 9)
    + If(ExactMembers(f, s) # {}, 11)
    + 3 * Cardinality(s.hints \cap f.path)

\* score_file: methods the file does not call take points away; when the change was
\* traced to its methods and the file calls none of them, its score is at most 5.
Missing(f, s) == s.methods \ f.members

ScoreFile(f, s) ==
  IF ~ s.required THEN Max({0, Evidence(f, s) - Min({4, 2 * Cardinality(Missing(f, s))})})
  ELSE IF s.methods # {} /\ s.methods = Missing(f, s) THEN Min({5, Evidence(f, s)})
  ELSE Evidence(f, s)

-------------------------------------------------------------------------------
\* The reasons of a file's score that later steps look at, <<kind, names>>.
Each(kind, names) == {<<kind, {n}>> : n \in names}
All(kind, names) == IF names = {} THEN {} ELSE {<<kind, names>>}

FullOrSoft(kind, soft, names, f, s) ==
  Each(kind, {n \in names : ~ Soft(n, f, s)}) \cup Each(soft, {n \in names : Soft(n, f, s)})

FileReasons(f, s) ==
  Each("imports", s.modules \cap f.modules)
  \cup Each("weak imports", s.weakModules \cap f.modules)
  \cup FullOrSoft("imports symbol", "soft imports symbol", s.symbols \cap f.imported, f, s)
  \cup FullOrSoft("calls", "soft calls", s.symbols \cap f.calls, f, s)
  \cup Each("member call", s.symbols \cap f.members)
  \cup Each("weak member call", s.weakSymbols \cap f.members)
  \cup FullOrSoft("weak imports symbol", "soft weak imports symbol", s.weakSymbols \cap f.imported, f, s)
  \cup FullOrSoft("weak calls", "soft weak calls", s.weakSymbols \cap f.calls, f, s)
  \cup All("typed modifier", TypedModifiers(f, s))
  \cup All("calls methods", s.methods \cap f.members)
  \cup All("constructs", Constructed(f, s) \ s.commonTypes)
  \cup All("imports hinted", ImportedTypes(f, s) \ s.commonTypes)
  \cup All("type member", CalledOn(f, s)) \cup All("fields", FieldsOf(f, s))
  \cup All("exact", ExactMembers(f, s))
  \cup Each("mentions", {n \in s.symbols : WordPoints(n, f, s, FALSE) > 0})
  \cup Each("path", s.hints \cap f.path)
  \cup (IF ScoreFile(f, s) < Evidence(f, s) THEN All("missing", Missing(f, s)) ELSE {})

\* _is_direct_evidence_reason, by the first words of a reason.
DirectKinds ==
  {"imports", "imports symbol", "soft imports symbol", "calls", "soft calls",
   "member call", "typed modifier", "calls methods", "constructs", "imports hinted",
   "type member", "fields"}
IsDirect(reason) == reason[1] \in DirectKinds

\* score_project: file_hits, the numbers of the files that score, best first.
FileHits(p, s) ==
  LET score[k \in DOMAIN p.files] == ScoreFile(p.files[k], s)
      Better(j, k) == score[j] > score[k] \/ (score[j] = score[k] /\ j < k)
  IN SetToSortSeq({k \in DOMAIN p.files : score[k] > 0}, Better)

TopScore(p, s, hits) == IF hits = <<>> THEN 0 ELSE ScoreFile(p.files[hits[1]], s)

\* floor(log2(n)), n of at least 1.
Log2(n) == Max({k \in 0..n : 2^k <= n})

ScoreProject(p, s, hits) ==
  10 * Cardinality(s.hints \cap p.path) + TopScore(p, s, hits)
    + IF hits = <<>> THEN 0 ELSE Log2(Len(hits))

\* The reasons of the first n hits.
FirstReasons(p, s, hits, n) ==
  UNION {FileReasons(p.files[hits[k]], s) : k \in 1..Min({n, Len(hits)})}

\* project_has_non_lexical_evidence.  What follows "imports " is compared with the
\* common symbols, but for a symbol it is "symbol X", and what follows "calls " is
\* "X() (ubiquitous" once the points were reduced: only a call that the path
\* supports is ever left out.
Discriminates(reason, s) ==
  \/ reason[1] \in DirectKinds \ {"typed modifier", "imports", "calls"}
  \/ reason[1] \in {"imports", "calls"} /\ reason[2] \cap s.common = {}

NonLexical(p, s, hits) == \E r \in FirstReasons(p, s, hits, 3) : Discriminates(r, s)

\* infer_project_type_hint_profile and infer_project_member_hint_profile.
HitFiles(p, hits) == {p.files[hits[k]] : k \in DOMAIN hits}
DirectTypes(p, s, hits) == s.types \cap UNION {Owners(f.fields) : f \in HitFiles(p, hits)}
DirectMembers(p, s, hits) == s.members \cap UNION {f.fields : f \in HitFiles(p, hits)}
UsedMembers(p, s, hits) ==
  s.members \cap UNION {f.fields \cup f.typeCalls : f \in HitFiles(p, hits)}

HasDirectHints(p, s, hits) ==
  DirectTypes(p, s, hits) # {} \/ DirectMembers(p, s, hits) # {}

\* The families of infer_project_family_profile: of the path of the project, and of
\* the paths and the reasons of its first five hits.
OfPairs == {"type member", "fields", "exact"}
ReasonNames(reasons) ==
  UNION {r[2] : r \in {x \in reasons : x[1] \notin OfPairs \cup {"missing"}}}
    \cup UNION {Owners(r[2]) : r \in {x \in reasons : x[1] \in OfPairs}}

Families(p, s, hits) ==
  FamilyKeys \cap
    (p.path \cup UNION {p.files[hits[k]].path : k \in 1..Min({5, Len(hits)})}
            \cup {Bare[n] : n \in ReasonNames(FirstReasons(p, s, hits, 5))})

\* candidate_bucket, then apply_must_run_gate, which lets what has direct hints pass.
CandidateBucket(score, nonLexical, direct) ==
  IF ~ nonLexical \/ score < 12 THEN "excluded"
  ELSE IF score < 24 THEN "possible related"
  ELSE IF direct THEN "must-run" ELSE "high-confidence related"

Gated(bucket, nonLexical, direct, score) ==
  LegacyBucket(IF bucket = "must-run" THEN "must_run" ELSE bucket,
    [nonLexical |-> nonLexical, direct |-> direct, reasons |-> "other", weak |-> score <= 12])

BucketOfGate(bucket) == IF bucket = "must_run" THEN "must-run" ELSE bucket

GatedBucket(score, nonLexical, direct) ==
  BucketOfGate(Gated(CandidateBucket(score, nonLexical, direct), nonLexical, direct, score))

\* specificity_target_tokens: the hints, or the families, or the symbols.
Targets(s) ==
  (IF s.hints # {} THEN s.hints ELSE IF s.families # {} THEN s.families
   ELSE {Bare[n] : n \in s.symbols}) \ GenericScope

\* classify_project_scope: how tightly the evidence of a project is about the change;
\* n hits, of which the first three are looked at.
SpecificityOf(inPaths, aligned, broad, direct, top, total, n) ==
  [direct |-> direct, broad |-> broad, top |-> top, total |-> total, aligned |-> aligned,
   score |-> If(inPaths # {}, IF Cardinality(inPaths) > 1 THEN 6 ELSE 4) + If(aligned, 4)
           + (IF direct >= 4 THEN 5 ELSE IF direct >= 2 THEN 3 ELSE direct)
           + If(total > 0, IF 10 * top >= 6 * total THEN 4 ELSE If(10 * top >= 4 * total, 2))
           + (IF n \in 1..2 THEN 2 ELSE If(n >= 6, -2))
           - 2 * Min({2, broad})]

FirstFiles(p, hits) == {p.files[hits[k]] : k \in 1..Min({3, Len(hits)})}
DirectReasons(p, s, hits) ==
  Sum(1..Min({3, Len(hits)}),
      LAMBDA k : Cardinality({r \in FileReasons(p.files[hits[k]], s) : IsDirect(r)}))

Specificity(p, s, hits) ==
  SpecificityOf(Targets(s) \cap UNION {f.path : f \in FirstFiles(p, hits)},
    Targets(s) \cap p.path # {}, Cardinality(p.path \cap GenericScope),
    DirectReasons(p, s, hits), TopScore(p, s, hits),
    Sum(DOMAIN hits, LAMBDA k : ScoreFile(p.files[hits[k]], s)), Len(hits))

Umbrella(it, n) == (it.broad > 0 /\ ~ it.aligned) \/ (n >= 5 /\ it.direct <= 1)

Scope(it, n) ==
  IF /\ it.aligned /\ it.direct >= 2 /\ it.broad = 0 /\ it.score >= 8
     /\ it.total > 0 /\ 100 * it.top >= 35 * it.total
  THEN "direct"
  ELSE IF ~ Umbrella(it, n) /\ it.score >= 4 THEN "focused" ELSE "broad"

\* Mutant: the signature says where a test is and not what it uses.
PlaceOnly(p, s, hits) == [category |-> p.category]

\* coverage_signature: all reasons (with the points that a cap took) and member calls
\* of the files that score, and the last part of the path.
Signature(p, s, hits) ==
  [reasons |-> UNION {FileReasons(f, s) : f \in HitFiles(p, hits)},
   capped |-> {Evidence(f, s) - ScoreFile(f, s) : f \in HitFiles(p, hits)},
   members |-> UNION {f.members : f \in HitFiles(p, hits)},
   category |-> p.category]

-------------------------------------------------------------------------------
(* What is looked for after a change: the signals of a changed file
   (signal_inference.py), narrowed to the changed APIs when the map of API lineage
   knows them, and the signals of a symbol query (query.py).

   A changed file is a record of what the code reads from its path and its text:
     kind        "native", "header", "ets", "ts" or "other"
     place       "state" or "manager" (infrastructure of all components), "utility"
                 (a header of a shared directory), "common" or "component"
     surface     the surface the file belongs to, "both" when it is of none
     ranges      the changed lines are known; what follows is then read from them
     components, traced   components named by its path, or traced by its symbols
     calledBy    pairs <<component, method>> of the modifiers that call the header
     apiMethods  the API methods of a generated .ets that were changed
     exports, members, functions   what it declares, members as pairs; the exports
                 of native code are the types that its accessors are for
     owned, used the names it imports: those of its own families, and others it uses
     public      its public methods
     strong, weak the modules it imports, those of its own families and others
     rules       the rules of the configuration whose key its path or text matches *)

CONSTANTS
  TypeOf,        \* the type of a component
  SymbolsOf,     \* the symbols that the SDK index and the aliases have for it
  AttributeOf,   \* the owner of its attribute methods
  FamilyOfName,  \* the families (none or one) that a name stands for
  CommonHints,   \* COMMON_PROJECT_HINTS
  GenericTokens  \* GENERIC_PATH_TOKENS and CONTENT_MODIFIER_NOISE

NoSignals ==
  [modules |-> {}, weakModules |-> {}, symbols |-> {}, weakSymbols |-> {}, hints |-> {},
   families |-> {}, methods |-> {}, types |-> {}, members |-> {}, required |-> FALSE,
   exact |-> {}, common |-> {}, commonTypes |-> {}]

Infrastructure == {"state", "manager"}
Native == {"native", "header"}

\* The components of the path; the symbols are traced only when it names none.
Named(file) ==
  IF file.components = {} /\ file.kind \in Native THEN file.traced ELSE file.components

\* trace_shared_file_to_components, not done for a shared directory without ranges.
Shared(file) ==
  IF file.kind # "header" \/ (file.place = "utility" /\ ~ file.ranges) THEN {}
  ELSE file.calledBy

\* The methods traced in a generated .ets of a known component.
TracedMethods(file) ==
  IF file.kind = "ets" /\ file.components # {} THEN file.apiMethods ELSE {}

\* method_hint_required, where the last assignment wins.
Required(file) ==
  \/ \E rule \in file.rules : rule.required
  \/ Shared(file) # {}
  \/ TracedMethods(file) # {} /\ file.place \notin Infrastructure

\* The public methods of a .ets count when there are few and its subject is clear.
PublicMethods(file) ==
  IF /\ file.kind = "ets" /\ Cardinality(file.public) \in 1..6
     /\ \/ Cardinality(file.components) \in 1..2
        \/ Cardinality(file.exports) = 1
  THEN file.public ELSE {}

-------------------------------------------------------------------------------
\* What each part of infer_signals adds; the parts only add to the sets.
Together(parts) ==
  [f \in DOMAIN NoSignals \ {"required"} |-> UNION {part[f] : part \in parts}]

\* The components of the path or of the traced symbols.
PathSignals(file) ==
  [NoSignals EXCEPT !.hints = Named(file), !.families = Named(file),
     !.types = {TypeOf[c] : c \in Named(file)}, !.symbols = UNION {SymbolsOf[c] : c \in Named(file)}]

GeneratedSignals(file) ==
  [NoSignals EXCEPT !.methods = TracedMethods(file),
     !.members = {<<AttributeOf[c], m>> : c \in file.components, m \in TracedMethods(file)}]

\* A strong name of a text is a type, and the families that it stands for.
StrongNames(names) ==
  [NoSignals EXCEPT !.symbols = names, !.types = names,
     !.hints = UNION {FamilyOfName[n] : n \in names},
     !.families = UNION {FamilyOfName[n] : n \in names}]
PlainNames(names) == [NoSignals EXCEPT !.symbols = names, !.types = names]

EtsSignals(file) ==
  IF file.kind # "ets" THEN {}
  ELSE {StrongNames(file.exports \cup Owners(file.members) \cup file.owned),
        [NoSignals EXCEPT !.modules = file.strong, !.weakModules = file.weak,
           !.weakSymbols = file.used, !.members = file.members,
           !.methods = file.apiMethods \cup PublicMethods(file)]}

\* Changes of the infrastructure are about whatever the file exports.
InfrastructureSignals(file) ==
  IF file.place \notin Infrastructure THEN {}
  ELSE {IF file.place = "state" THEN PlainNames(file.exports) ELSE NoSignals,
        [NoSignals EXCEPT !.hints = CommonHints]}

TsSignals(file) ==
  IF file.kind # "ts" THEN {}
  ELSE {StrongNames(file.exports), PlainNames(Owners(file.members)),
        [NoSignals EXCEPT !.modules = file.strong, !.weakModules = file.weak,
           !.members = file.members, !.methods = file.functions]}

\* The functions of native code count only when the changed lines are known.
NativeSignals(file) ==
  IF file.kind \notin Native THEN {}
  ELSE {PlainNames(file.exports),
        [NoSignals EXCEPT !.hints = file.exports, !.modules = file.strong,
           !.methods = IF file.ranges THEN file.functions ELSE {}]}

SharedSignals(file) ==
  LET components == {pair[1] : pair \in Shared(file)}
  IN [NoSignals EXCEPT
        !.hints = components \cup (IF /\ file.kind = "header" /\ file.place = "utility"
                                      /\ ~ file.ranges
                                   THEN CommonHints ELSE {}),
        !.families = components, !.types = {TypeOf[c] : c \in components},
        !.symbols = UNION {SymbolsOf[c] : c \in components},
        !.methods = {pair[2] : pair \in Shared(file)},
        !.members = {<<AttributeOf[pair[1]], pair[2]>> : pair \in Shared(file)}]

RuleSignals(rule) ==
  [NoSignals EXCEPT !.symbols = rule.symbols, !.modules = rule.modules, !.hints = rule.hints,
     !.families = rule.families, !.types = rule.types, !.methods = rule.methods,
     !.members = rule.members]

\* The end of infer_signals: what is strong is not weak, and generic words are none.
Normalised(s, required) ==
  [NoSignals EXCEPT
     !.modules = s.modules, !.weakModules = s.weakModules \ s.modules,
     !.symbols = s.symbols, !.weakSymbols = s.weakSymbols \ s.symbols,
     !.hints = s.hints \ GenericTokens, !.families = s.families \ GenericTokens,
     !.methods = s.methods, !.types = s.types, !.members = s.members,
     !.required = required]

InferSignals(file) ==
  Normalised(
    Together({PathSignals(file), GeneratedSignals(file), SharedSignals(file),
              IF file.place = "common" THEN [NoSignals EXCEPT !.hints = CommonHints] ELSE NoSignals}
             \cup EtsSignals(file) \cup InfrastructureSignals(file) \cup TsSignals(file)
             \cup NativeSignals(file) \cup {RuleSignals(rule) : rule \in file.rules}),
    Required(file))

-------------------------------------------------------------------------------
\* The lineage of a file: the APIs it provides, those of its changed symbols, those
\* that some project consumes, and whether there is a map of lineage at all;
\* an API is <<owner, method>>, the method "" when the API is the owner itself.
NoLineage == [apis |-> {}, symbols |-> <<>>, consumed |-> {}, known |-> FALSE]

Narrowed(lineage) ==
  UNION {lineage.symbols[k].apis : k \in DOMAIN lineage.symbols}
AffectedApis(lineage) ==
  IF Narrowed(lineage) # {} THEN Narrowed(lineage) ELSE lineage.apis

\* apply_api_lineage_signals: what the changed symbols provide replaces what the file
\* was seen to be about, what the whole file provides is added to it.
ApplyLineage(s, lineage) ==
  LET apis == AffectedApis(lineage)
      methods == {api \in apis : api[2] # ""}
      owners == Owners(apis)
      bases == {OwnerOf[o] : o \in owners}
      Old(set) == IF Narrowed(lineage) # {} THEN {} ELSE set
  IN [s EXCEPT
        !.symbols = Old(@) \cup Owners(apis \ methods),
        !.hints = Old(@) \cup bases, !.families = Old(@) \cup bases,
        !.methods = Old(@) \cup {api[2] : api \in methods},
        !.types = Old(@) \cup owners, !.members = Old(@) \cup methods,
        !.exact = methods]

\* build_query_signals: of a query that names a member the owner and the method are
\* kept, the member itself is not among what is returned.
QuerySignals(query) ==
  LET components == query.components
      named == components \cup UNION {r.families : r \in query.rules}
  IN [NoSignals EXCEPT
        !.symbols = {query.name} \cup UNION {SymbolsOf[c] : c \in components}
                      \cup UNION {r.symbols : r \in query.rules},
        !.hints = ({query.name, Bare[query.name]} \cup named \cup UNION {r.hints : r \in query.rules})
                    \ GenericTokens,
        !.families = ({query.name, Bare[query.name]} \cup named) \ GenericTokens,
        !.types = Owners(query.member) \cup UNION {r.types : r \in query.rules},
        !.methods = {pair[2] : pair \in query.member} \cup UNION {r.methods : r \in query.rules},
        !.required = \E r \in query.rules : r.required]
===============================================================================
