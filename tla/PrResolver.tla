------------------------------ MODULE PrResolver ------------------------------
(***************************************************************************)
(* The resolution of a pull request to test projects                       *)
(* (indexing/pr_resolver.py): the changed files one by one, each by the    *)
(* first resolver that knows it, then the coverage and coupling indexes,   *)
(* the policy for the CI, the fallback and the ranking, in the order of    *)
(* batch_validate.py.                                                      *)
(*                                                                         *)
(* A changed file is a record of what the resolvers find for it:           *)
(*   category  of _classify_file, "source" if it is to be resolved         *)
(*   matches   the targets that the resolvers which know the file give     *)
(*             for it, by resolver                                         *)
(*   risk      the risk that the matching resolver or rule states          *)
(*   bridge    the kind of a bridge: "generated" (or authored), "koala" or *)
(*             "infrastructure"                                            *)
(*   mappings  its mappings to APIs: their API, whether they have a        *)
(*             canonical id, and one that the SDK confirms, their          *)
(*             strength, whether they are of a common method, and whether  *)
(*             a changed range touches them                                *)
(*   comment   whether only comments have changed                          *)
(*   excluded  whether its path is left out of the actionable files        *)
(*   strongRole  whether its role can have APIs that the SDK confirms      *)
(*   importers, covers                                                     *)
(*             what the import graph, and the coverage and coupling        *)
(*             indexes, add                                                *)
(***************************************************************************)
EXTENDS Integers, SequencesExt

CONSTANTS
  RecommendedCap, \* BUCKET_CAPS: the most targets that are recommended
  FallbackCap,  \* and the most that are kept as a fallback
  Profiles,     \* the records that changed files can have
  NFiles,       \* the number of changed files
  Apis, Projects,
  ById,         \* the inverted index: the projects that use an API, by its
  ByMember,     \* canonical id, by its member and parent, and by its name
  ByName,
  StrongUse,    \* the pairs of API and project that the index calls strong
  Family,       \* the projects whose path has the family of a file in it
  CommonLimit,  \* from this number of consumers on a common API is narrowed
  AreaCap,      \* the most targets of an area
  BroadTargets, \* the projects that the fallback adds for broad rules
  Siblings      \* and for each project: those of its family

ASSUME CapAssumption ==
  /\ RecommendedCap \in Nat /\ FallbackCap \in Nat /\ AreaCap \in Nat \ {0} /\ NFiles \in Nat
  /\ IsFiniteSet(Projects) /\ Projects \subseteq Nat

\* What the indexes lead to are projects.
ASSUME IndexAssumption ==
  /\ \A index \in {ById, ByMember, ByName} : index \in [Apis -> SUBSET Projects]
  /\ BroadTargets \subseteq Projects /\ Siblings \in [Projects -> SUBSET Projects]

\* So are the matches of a file.  A rule of the overrides without targets is not loaded,
\* and the resolvers of bridges and of C++ files never state a low risk.
ApiMapping ==
  [api : Apis, id : BOOLEAN, sdk : BOOLEAN, strong : BOOLEAN, common : BOOLEAN, touched : BOOLEAN]
ASSUME ProfileAssumption ==
  \A f \in Profiles :
    /\ \A r \in DOMAIN f.matches : f.matches[r] \subseteq Projects
    /\ "override" \in DOMAIN f.matches => f.matches["override"] # {}
    /\ f.risk \in (IF {"bridge", "cpp"} \cap DOMAIN f.matches = {} THEN {"low"} ELSE {})
                  \cup {"medium", "high", "critical"}
    /\ f.mappings \subseteq ApiMapping /\ f.comment \in BOOLEAN
    /\ f.importers \subseteq Projects /\ f.covers \subseteq Projects

VARIABLES
  files,       \* the changed files
  phase,       \* "files", "enrich", "fallback", "rank" or "done"
  entries,     \* the entries made so far, one for each file
  risk,        \* the overall risk
  affected, covered,          \* the APIs that are changed, and those with consumers
  unresolved, lowConfidence,  \* the files, by their numbers
  found,       \* the semantic sources seen: "api", "family", "broad"
  gap, policy, source,        \* the results
  extra        \* the targets of the fallback

result == <<gap, policy, source>>
vars == <<files, phase, entries, risk, affected, covered, unresolved, lowConfidence, found,
          gap, policy, source, extra>>

-----------------------------------------------------------------------------
(* The ranking of the targets (target_ranking.py): each project gets the   *)
(* best bucket that a file gives it and a score, and the buckets but the   *)
(* first are cut to their caps.  Projects are numbers: their order is the  *)
(* order of the project paths.  Scores count halves of a point.            *)
Buckets == <<"must_run", "recommended", "fallback">>

\* What the entry of a file says for its projects.
HasCanonical(e) == e.canonical # {}
HasDirect(e) == \E p \in DOMAIN e.reasons : e.reasons[p].strong
HasSdk(e) == e.bridge

ClassifyBucket(canonical, direct, sdk) ==
  CASE canonical /\ (direct \/ sdk) -> "must_run"
    [] canonical /\ ~direct /\ ~sdk -> "recommended"
    [] ~canonical /\ (direct \/ sdk) -> "recommended"
    [] OTHER -> "fallback"

BucketOf(e) == ClassifyBucket(HasCanonical(e), HasDirect(e), HasSdk(e))

\* The entries that select a project, and the projects that any selects.
For(p, es) == {i \in DOMAIN es : p \in es[i].projects}
Selected(es) == UNION {es[i].projects : i \in DOMAIN es}

BestBucket(p, es) ==
  Buckets[Min({k \in DOMAIN Buckets : \E i \in For(p, es) : BucketOf(es[i]) = Buckets[k]})]

\* Two halves for an entry with a canonical API, one for another.
Score(p, es) == Cardinality(For(p, es)) + Cardinality({i \in For(p, es) : HasCanonical(es[i])})

OfBucket(bucket, es) == {p \in Selected(es) : BestBucket(p, es) = bucket}

\* The order in a bucket: the highest scores first, equal ones in that of the projects.
Precedes(p, q, es) ==
  \/ Score(p, es) > Score(q, es)
  \/ Score(p, es) = Score(q, es) /\ p < q

Cap(bucket, n) ==
  CASE bucket = "must_run" -> n
    [] bucket = "recommended" -> RecommendedCap
    [] bucket = "fallback" -> FallbackCap

(* Variant: the end of the list is kept.                                   *)
LastOfBucket(bucket, es) ==
  LET those == OfBucket(bucket, es) IN
  {p \in those : Cardinality({q \in those : Precedes(p, q, es)}) < Cap(bucket, Cardinality(those))}

KeptOfBucket(bucket, es) ==
  LET those == OfBucket(bucket, es) IN
  {p \in those : Cardinality({q \in those : Precedes(q, p, es)}) < Cap(bucket, Cardinality(those))}

Kept(es) == UNION {KeptOfBucket(b, es) : b \in Range(Buckets)}

\* apply_target_ranking: the projects that are kept; the reasons stay as they are.
ApplyRanking(es) ==
  [i \in DOMAIN es |-> [es[i] EXCEPT !.projects = @ \cap Kept(es)]]

-----------------------------------------------------------------------------
(* The resolution. *)

Risks == <<"low", "medium", "high", "critical">>
Rank(r) == CHOOSE i \in 1..4 : Risks[i] = r
Worse(r, s) == IF Rank(s) > Rank(r) THEN s ELSE r

Init ==
  /\ files \in [1..NFiles -> Profiles]
  /\ phase = "files" /\ entries = <<>> /\ risk = "low"
  /\ affected = {} /\ covered = {} /\ unresolved = {} /\ lowConfidence = {}
  /\ found = {}
  /\ gap = {} /\ policy = "none" /\ source = "none" /\ extra = {}

-----------------------------------------------------------------------------
(* The first resolver that knows the file. *)

Knows(resolver, f) ==
  CASE resolver = "skip" -> f.category # "source"
    [] resolver = "mappings" -> TRUE
    [] resolver = "naming" -> "naming" \in DOMAIN f.matches /\ f.matches["naming"] # {}
    [] OTHER -> resolver \in DOMAIN f.matches

\* An IDL file that cannot be parsed does not match "idl" and goes on.
Order == <<"skip", "native", "override", "idl", "bridge", "overtake", "cpp", "naming", "mappings">>

Resolver(f) == Order[Min({k \in DOMAIN Order : Knows(Order[k], f)})]

-----------------------------------------------------------------------------
(* Consumers and reasons. *)

\* By the canonical id, else by member and parent, else by the bare name.
Consumers(a, byId) ==
  IF byId /\ ById[a] # {} THEN ById[a]
  ELSE IF ByMember[a] # {} THEN ByMember[a] ELSE ByName[a]

ApisOf(ms) == {m.api : m \in ms}
CanonicalOf(ms) == {m.api : m \in {x \in ms : x.id /\ x.sdk}}

\* The pairs of an API and a project that uses it; a native interface is looked
\* up by the id only if the SDK confirms it.
Links(ms) == UNION {{m.api} \X Consumers(m.api, m.id) : m \in ms}
ConfirmedLinks(ms) == UNION {{m.api} \X Consumers(m.api, m.id /\ m.sdk) : m \in ms}
LinksByName(ms) == UNION {{m.api} \X ByName[m.api] : m \in ms}

\* The consumers of a common method are cut to the family of the file.
Narrow(m) ==
  LET all == Consumers(m.api, m.id) IN
  IF m.common /\ Cardinality(all) > CommonLimit /\ all \cap Family # {}
    THEN all \cap Family ELSE all
NarrowedLinks(ms) == UNION {{m.api} \X Narrow(m) : m \in ms}

\* The reason for each project: given ones, and those that links lead to.
Reasons(given, links, strong) ==
  [p \in given \cup {l[2] : l \in links} |->
     [apis |-> {l[1] : l \in {k \in links : k[2] = p}}, strong |-> p \in strong]]

NoReasons == Reasons({}, {}, {})

-----------------------------------------------------------------------------
(* One file. *)

N == Len(entries) + 1
File == files[N]
Turn(r) == phase = "files" /\ N <= NFiles /\ Resolver(File) = r
Given(r) == File.matches[r]

\* The entry of the present file.
Entry(r, ms, reasons, level, broad) ==
  [resolver |-> r, apis |-> ApisOf(ms), canonical |-> CanonicalOf(ms),
   projects |-> DOMAIN reasons, reasons |-> reasons, risk |-> level, broad |-> broad,
   bridge |-> r = "bridge" /\ File.bridge = "generated"]

(* Variant: a consumer of one API of a file covers all of them.            *)
RecordCovered(r, ms, links, reasons, level, broad) ==
  /\ entries' = Append(entries, Entry(r, ms, reasons, level, broad))
  /\ risk' = Worse(risk, level)
  /\ affected' = affected \cup ApisOf(ms)
  /\ covered' = IF links = {} THEN covered ELSE covered \cup ApisOf(ms)
  /\ UNCHANGED <<files, phase, result, extra>>

\* What it does to the totals.
Record(r, ms, links, reasons, level, broad) ==
  /\ entries' = Append(entries, Entry(r, ms, reasons, level, broad))
  /\ risk' = Worse(risk, level)
  /\ affected' = affected \cup ApisOf(ms)
  /\ covered' = covered \cup {l[1] : l \in links}
  /\ UNCHANGED <<files, phase, result, extra>>

ApiIfAny(ms) == IF ms = {} THEN {} ELSE {"api"}

Skip ==
  /\ Turn("skip")
  /\ Record("skip", {}, {}, NoReasons, "low", FALSE)
  /\ UNCHANGED <<unresolved, lowConfidence, found>>

ResolveNative ==
  LET links == ConfirmedLinks(File.mappings) IN
  /\ Turn("native")
  /\ Record("native", File.mappings, links, Reasons(Given("native"), links, {}), "medium", FALSE)
  /\ found' = found \cup {"family"} \cup ApiIfAny(File.mappings)
  /\ UNCHANGED <<unresolved, lowConfidence>>

Override ==
  /\ Turn("override")
  /\ Record("override", {}, {}, Reasons(Given("override"), {}, Given("override")), "low", FALSE)
  /\ UNCHANGED <<unresolved, lowConfidence, found>>

\* IDL methods have bare names only.
IdlMappings == {[m EXCEPT !.id = FALSE, !.sdk = FALSE] : m \in File.mappings}

(* Variant: an API is taken for covered.                                   *)
IdlRiskOfApis(links) == IF File.mappings = {} THEN "high" ELSE "low"

IdlRisk(links) ==
  IF File.mappings = {} THEN "high" ELSE IF links = {} THEN "medium" ELSE "low"

ResolveIdl ==
  LET links == LinksByName(IdlMappings) IN
  /\ Turn("idl")
  /\ Record("idl", IdlMappings, links, Reasons({}, links, {}), IdlRisk(links), FALSE)
  /\ found' = found \cup ApiIfAny(File.mappings)
                    \cup (IF IdlRisk(links) = "medium" THEN {"family"} ELSE {})
  /\ UNCHANGED <<unresolved, lowConfidence>>

\* A bridge that is not one of a component takes back what other files said of
\* families.
ResolveBridge ==
  LET component == File.bridge # "infrastructure"
      targets == IF component THEN Given("bridge") ELSE {} IN
  /\ Turn("bridge")
  /\ Record("bridge", {}, {}, Reasons(targets, {}, {}), File.risk, FALSE)
  /\ found' = IF component THEN found \cup {"family"} ELSE found \ {"family"}
  /\ UNCHANGED <<unresolved, lowConfidence>>

ResolveOvertaking ==
  /\ Turn("overtake")
  /\ Record("broad", {}, {}, NoReasons, File.risk, TRUE)
  /\ found' = found \cup {"broad"}
  /\ UNCHANGED <<unresolved, lowConfidence>>

ResolveCpp ==
  LET links == Links(File.mappings) IN
  /\ Turn("cpp")
  /\ Record("cpp", File.mappings, links, Reasons(Given("cpp"), links, {}), File.risk, FALSE)
  /\ found' = found \cup {"family"}
  /\ UNCHANGED <<unresolved, lowConfidence>>

ResolveNaming ==
  /\ Turn("naming")
  /\ Record("naming", {}, {}, Reasons(Given("naming"), {}, {}), "medium", FALSE)
  /\ found' = found \cup {"family"}
  /\ UNCHANGED <<unresolved, lowConfidence>>

-----------------------------------------------------------------------------
(* The mappings of a file to APIs, and what is tried without any. *)

\* The mappings that the changed ranges touch.  When only comments have changed
\* they are made anew, without the confirmation of the SDK.
Mappings ==
  LET touched == {m \in File.mappings : m.touched} IN
  IF File.comment THEN {[m EXCEPT !.sdk = FALSE] : m \in touched} ELSE touched

MappedReasons ==
  LET links == NarrowedLinks(Mappings) IN
  Reasons(File.importers, links, {l[2] : l \in links \cap StrongUse})

ClassifyRisk(ms, projects) ==
  CASE ms = {} \/ projects = {} -> "high"
    [] ms # {} /\ projects # {} ->
         IF File.comment \/ Cardinality(projects) >= 3 \/ (\E m \in ms : m.strong)
           THEN "low" ELSE "medium"

NothingFound == Mappings = {} /\ DOMAIN MappedReasons = {}

ResolveMapped ==
  /\ Turn("mappings") /\ ~NothingFound
  /\ Record("mappings", Mappings, NarrowedLinks(Mappings), MappedReasons,
            ClassifyRisk(Mappings, DOMAIN MappedReasons), FALSE)
  /\ found' = found \cup ApiIfAny(Mappings)
                    \cup (IF DOMAIN MappedReasons = {} THEN {"family"} ELSE {})
  /\ UNCHANGED <<unresolved, lowConfidence>>

HasArea == "area" \in DOMAIN File.matches /\ Given("area") # {}
HasTokens == "tokens" \in DOMAIN File.matches /\ Given("tokens") # {}

(* Variant: the file is still counted as unresolved.                       *)
FallBackUnresolved(r) ==
  /\ Turn("mappings") /\ NothingFound
  /\ r = IF HasArea THEN "area" ELSE "tokens"
  /\ HasArea \/ HasTokens
  /\ Record(r, {}, {}, Reasons(Given(r), {}, {}), "low", FALSE)
  /\ lowConfidence' = lowConfidence \cup {N} /\ unresolved' = unresolved \cup {N}
  /\ UNCHANGED found

\* The first targets of the area, or the projects with a similar name.
FallBackTo(r) ==
  /\ Turn("mappings") /\ NothingFound
  /\ r = IF HasArea THEN "area" ELSE "tokens"
  /\ HasArea \/ HasTokens
  /\ LET targets == IF r = "area" THEN {p \in Given(r) : Cardinality({q \in Given(r) : q < p}) < AreaCap}
                                  ELSE Given(r)
     IN  Record(r, {}, {}, Reasons(targets, {}, {}), "low", FALSE)
  /\ lowConfidence' = lowConfidence \cup {N}
  /\ UNCHANGED <<unresolved, found>>

\* The file counts as unresolved, also if a broad rule then stands in for it.
LeaveUnresolved ==
  /\ Turn("mappings") /\ NothingFound /\ ~HasArea /\ ~HasTokens
  /\ unresolved' = unresolved \cup {N}
  /\ IF "broad" \in DOMAIN File.matches
       THEN /\ Record("broad", {}, {}, NoReasons, File.risk, TRUE)
            /\ found' = found \cup {"broad"}
       ELSE /\ Record("unresolved", {}, {}, NoReasons, "high", FALSE)
            /\ UNCHANGED found
  /\ UNCHANGED lowConfidence

EndOfFiles ==
  /\ phase = "files" /\ N > NFiles
  /\ phase' = "enrich"
  /\ UNCHANGED <<files, entries, risk, affected, covered, unresolved, lowConfidence, found,
                 result, extra>>

-----------------------------------------------------------------------------
(* The results of all files. *)

SemanticSource ==
  IF found = {} THEN "unknown"
  ELSE IF "api" \in found THEN "api" ELSE IF "family" \in found THEN "family" ELSE "broad"

\* _compute_ci_policy
CiPolicy ==
  LET open == Cardinality(unresolved)
      weak == Cardinality(lowConfidence) IN
  IF \/ \E i \in DOMAIN entries : entries[i].broad /\ entries[i].risk = "critical"
     \/ 2 * open > NFiles /\ NFiles > 2
     \/ risk = "critical" THEN "manual_review"
  ELSE IF risk = "high" THEN "require_broader_suite"
  ELSE IF risk = "medium" \/ (2 * weak > NFiles /\ NFiles > 2) \/ open > 0 THEN "warn"
  ELSE "ok"

\* Coverage and coupling add projects to every entry; then the results are made.
Enrich ==
  LET enriched(i) ==
        LET e == entries[i]
            new == files[i].covers \ e.projects
        IN  [e EXCEPT !.projects = @ \cup new,
                      !.reasons = [p \in e.projects \cup new |->
                                     IF p \in new THEN [apis |-> {}, strong |-> FALSE]
                                                  ELSE e.reasons[p]]]
  IN
  /\ phase = "enrich"
  /\ entries' = [i \in DOMAIN entries |-> enriched(i)]
  /\ gap' = affected \ covered
  /\ policy' = CiPolicy /\ source' = SemanticSource
  /\ phase' = "fallback"
  /\ UNCHANGED <<files, risk, affected, covered, unresolved, lowConfidence, found, extra>>

\* The files with an API, a project or a broad rule are less than two fifths.
FewAreCovered ==
  5 * Cardinality({i \in DOMAIN entries : \/ entries[i].apis # {} \/ entries[i].projects # {}
                                          \/ entries[i].broad}) < 2 * NFiles

\* _expand_to_family_coverage
FamilyCoverage ==
  UNION {IF entries[i].broad THEN BroadTargets ELSE UNION {Siblings[p] : p \in entries[i].projects} :
           i \in DOMAIN entries}

\* The extra targets are reported beside the entries.
ApplyFallback ==
  /\ phase = "fallback"
  /\ extra' = IF risk = "critical" \/ (risk = "high" /\ FewAreCovered)
                THEN FamilyCoverage \ Selected(entries) ELSE {}
  /\ phase' = "rank"
  /\ UNCHANGED <<files, entries, risk, affected, covered, unresolved, lowConfidence, found, result>>

RankTargets ==
  /\ phase = "rank"
  /\ entries' = ApplyRanking(entries)
  /\ phase' = "done"
  /\ UNCHANGED <<files, risk, affected, covered, unresolved, lowConfidence, found, result, extra>>

Next ==
  \/ Skip \/ ResolveNative \/ Override \/ ResolveIdl \/ ResolveBridge \/ ResolveOvertaking
  \/ ResolveCpp \/ ResolveNaming \/ ResolveMapped \/ LeaveUnresolved
  \/ \E r \in {"area", "tokens"} : FallBackTo(r)
  \/ EndOfFiles \/ Enrich \/ ApplyFallback \/ RankTargets

Spec == Init /\ [][Next]_vars

-----------------------------------------------------------------------------
(* Properties *)

TypeOK ==
  /\ phase \in {"files", "enrich", "fallback", "rank", "done"}
  /\ risk \in Range(Risks)
  /\ \A i \in DOMAIN entries : /\ entries[i].apis \subseteq Apis
                              /\ entries[i].projects \subseteq Projects
                              /\ entries[i].risk \in Range(Risks)
  /\ affected \subseteq Apis /\ covered \subseteq affected /\ gap \subseteq affected
  /\ unresolved \subseteq DOMAIN entries /\ lowConfidence \subseteq DOMAIN entries
  /\ found \subseteq {"api", "family", "broad"}
  /\ policy \in {"none", "ok", "warn", "require_broader_suite", "manual_review"}
  /\ source \in {"none", "api", "family", "broad", "unknown"}
  /\ extra \subseteq Projects

\* Every changed file has one entry, in the order of the files; until the
\* ranking, every project of an entry has a reason.  A file that leads to
\* nothing is named as unresolved, unless it is of a category without impact, a
\* broad rule stands for it, or the resolver that knows it gives no targets;
\* and only such files are named.
EveryFileIsAccounted ==
  /\ TypeOK
  /\ phase # "files" => Len(entries) = NFiles
  /\ \A i \in DOMAIN entries :
       LET e == entries[i] IN
       /\ phase # "done" => DOMAIN e.reasons = e.projects
       /\ DOMAIN e.reasons = {} /\ e.apis = {} =>
            i \in unresolved \/ Resolver(files[i]) \notin {"override", "naming", "mappings"}
       /\ i \in unresolved =>
            e.apis = {} /\ e.projects \subseteq files[i].covers /\ i \notin lowConfidence

\* An affected API is in the coverage gap exactly if no project of any file was
\* selected for it, by whichever resolver.
GapIsComplete ==
  phase \in {"fallback", "rank", "done"} =>
    \A a \in Apis :
      LET named == \E i \in DOMAIN entries, p \in Projects :
                     p \in DOMAIN entries[i].reasons /\ a \in entries[i].reasons[p].apis IN
      a \in gap <=> (\E i \in DOMAIN entries : a \in entries[i].apis) /\ ~named

\* What the ranking was given: the projects of the entries before it.
BeforeRanking ==
  [i \in DOMAIN entries |-> [entries[i] EXCEPT !.projects = DOMAIN entries[i].reasons]]

\* The projects of a bucket that the request still selects, and whether they use up its cap.
StaysIn(bucket) == {p \in Selected(entries) : BestBucket(p, BeforeRanking) = bucket}
IsFull(bucket) == bucket # "must_run" /\ Cardinality(StaysIn(bucket)) = Cap(bucket, 0)

\* No file has a higher risk than the whole, and the CI is told "ok" only if no file is
\* unresolved and every one has a test to run, or needs none: it is of a category without
\* impact or a broad rule says that the risk is low.  The verdict is made before the
\* ranking, and cli.py reports it so; in the ranked answer of a batch, a file may have
\* lost all its tests, but only to buckets that other tests fill to the cap.
OkMeansSelected ==
  /\ \A i \in DOMAIN entries : Rank(entries[i].risk) <= Rank(risk)
  /\ policy = "ok" =>
       /\ unresolved = {}
       /\ \A i \in DOMAIN entries :
            \/ entries[i].projects # {} \/ entries[i].broad \/ entries[i].resolver = "skip"
            \/ /\ phase = "done" /\ DOMAIN entries[i].reasons # {}
               /\ \A p \in DOMAIN entries[i].reasons : IsFull(BestBucket(p, BeforeRanking))

\* The ranking drops no project for which a file has a canonical API and a strong use or a
\* generated bridge.  Another one is dropped only if its bucket is full, and no project of
\* that bucket stays that has a lower score, or for which fewer of the same entries speak.
\* Between the buckets nothing is promised: a project with a strong use but no canonical
\* API can be dropped as one too many of "recommended" while projects of "fallback" stay.
StrongestSurvive ==
  phase = "done" =>
    \A p \in Selected(BeforeRanking) \ Selected(entries) :
      LET bucket == BestBucket(p, BeforeRanking) IN
      /\ \A i \in For(p, BeforeRanking) :
           HasCanonical(entries[i]) => ~HasDirect(entries[i]) /\ ~HasSdk(entries[i])
      /\ IsFull(bucket)
      /\ \A q \in StaysIn(bucket) :
           /\ Precedes(q, p, BeforeRanking)
           /\ For(q, BeforeRanking) \subseteq For(p, BeforeRanking) =>
                For(q, BeforeRanking) = For(p, BeforeRanking)
=============================================================================
