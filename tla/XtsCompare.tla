------------------------------ MODULE XtsCompare ------------------------------
(* xts_compare: what the results of two or more runs say about the tests.

   A command names its runs by paths, by the labels of selector runs or by a
   directory that is searched for archives.  The runs are brought into an order,
   loaded, and compared test by test; the exit code is for a CI job.

   A test is its identity (module, suite, case); its module is ModuleOf.  A message
   is [hits, print, size]: the failure types whose patterns match it, its fingerprint
   and its length.  A path has [kind, suffix, special, xml, start, named, cases,
   errors, devices]: what lies there, whether its name ends in .zip or .tar.gz,
   whether it holds links or devices, its summary_report.xml, the times in
   summary.ini and in the name (0 without one), the test cases of the summary and,
   by module, the failure types that the error in data.js matches.             *)
EXTENDS Naturals, Sequences, FiniteSets, SequencesExt, FiniteSetsExt

CONSTANTS
  Paths,         \* paths, numbered from 1 in the order of their names
  Tests,         \* identities of test cases, likewise
  ModuleOf,      \* test -> module
  Worlds,        \* what may be on the disk: [files, store, folder]
  Commands,      \* command lines
  MinTimeDelta,  \* --min-time-delta
  MinTimeRatio,  \* --min-time-ratio
  TokensOf       \* module -> the tokens of its name that count

\* Where names, times and sizes are compared they are numbers; paths lead to places of the
\* disk.
IsPaths(ps) == ps \in Seq(Paths)
IsCase(case) == case.test \in Tests /\ case.message.size \in Nat /\ case.ms \in Nat
ASSUME CompareAssumption ==
  /\ Paths \subseteq Nat \ {0}
  /\ \A w \in Worlds :
       /\ IsPaths(w.folder) /\ \A m \in w.store : IsPaths(m.paths) /\ m.time \in Nat /\ m.name \in Nat
       /\ \A p \in Paths :
            /\ w.files[p].start \in Nat /\ w.files[p].named \in Nat
            /\ w.files[p].cases \in Seq(Range(w.files[p].cases))
            /\ \A case \in Range(w.files[p].cases) : IsCase(case)
  /\ \A c \in Commands :
       /\ IsPaths(c.timeline) /\ IsPaths(c.paths) /\ c.limit \in Nat
       /\ {c.base.path, c.target.path} \subseteq Paths \cup {0}

VARIABLES
  world,         \* the disk: path -> content, the manifests, the searched entries
  command,       \* the arguments
  stage,         \* where main() is
  entries,       \* directory-scan: the entries still to look at
  sources,       \* the runs to load, in their order
  loaded,        \* the runs loaded: [label, results]
  shown,         \* what the command has printed, Silence before
  verdict        \* the exit code, 3 before

compareVars == <<world, command, stage, entries, sources, loaded, shown, verdict>>

Outcomes == {"PASS", "FAIL", "BLOCKED", "ERROR", "UNKNOWN"}
Failing == {"FAIL", "ERROR"}
Silence == [kind |-> "nothing"]
-------------------------------------------------------------------------------
\* classify_outcome
Outcome(status, result) ==
  IF status = "run" /\ result = "true" THEN "PASS"
  ELSE IF status = "run" /\ result = "false" THEN "FAIL"
  ELSE IF status = "disable" THEN "BLOCKED"
  ELSE IF status = "error" THEN "ERROR" ELSE "UNKNOWN"

\* _PATTERN_GROUPS: the first group with a match.
PatternGroups == <<"CRASH", "TIMEOUT", "CAST_ERROR", "ASSERTION", "RESOURCE">>

FailureType(hits) ==
  LET first == {k \in DOMAIN PatternGroups : PatternGroups[k] \in hits}
  IN IF first = {} THEN "UNKNOWN" ELSE PatternGroups[Min(first)]

\* open_archive_details.  "torn" is an archive that breaks while it is read.
Opens(content, strict) ==
  content.kind \in {"directory", "folder"} \/ (content.kind = "archive" /\ ~ (content.special /\ strict))

\* parse_summary_xml, and the types again when data.js has an error of the module.
Result(case, errors) ==
  LET outcome == Outcome(case.status, case.result)
      module == ModuleOf[case.test]
      error == IF module \in DOMAIN errors THEN errors[module] ELSE {}
  IN [outcome |-> outcome, message |-> case.message, ms |-> case.ms,
      type |-> IF outcome \in Failing THEN FailureType(case.message.hits \cup error)
               ELSE "UNKNOWN"]

\* The last of several cases of one test wins.
LastOfTest(cases, test) == cases[Max({k \in DOMAIN cases : cases[k].test = test})]

\* load_run: the run, or nothing after an error.
LoadRun(path, label, strict) ==
  LET content == world.files[path] IN
  IF ~ Opens(content, strict) \/ content.xml # "whole" THEN <<>>
  ELSE <<[label |-> label, path |-> path, devices |-> content.devices,
          results |-> [t \in {content.cases[k].test : k \in DOMAIN content.cases} |->
                         Result(LastOfTest(content.cases, t), content.errors)]]>>

\* resolve_labeled_run: of the manifests with the label the best, by whether it has
\* results on the disk, whether it completed, its time, and at last its own path.
Comparable(manifest) == {p \in Range(manifest.paths) : world.files[p].kind # "missing"}

ManifestRank(manifest) ==
  IF Comparable(manifest) = {} THEN 0 ELSE IF manifest.completed THEN 2 ELSE 1

Better(m, n) ==
  \/ ManifestRank(m) > ManifestRank(n)
  \/ /\ ManifestRank(m) = ManifestRank(n)
     /\ m.time > n.time \/ (m.time = n.time /\ m.name > n.name)

LabelledRun(label) ==
  {m \in world.store : m.label = label
     /\ \A n \in world.store : n.label = label /\ n # m => Better(m, n)}

\* _build_merged_metadata: the shards of a run must not share a test.
Merged(shards, label) ==
  LET tests(p) == DOMAIN shards[p].results
      twice == \E p, q \in DOMAIN shards : p # q /\ tests(p) \cap tests(q) # {}
  IN IF twice THEN <<>>
     ELSE <<[label |-> label, path |-> 0,
             devices |-> UNION {shards[p].devices : p \in DOMAIN shards},
             results |-> [t \in UNION {tests(p) : p \in DOMAIN shards} |->
                shards[CHOOSE p \in DOMAIN shards : t \in tests(p)].results[t]]]>>

\* _load_labeled_run
LoadParts(manifest, label, strict) ==
  LET paths == Comparable(manifest) IN
  IF \E p \in paths : LoadRun(p, label, strict) = <<>> THEN <<>>
  ELSE Merged([p \in paths |-> LoadRun(p, label, strict)[1]], label)

LoadLabelled(label, strict) ==
  LET found == {m \in LabelledRun(label) : Comparable(m) # {}} IN
  IF found = {} THEN <<>> ELSE LoadParts(CHOOSE m \in found : TRUE, label, strict)

\* _load_compare_source
Load(source) ==
  IF source.label # "" THEN LoadLabelled(source.label, command.strict)
  ELSE LoadRun(source.path, source.path, command.strict)
-------------------------------------------------------------------------------
\* _summary_ini_timestamp, _filename_timestamp
IniTime(path) == IF Opens(world.files[path], FALSE) THEN world.files[path].start ELSE 0
NameTime(path) == world.files[path].named

\* sorted(), by the times, then by the names: where as many come before.
Earlier(i, j, ps, time) ==
  \/ time[ps[i]] < time[ps[j]]
  \/ time[ps[i]] = time[ps[j]] /\ (ps[i] < ps[j] \/ (ps[i] = ps[j] /\ i < j))
Position(i, ps, time) == Cardinality({j \in DOMAIN ps : Earlier(j, i, ps, time)})

Sorted(ps, time) ==
  [k \in DOMAIN ps |-> ps[CHOOSE i \in DOMAIN ps : Position(i, ps, time) = k - 1]]

IniTimes(ps) == [p \in Range(ps) |-> IniTime(p)]
NameTimes(ps) == [p \in Range(ps) |-> NameTime(p)]

\* Variant: each path is placed by the best time it has itself.
SortByAnyTime(ps) ==
  Sorted(ps, [p \in Range(ps) |-> IF IniTime(p) > 0 THEN IniTime(p) ELSE NameTime(p)])

\* sort_run_paths: by the first kind of time that all of them have, else by name.
SortRunPaths(ps) ==
  IF \A p \in Range(ps) : IniTime(p) > 0 THEN Sorted(ps, IniTimes(ps))
  ELSE IF \A p \in Range(ps) : NameTime(p) > 0 THEN Sorted(ps, NameTimes(ps))
  ELSE Sorted(ps, [p \in Range(ps) |-> 0])

\* An archive that breaks while it is read ends the program, not just its entry.
Breaks(path) == world.files[path].kind = "torn"

FromPath(p) == [path |-> p, label |-> ""]
FromPaths(ps) == [k \in DOMAIN ps |-> FromPath(ps[k])]
Given(source) == source.path # 0 \/ source.label # ""
-------------------------------------------------------------------------------
\* Variant: an error is not taken for a failure.
TransitionByTable(base, target) ==
  IF base = "none" THEN (IF target = "PASS" THEN "NEW_PASS" ELSE IF target = "FAIL" THEN "NEW_FAIL"
                         ELSE IF target = "BLOCKED" THEN "NEW_BLOCKED" ELSE "STATUS_CHANGE")
  ELSE IF target = "none" THEN "DISAPPEARED"
  ELSE IF base = "PASS" /\ target = "PASS" THEN "STABLE_PASS"
  ELSE IF base = "PASS" /\ target = "FAIL" THEN "REGRESSION"
  ELSE IF base \in Failing /\ target = "PASS" THEN "IMPROVEMENT"
  ELSE IF base = "FAIL" /\ target = "FAIL" THEN "PERSISTENT_FAIL"
  ELSE "STATUS_CHANGE"

\* classify_transition, "none" for a test that a run does not have.
Transition(base, target) ==
  CASE base = "none" /\ target = "PASS"             -> "NEW_PASS"
    [] base \in {"none", "BLOCKED"} /\ target = "FAIL" -> "NEW_FAIL"
    [] base \in {"none", "FAIL"} /\ target = "BLOCKED" -> "NEW_BLOCKED"
    [] base # "none" /\ target = "none"             -> "DISAPPEARED"
    [] base = "PASS" /\ target = "PASS"             -> "STABLE_PASS"
    [] base = "PASS" /\ target \in Failing          -> "REGRESSION"
    [] base \in Failing /\ target = "PASS"          -> "IMPROVEMENT"
    [] base \in Failing /\ target = "FAIL"          -> "PERSISTENT_FAIL"
    [] base = "BLOCKED" /\ target = "PASS"          -> "UNBLOCKED"
    [] base = "BLOCKED" /\ target = "BLOCKED"       -> "STABLE_BLOCKED"
    [] OTHER                                        -> "STATUS_CHANGE"

OutcomeIn(results, t) == IF t \in DOMAIN results THEN results[t].outcome ELSE "none"

\* cluster_failures: the failures with one fingerprint, under the shortest message.
Shown(message) == IF message.size = 0 THEN [message EXCEPT !.print = "(no message)"] ELSE message

Clusters(failed, results) ==
  LET print(t) == Shown(results[t].message).print
      cluster(p) == {t \in failed : print(t) = p}
      sizes(p) == {results[t].message.size : t \in cluster(p)} \ {0}
  IN {[print |-> p, tests |-> cluster(p), modules |-> {ModuleOf[t] : t \in cluster(p)},
       canonical |-> IF sizes(p) = {} THEN 0 ELSE Min(sizes(p))] :
        p \in {print(t) : t \in {f \in failed : results[f].outcome \in Failing}}}

\* detect_performance_regressions, either way.
Slower(fast, slow) ==
  fast > 0 /\ slow >= fast + MinTimeDelta /\ slow >= MinTimeRatio * fast

\* compare_runs
Comparison(base, target) ==
  LET tests == DOMAIN base \cup DOMAIN target
      kinds == [t \in tests |-> Transition(OutcomeIn(base, t), OutcomeIn(target, t))]
      of(kind) == {t \in tests : kinds[t] = kind}
      both == DOMAIN base \cap DOMAIN target
      failed == of("REGRESSION") \cup of("NEW_FAIL") \cup of("PERSISTENT_FAIL")
  IN [kind |-> "comparison", kinds |-> kinds,
      regressions |-> of("REGRESSION"), improvements |-> of("IMPROVEMENT"),
      newFails |-> of("NEW_FAIL"), persistent |-> of("PERSISTENT_FAIL"),
      disappeared |-> of("DISAPPEARED"),
      causes |-> Clusters(failed, target),
      slowdowns |-> {t \in both : Slower(base[t].ms, target[t].ms)},
      speedups |-> {t \in both : Slower(target[t].ms, base[t].ms)}]

\* _match_modules: the compared modules that share the most tokens with the project.
MatchedModules(tokens, modules) ==
  LET overlap(m) == Cardinality(tokens \cap TokensOf[m])
      best == Max({0} \cup {overlap(m) : m \in modules})
  IN IF best = 0 THEN {} ELSE {m \in modules : overlap(m) = best}

\* correlate_with_selector: per changed file of the report.
Correlated(comparison, prediction) ==
  LET modules == {ModuleOf[t] : t \in DOMAIN comparison.kinds}
      moved(kind, ms) == {t \in DOMAIN comparison.kinds :
                            comparison.kinds[t] = kind /\ ModuleOf[t] \in ms}
      matched == [k \in DOMAIN prediction |-> MatchedModules(prediction[k], modules)]
  IN [projects |-> [k \in DOMAIN prediction |->
        [modules |-> matched[k],
         regressions |-> moved("REGRESSION", matched[k]),
         improvements |-> moved("IMPROVEMENT", matched[k]),
         unchanged |-> /\ matched[k] # {}
                       /\ \A kind \in {"REGRESSION", "IMPROVEMENT", "UNBLOCKED"} :
                            moved(kind, matched[k]) = {}]],
      missed |-> {t \in comparison.regressions :
                    \A k \in DOMAIN prediction : ModuleOf[t] \notin matched[k]}]
-------------------------------------------------------------------------------
Decided(outcomes) == {k \in DOMAIN outcomes : outcomes[k] \in {"PASS", "FAIL"}}
NextTo(j, k, set) == j < k /\ \A i \in set : i <= j \/ k <= i
Turning(outcomes) ==
  \A j, k \in Decided(outcomes) : NextTo(j, k, Decided(outcomes)) => outcomes[j] # outcomes[k]

\* Variant: one change is enough.
AlternatesOnce(outcomes) == Cardinality(Decided(outcomes)) >= 2 /\ Turning(outcomes)

\* Flaky: passes and failures alternate, three at least.
Alternates(outcomes) == Cardinality(Decided(outcomes)) >= 3 /\ Turning(outcomes)

\* _compute_trend splits the runs in two halves, the later one the larger.
Halves(outcomes) == <<1..Len(outcomes) \div 2, (Len(outcomes) \div 2 + 1)..Len(outcomes)>>

Passes(outcomes, half) == Cardinality({k \in half : outcomes[k] = "PASS"})

\* _compute_trend
Trend(outcomes) ==
  LET first == outcomes[1]
      last == outcomes[Len(outcomes)]
      halves == Halves(outcomes)
      before == Passes(outcomes, halves[1])
      after == Passes(outcomes, halves[2])
  IN IF \A k \in DOMAIN outcomes : outcomes[k] = first THEN "stable"
     ELSE IF Alternates(outcomes) THEN "flaky"
     ELSE IF first = "FAIL" /\ last = "PASS" THEN "improving"
     ELSE IF first = "PASS" /\ last = "FAIL" THEN "regressing"
     ELSE IF after > before THEN "improving"
     ELSE IF after < before THEN "regressing" ELSE "unknown"

\* build_timeline: a run without the test counts as UNKNOWN.
Timeline(runs) ==
  LET outcome(k, t) == IF t \in DOMAIN runs[k].results THEN runs[k].results[t].outcome
                       ELSE "UNKNOWN"
      rows == [t \in UNION {DOMAIN runs[k].results : k \in DOMAIN runs} |->
                 [k \in DOMAIN runs |-> outcome(k, t)]]
  IN [kind |-> "timeline", rows |-> rows, trends |-> [t \in DOMAIN rows |-> Trend(rows[t])],
      interesting |-> {t \in DOMAIN rows : \E k \in DOMAIN runs : rows[t][k] # "PASS"}]
-------------------------------------------------------------------------------
CompareInit ==
  /\ world \in Worlds
  /\ command \in Commands
  /\ stage = "arguments" /\ entries = <<>> /\ sources = <<>> /\ loaded = <<>>
  /\ shown = Silence /\ verdict = 3

End(code) == stage' = "exited" /\ verdict' = code

\* _validate_args and the exclusive group of argparse.
ValidArgs ==
  LET base == Given(command.base)
      target == Given(command.target)
  IN /\ \A s \in {command.base, command.target} : s.path = 0 \/ s.label = ""
     /\ base <=> target
     /\ ~ (base /\ command.timeline # <<>>)
     /\ command.paths # <<>> => ~ base /\ command.timeline = <<>>
     /\ base \/ command.timeline # <<>> \/ command.paths # <<>>

\* _resolve_mode: a directory below which there is any summary is one run.
Mode ==
  IF Given(command.base) THEN "compare"
  ELSE IF command.timeline # <<>> THEN "timeline"
  ELSE IF Len(command.paths) = 1
       THEN LET content == world.files[command.paths[1]]
            IN IF content.kind = "folder" /\ content.xml = "none" THEN "scan" ELSE "single"
  ELSE IF Len(command.paths) = 2 THEN "compare" ELSE "timeline"

\* The checks at the start of _run_compare and _run_timeline.
Refused(mode) ==
  \/ mode = "compare" /\ (Cardinality(command.outputs) > 1 \/ ~ command.types)
  \/ mode = "timeline" /\ command.outputs \cap {"html", "markdown"} # {}

Begin(mode, runs) ==
  /\ sources' = runs
  /\ IF Refused(mode) THEN End(2) ELSE stage' = mode /\ UNCHANGED verdict

\* Paths by position are sorted, the others stay as they were given.
Ordered(mode) ==
  IF Given(command.base) THEN <<command.base, command.target>>
  ELSE IF command.timeline # <<>> THEN FromPaths(command.timeline)
  ELSE IF mode = "single" THEN FromPaths(command.paths)
  ELSE FromPaths(SortRunPaths(command.paths))

SortBreaks(mode) ==
  /\ mode # "single" /\ ~ Given(command.base) /\ command.timeline = <<>>
  /\ \E p \in Range(command.paths) : Breaks(p)

ReadArguments ==
  /\ stage = "arguments"
  /\ \/ ~ ValidArgs /\ End(2) /\ UNCHANGED <<sources, entries>>
     \/ /\ ValidArgs /\ Mode = "scan"
        /\ stage' = "scan" /\ entries' = world.folder
        /\ UNCHANGED <<sources, verdict>>
     \/ /\ ValidArgs /\ Mode # "scan"
        /\ IF SortBreaks(Mode) THEN End(2) /\ UNCHANGED sources
           ELSE Begin(Mode, Ordered(Mode))
        /\ UNCHANGED entries
  /\ UNCHANGED <<world, command, loaded, shown>>

\* discover_archives_with_metadata, an entry at a time.
IsArchive(p) ==
  LET content == world.files[p]
  IN content.suffix /\ Opens(content, command.strict) /\ content.xml # "none"

ScanEntry ==
  /\ stage = "scan" /\ entries # <<>>
  /\ LET p == Head(entries) IN
     IF world.files[p].suffix /\ Breaks(p) THEN End(2) /\ UNCHANGED <<entries, sources>>
     ELSE /\ entries' = Tail(entries)
          /\ sources' = IF IsArchive(p) THEN Append(sources, FromPath(p)) ELSE sources
          /\ UNCHANGED <<stage, verdict>>
  /\ UNCHANGED <<world, command, loaded, shown>>

\* Variant: the oldest archives are kept.
FirstOf(paths) == SubSeq(paths, 1, IF command.limit = 0 THEN Len(paths)
                                   ELSE Min({Len(paths), command.limit}))

\* --scan-limit keeps the newest.
LastOf(paths) ==
  LET left == IF command.limit = 0 \/ Len(paths) <= command.limit THEN 0
              ELSE Len(paths) - command.limit
  IN [k \in 1..Len(paths) - left |-> paths[left + k]]

EndScan ==
  /\ stage = "scan" /\ entries = <<>>
  /\ LET archives == LastOf(SortRunPaths([k \in DOMAIN sources |-> sources[k].path]))
         n == Len(archives)
     IN IF n = 0 THEN End(2) /\ UNCHANGED sources
        ELSE Begin(IF n = 1 THEN "single" ELSE IF n = 2 THEN "compare" ELSE "timeline",
                   FromPaths(archives))
  /\ UNCHANGED <<world, command, entries, loaded, shown>>

Loading == stage \in {"compare", "timeline", "single"} /\ Len(loaded) < Len(sources)

LoadSource ==
  /\ Loading
  /\ \E run \in {Load(sources[Len(loaded) + 1])} :
       IF run = <<>> THEN End(2) /\ UNCHANGED loaded
       ELSE loaded' = Append(loaded, run[1]) /\ UNCHANGED <<stage, verdict>>
  /\ UNCHANGED <<world, command, entries, sources, shown>>

Loaded(mode) == stage = mode /\ ~ Loading

\* The rest of _run_compare.  The report of a selector is a sequence of predictions,
\* one for each changed file; one that cannot be read is an error.
ShowComparison ==
  /\ Loaded("compare")
  /\ IF command.selector = "unreadable" THEN End(2) /\ UNCHANGED shown
     ELSE \E c \in {Comparison(loaded[1].results, loaded[2].results)} :
            /\ shown' = [comparison |-> c, kind |-> c.kind,
                         files |-> [f \in DOMAIN command.predictions |->
                                      Correlated(c, command.predictions[f])],
                         persistentToo |-> c.regressions = {} /\ c.persistent # {}]
            /\ End(IF c.regressions # {} THEN 1 ELSE 0)
  /\ UNCHANGED <<world, command, entries, sources, loaded>>

\* The rest of _run_timeline.
ShowTimeline ==
  /\ Loaded("timeline")
  /\ shown' = Timeline(loaded)
  /\ End(0)
  /\ UNCHANGED <<world, command, entries, sources, loaded>>

\* The rest of _run_single.
ShowSingle ==
  /\ Loaded("single")
  /\ shown' = [kind |-> "single", path |-> loaded[1].path]
  /\ End(0)
  /\ UNCHANGED <<world, command, entries, sources, loaded>>

CompareNext ==
  ReadArguments \/ ScanEntry \/ EndScan \/ LoadSource
    \/ ShowComparison \/ ShowTimeline \/ ShowSingle
===============================================================================
