---------------------------- MODULE ProjectIndex ----------------------------
(* What a run of the command reads before it scores (cli.py): the index of the test
   projects (project_index.py) and the map of API lineage, each kept in a file of its
   own from one run to the next.

   The file of the projects has a second one beside it with a signature of the tests;
   where only the first is there, its time must be no older than that of any test.
   Whatever is taken so is taken without the contents of the test files.  The file of
   the lineage names the inputs of the map: the stamps of the trees and the file of the
   projects.  All three are written in place, a run may be killed, and the trees may be
   edited at any time, also while a run reads them.                           *)
EXTENDS ApiLineage, FiniteSetsExt

CONSTANTS
  Tests,       \* the test projects
  TestAt,      \* TestAt[p][n + 1]: the project p after n edits, Absent when it is not there
  Absent,
  SdkAt, EngineAt, ExamplesAt,   \* the other trees, likewise
  MaxEdits     \* bound: edits altogether

ASSUME IndexBounds ==
  MaxEdits \in Nat /\ IsFiniteSet(Tests) /\ Tests \cap {"sdk", "engine", "examples"} = {}

VARIABLES
  clock,        \* one tick for each edit
  edits,        \* edits[t]: how often the tree t was edited ...
  stamps,       \* ... and when for the last time
  cacheFile, metaFile, lineageFile,
  step,         \* what the run does next, "idle" between runs
  cached,       \* whether the run may use the file of the projects (no --no-cache)
  calls,        \* the calls of build_api_lineage_map that the run has yet to make
  indexed,      \* the projects that the run has indexed, as after so many edits
  lazy,         \* whether they are without their files
  signature,    \* the tests as it has signed them, until that is written
  inputs,       \* the signatures of the inputs in the call under way
  lineageMap,   \* the map of lineage that the run has, EmptyMap before
  quiet,        \* history: nothing was edited since the run began
  raced         \* history: a test was edited after a run had read it and before it
                \* had taken the signature of all

diskVars == <<clock, edits, stamps, cacheFile, metaFile, lineageFile>>
runVars == <<step, cached, calls, indexed, lazy, signature, inputs, lineageMap>>
indexVars == <<diskVars, runVars, quiet, raced>>

Trees == Tests \cup {"sdk", "engine", "examples"}

\* A file is empty once it is opened for writing, and whole when that is done.
NotThere == [state |-> "none", time |-> 0]
Opened == [state |-> "torn", time |-> clock]
Written(content) == [state |-> "whole", time |-> clock, content |-> content]
IsWhole(file) == file.state = "whole"

-------------------------------------------------------------------------------
\* classify_xts_file_surface, from the marks of the text.
FileSurface(file) ==
  IF ~ file.ets THEN "utility"
  ELSE IF file.marks \cap {"use static", "component module"} # {} THEN "static"
  ELSE IF file.marks \cap {"decorator", "built struct", "modifier chain"} # {} THEN "dynamic"
  ELSE "utility"

\* classify_xts_project_surface, and the names where the files say nothing.
StaticFirst(kinds) ==
  IF "static" \in kinds THEN "static" ELSE IF "dynamic" \in kinds THEN "dynamic" ELSE "unknown"
Both(kinds) ==
  IF {"static", "dynamic"} \subseteq kinds THEN "both" ELSE StaticFirst(kinds)

ProjectVariant(project) ==
  LET semantic == Both({FileSurface(f) : f \in project.files})
  IN IF semantic # "unknown" THEN semantic ELSE Both(project.names)

-------------------------------------------------------------------------------
\* The projects that are there.  The number of their edits stands for the times and the
\* sizes of their files, which are the hash of each and the signature of all.
Test(p) == TestAt[p][edits[p] + 1]
Workspace == [p \in {q \in Tests : Test(q) # Absent} |-> edits[p]]

\* newest_mtime_ns: a removal is seen in the directory above.
Newest == Max({stamps[p] : p \in Tests})

\* The projects as the run has them: without their files when they came from the file;
\* the variant is kept there.
Indexed(p) == TestAt[p][indexed[p] + 1]
TestFiles == {<<p, IF lazy THEN {} ELSE Indexed(p).files>> : p \in DOMAIN indexed}
Variants == [p \in DOMAIN indexed |-> ProjectVariant(Indexed(p))]

Sdk == SdkAt[edits["sdk"] + 1]
Engine == EngineAt[edits["engine"] + 1]
Examples == ExamplesAt[edits["examples"] + 1]

\* _lineage_input_signatures
TreeSignature(t) == stamps[t]
FileSignature(file) == file
TreeInputs ==
  [tests |-> [NotThere EXCEPT !.state = "unused"],
   trees |-> [t \in Trees \ Tests |-> TreeSignature(t)]]
LineageInputs == [TreeInputs EXCEPT !.tests = IF cached THEN FileSignature(cacheFile) ELSE @]

-------------------------------------------------------------------------------
\* An older version of the tool left no second file.
IndexesInit ==
  /\ clock = 0 /\ edits = [t \in Trees |-> 0] /\ stamps = [t \in Trees |-> 0]
  /\ metaFile = NotThere /\ lineageFile = NotThere
  /\ step = "idle" /\ cached = FALSE /\ calls = 0 /\ indexed = <<>> /\ lazy = FALSE
  /\ signature = <<>> /\ inputs = <<>> /\ lineageMap = EmptyMap /\ quiet = FALSE /\ raced = FALSE
  /\ cacheFile \in {NotThere, Written(Workspace)}

Edit(t) ==
  /\ clock < MaxEdits /\ clock' = clock + 1
  /\ edits' = [edits EXCEPT ![t] = @ + 1]
  /\ stamps' = [stamps EXCEPT ![t] = clock']
  /\ raced' = (raced \/ (t \in Tests /\ step \in {"cache", "sign"}))
  /\ quiet' = FALSE
  /\ UNCHANGED <<cacheFile, metaFile, lineageFile, runVars>>

\* The map is built twice, for the rules by path and for the report, where there are
\* changed files.
StartRun ==
  /\ step = "idle" /\ step' = "load" /\ cached' \in BOOLEAN /\ calls' \in {0, 2}
  /\ quiet' = TRUE
  /\ UNCHANGED <<diskVars, indexed, lazy, signature, inputs, lineageMap, raced>>

\* The three ways of load_or_build_projects.
MatchesMeta == cached /\ IsWhole(metaFile) /\ IsWhole(cacheFile) /\ metaFile.content = Workspace
WithoutMeta == cached /\ metaFile = NotThere /\ IsWhole(cacheFile)
NewerThanTests == WithoutMeta /\ cacheFile.time >= Newest

LoadByMeta ==
  /\ step = "load" /\ MatchesMeta
  /\ indexed' = cacheFile.content /\ lazy' = TRUE /\ step' = "lineage"
  /\ UNCHANGED <<diskVars, cached, calls, signature, inputs, lineageMap, quiet, raced>>

LoadByTime ==
  /\ step = "load" /\ NewerThanTests
  /\ indexed' = cacheFile.content /\ lazy' = TRUE
  /\ metaFile' = Opened /\ signature' = Workspace /\ step' = "meta"
  /\ UNCHANGED <<clock, edits, stamps, cacheFile, lineageFile, cached, calls, inputs,
                 lineageMap, quiet, raced>>

\* Each project is taken from the file when its hash is the same and built otherwise;
\* the file is written when one was built or their number differs.
OldCache == IF cached /\ IsWhole(cacheFile) THEN cacheFile.content ELSE <<>>
CacheChanged ==
  \/ \E p \in DOMAIN Workspace : p \notin DOMAIN OldCache \/ OldCache[p] # Workspace[p]
  \/ Cardinality(DOMAIN OldCache) # Cardinality(DOMAIN Workspace)

BuildProjects ==
  /\ step = "load" /\ ~ MatchesMeta /\ ~ NewerThanTests
  /\ indexed' = Workspace /\ lazy' = FALSE
  /\ IF cached /\ CacheChanged THEN cacheFile' = Opened /\ step' = "cache"
     ELSE step' = (IF cached /\ metaFile = NotThere THEN "sign" ELSE "lineage") /\ UNCHANGED cacheFile
  /\ UNCHANGED <<clock, edits, stamps, metaFile, lineageFile, cached, calls, signature,
                 inputs, lineageMap, quiet, raced>>

SaveProjects ==
  /\ step = "cache" /\ cacheFile' = Written(indexed) /\ step' = "sign"
  /\ UNCHANGED <<clock, edits, stamps, metaFile, lineageFile, cached, calls, indexed,
                 lazy, signature, inputs, lineageMap, quiet, raced>>

\* The signature is that of the tests as they are by then.
SignTests ==
  /\ step = "sign" /\ metaFile' = Opened /\ signature' = Workspace /\ step' = "meta"
  /\ UNCHANGED <<clock, edits, stamps, cacheFile, lineageFile, cached, calls, indexed,
                 lazy, inputs, lineageMap, quiet, raced>>

SaveMeta ==
  /\ step = "meta" /\ metaFile' = Written(signature) /\ signature' = <<>> /\ step' = "lineage"
  /\ UNCHANGED <<clock, edits, stamps, cacheFile, lineageFile, cached, calls, indexed,
                 lazy, inputs, lineageMap, quiet, raced>>

\* build_api_lineage_map: the map of the file when its inputs are the same ...
LineageIsKept == IsWhole(lineageFile) /\ lineageFile.content.inputs = LineageInputs

ReadLineage ==
  /\ step = "lineage" /\ calls > 0 /\ LineageIsKept
  /\ lineageMap' = lineageFile.content.map /\ calls' = calls - 1
  /\ UNCHANGED <<diskVars, step, cached, indexed, lazy, signature, inputs, quiet, raced>>

\* ... and one that is built otherwise, for the file as well, where the signatures are
\* those from before.
SignInputs ==
  /\ step = "lineage" /\ calls > 0 /\ ~ LineageIsKept
  /\ inputs' = LineageInputs /\ step' = "build"
  /\ UNCHANGED <<diskVars, cached, calls, indexed, lazy, signature, lineageMap, quiet,
                 raced>>

BuildLineage ==
  /\ step = "build" /\ step' = "save"
  /\ lineageMap' = BuildMap(Sdk, Engine, TestFiles, Examples)
  /\ lineageFile' = Opened
  /\ UNCHANGED <<clock, edits, stamps, cacheFile, metaFile, cached, calls, indexed, lazy,
                 signature, inputs, quiet, raced>>

SaveLineage ==
  /\ step = "save" /\ step' = "lineage"
  /\ lineageFile' = Written([inputs |-> inputs, map |-> lineageMap])
  /\ calls' = calls - 1 /\ inputs' = <<>>
  /\ UNCHANGED <<clock, edits, stamps, cacheFile, metaFile, cached, indexed, lazy,
                 signature, lineageMap, quiet, raced>>

EndLineage ==
  /\ step = "lineage" /\ calls = 0 /\ step' = "report"
  /\ UNCHANGED <<diskVars, cached, calls, indexed, lazy, signature, inputs, lineageMap,
                 quiet, raced>>

\* The process is gone, and what it had in memory.
Forget ==
  /\ step' = "idle" /\ cached' = FALSE /\ calls' = 0 /\ indexed' = <<>> /\ lazy' = FALSE
  /\ signature' = <<>> /\ inputs' = <<>> /\ lineageMap' = EmptyMap /\ quiet' = FALSE

EndRun == step = "report" /\ Forget /\ UNCHANGED <<diskVars, raced>>

Kill ==
  /\ step \notin {"idle", "report"} /\ Forget
  /\ UNCHANGED <<diskVars, raced>>

IndexesNext ==
  \/ \E t \in Trees : Edit(t)
  \/ StartRun \/ LoadByMeta \/ LoadByTime \/ BuildProjects \/ SaveProjects \/ SignTests \/ SaveMeta
  \/ ReadLineage \/ SignInputs \/ BuildLineage \/ SaveLineage \/ EndLineage \/ EndRun \/ Kill

-------------------------------------------------------------------------------
\* What a run leaves that was killed between its two files: the first has new tests in
\* it, and the second matches again once those are gone.
Halfway == IsWhole(metaFile) /\ IsWhole(cacheFile) /\ metaFile.content # cacheFile.content

\* Whatever was kept, edited or killed before: the projects of a run during which
\* nothing is edited are those that are there, as they are now, and with the file of the
\* projects its map of lineage is the one that a build would give now, of the tests or,
\* where they were taken without their files when the map was built, of none of them.
\* There are two exceptions: after a run that signed tests edited since it had read them
\* anything may be taken for current; after one that was killed between its two files
\* nothing that is there is missing or old, but tests that are gone may still be indexed.
IndexesAreCurrent ==
  quiet =>
    /\ ~ raced /\ step # "load" =>
         \/ indexed = Workspace
         \/ Halfway /\ \A p \in DOMAIN Workspace : p \in DOMAIN indexed /\ indexed[p] = Workspace[p]
    /\ step = "report" /\ cached /\ lineageMap # EmptyMap =>
         \E tests \in {{<<p, Indexed(p).files>> : p \in DOMAIN indexed}, {}} :
           lineageMap = BuildMap(Sdk, Engine, tests, Examples)

\* In such a run, what the report asks for a changed line of the engine agrees with what
\* it asks for the whole file, and what it lists of the examples is no test and does use
\* the API.  The index of the SDK and the map agree on the symbols of a family.
LineageIsCoherent ==
  step = "report" /\ quiet =>
    /\ \A source \in Engine : \A x \in {s[2] : s \in lineageMap.spans} :
         SymbolApis(lineageMap, source.path, x[1]) \subseteq SourceApis(lineageMap, source.path)
    /\ \A source \in Engine : \E apis \in {SourceApis(lineageMap, source.path)} :
         \E told \in {SourceOnlyConsumers(lineageMap, apis)} :
           \A p \in DOMAIN told : p \notin Tests /\ told[p] # {}
    /\ \A f \in SdkFamilies(Sdk) :
         /\ SdkSymbols(Sdk, f) = FamilyApis(Sdk, f)
         /\ PatternAlias(lineageMap, f) \subseteq FamilyApis(Sdk, f) \cup MethodApis(Sdk, f)
===============================================================================
