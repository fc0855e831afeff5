---------------------------- MODULE SelectingProofs ----------------------------
(* Proofs about the ways to the tests of a change, for any trees, graphs, requests and
   files: the indexes that a run reads, the answer to a request, the limits of the
   universal impact and the scan for topics.                                      *)
EXTENDS Selecting, FiniteSetTheorems, FunctionTheorems, SequenceTheorems, WellFoundedInduction, TLAPS

-------------------------------------------------------------------------------
\* States of the tests: c[p] edits of each.  Those that there have been, as far as counts
\* tell; what a run would have indexed then; and which of two came first.
Past == {c \in [Tests -> 0..clock] : \A p \in Tests : c[p] <= edits[p]}
TestsAfter(c) == [p \in {q \in Tests : TestAt[q][c[q] + 1] # Absent} |-> c[p]]
Upto(m, c) == \A p \in Tests : m[p] <= c[p]

FilesOf(taken) == {<<p, TestAt[p][taken[p] + 1].files>> : p \in DOMAIN taken}

Filing == {"cache", "sign", "meta"}
Tracing == {"lineage", "build", "save", "report"}

IndexTypes ==
  /\ clock \in Nat
  /\ edits \in [Trees -> 0..clock] /\ stamps \in [Trees -> 0..clock]
  /\ step \in {"idle", "load"} \cup Filing \cup Tracing
  /\ \A f \in {cacheFile, metaFile, lineageFile} : f.state \in {"none", "torn", "whole"}
  /\ cacheFile.time \in 0..clock
  /\ quiet => step # "idle"
  /\ step \in {"cache", "sign"} => cached
  /\ step \notin Tracing => lineageMap = EmptyMap

\* The file of the projects is of some state of the tests; of the present one, if no test
\* has been edited since.
CacheInv ==
  IsWhole(cacheFile) =>
    /\ \E c \in Past : cacheFile.content = TestsAfter(c)
    /\ ~ raced /\ (\A p \in Tests : stamps[p] <= cacheFile.time) =>
         cacheFile.content = Workspace

\* So is the second one, and of no later one than the first.
MetaInv ==
  IsWhole(metaFile) =>
    /\ \E m \in Past : metaFile.content = TestsAfter(m)
    /\ ~ raced /\ IsWhole(cacheFile) =>
         \E m, c \in Past :
           Upto(m, c) /\ metaFile.content = TestsAfter(m) /\ cacheFile.content = TestsAfter(c)

\* What a run has indexed is what it leaves in the file of the projects, and is signed
\* as that.
RunInv ==
  /\ step \in {"cache", "sign"} =>
       (\E c \in Past : indexed = TestsAfter(c)) /\ (~ raced => indexed = Workspace)
  /\ step = "meta" =>
       /\ \E c \in Past : signature = TestsAfter(c)
       /\ ~ raced /\ IsWhole(cacheFile) => cacheFile.content = signature
  /\ cached /\ step \in (Filing \ {"cache"}) \cup Tracing =>
       IF IsWhole(cacheFile) THEN indexed = cacheFile.content ELSE DOMAIN indexed = {}
  /\ quiet /\ ~ raced /\ step \in Filing => indexed = Workspace

\* Nothing is missing or old, and nothing is gone but after a run that was killed.
NothingLost ==
  \/ indexed = Workspace
  \/ Halfway /\ \A p \in DOMAIN Workspace : p \in DOMAIN indexed /\ indexed[p] = Workspace[p]
CurrentInv == quiet /\ ~ raced /\ step \in Tracing => NothingLost

\* The map of some inputs is of the trees as they are, unless a tree was edited since
\* they were signed, and of the tests that the file of the projects had, or of none.
TestsSigned(file) == IF file.state = "whole" THEN FilesOf(file.content) ELSE {}
MapOf(signed, map) ==
  /\ \A t \in Trees \ Tests : signed.trees[t] \in 0..clock
  /\ signed.tests.state # "unused" /\ (\A t \in Trees \ Tests : signed.trees[t] = stamps[t]) =>
       \E tests \in {TestsSigned(signed.tests), {}} : map = BuildMap(Sdk, Engine, tests, Examples)

LineageInv ==
  /\ IsWhole(lineageFile) => MapOf(lineageFile.content.inputs, lineageFile.content.map)
  /\ step \in {"build", "save"} =>
       IF cached THEN inputs.tests = cacheFile ELSE inputs.tests.state = "unused"
  /\ step = "build" => \A t \in Trees \ Tests : inputs.trees[t] \in 0..clock
  /\ step = "save" => MapOf(inputs, lineageMap)

\* The map that a run has is of the trees as they are, and of the tests it has indexed.
MapInv ==
  quiet /\ cached /\ step \in Tracing /\ lineageMap # EmptyMap =>
    \E tests \in {FilesOf(indexed), {}} : lineageMap = BuildMap(Sdk, Engine, tests, Examples)

IndexInv ==
  /\ IndexTypes /\ CacheInv /\ MetaInv /\ RunInv /\ CurrentInv /\ LineageInv /\ MapInv

\* A set of numbers with a bound has a greatest one.
LEMMA GreatestNumber ==
  ASSUME NEW n \in Nat, NEW S \in SUBSET (0..n), S # {}
  PROVE  Max(S) \in S /\ \A x \in S : x <= Max(S)
<1> DEFINE Distances == {n - x : x \in S}
           R == {pair \in Nat \X Nat : pair[1] < pair[2]}
<1>1. Distances \subseteq Nat /\ Distances # {}
  <2>1. \A x \in S : x \in Nat /\ x <= n /\ n - x \in Nat
    OBVIOUS
  <2> QED
    BY <2>1
<1>2. IsWellFoundedOn(R, Nat)
  BY NatLessThanWellFounded, Zenon DEF OpToRel
<1>3. PICK d \in Distances : \A e \in Distances : ~ (<<e, d>> \in R)
  <2> HIDE DEF Distances, R
  <2> QED BY <1>1, <1>2, WFMin, Zenon
<1>4. \A e \in Distances : d <= e
  <2> TAKE e \in Distances
  <2>1. ~ (<<e, d>> \in R) /\ e \in Nat /\ d \in Nat
    <3> HIDE DEF Distances, R
    <3> QED BY <1>1, <1>3
  <2> QED
    BY <2>1
<1>5. PICK x \in S : d = n - x
  BY <1>3
<1>6. \A y \in S : x >= y
  BY <1>4, <1>5
<1> QED
  BY <1>5, <1>6 DEF Max

\* The present state of the tests is one of those that there have been.
LEMMA TestsNow ==
  ASSUME IndexTypes
  PROVE  \E c \in Past : /\ Workspace = TestsAfter(c) /\ \A p \in Tests : c[p] = edits[p]
<1> DEFINE now == [p \in Tests |-> edits[p]]
<1>1. now \in Past
  BY DEF IndexTypes, Past, Trees
<1>2. Workspace = TestsAfter(now)
  BY DEF Workspace, TestsAfter, Test
<1> QED
  BY <1>1, <1>2

\* What has come to pass stays so.
LEMMA PastStays ==
  ASSUME IndexTypes, IndexTypes', \A t \in Trees : edits[t] <= edits'[t], clock <= clock'
  PROVE  Past \subseteq Past'
BY DEF IndexTypes, Past, Trees

\* Of files that were read without their contents a map is built as of none.
LEMMA LazyMap ==
  ASSUME NEW d, NEW engine, NEW S, NEW examples
  PROVE  BuildMap(d, engine, {<<p, {}>> : p \in S}, examples) = BuildMap(d, engine, {}, examples)
<1>1. UNION {{x[1]} \X x[2] : x \in {<<p, {}>> : p \in S}} = UNION {{x[1]} \X x[2] : x \in {}}
  OBVIOUS
<1> QED
  BY <1>1, Zenon DEF BuildMap, ConsumerEdges

\* The tests that a map is built of.
LEMMA FilesTaken ==
  \E tests \in {FilesOf(indexed), {}} :
    BuildMap(Sdk, Engine, TestFiles, Examples) = BuildMap(Sdk, Engine, tests, Examples)
<1>1. CASE lazy
  <2>1. TestFiles = {<<p, {}>> : p \in DOMAIN indexed}
    BY <1>1 DEF TestFiles
  <2> QED
    BY <2>1, LazyMap
<1>2. CASE ~ lazy
  BY <1>2 DEF TestFiles, FilesOf, Indexed
<1> QED
  BY <1>1, <1>2

\* The file of the projects is kept when it has them as they are, or when there are none.
LEMMA KeptCache ==
  ASSUME IndexTypes, CacheInv, cached, ~ CacheChanged
  PROVE  IF IsWhole(cacheFile) THEN Workspace = cacheFile.content ELSE DOMAIN Workspace = {}
<1>1. CASE IsWhole(cacheFile)
  <2>1. PICK c \in Past : cacheFile.content = TestsAfter(c)
    BY <1>1 DEF CacheInv
  <2>2. OldCache = TestsAfter(c)
    BY <1>1, <2>1 DEF OldCache
  <2>3. \A p \in DOMAIN Workspace : p \in DOMAIN TestsAfter(c) /\ TestsAfter(c)[p] = Workspace[p]
    BY <2>2 DEF CacheChanged
  <2>4. IsFiniteSet(DOMAIN TestsAfter(c)) /\ DOMAIN Workspace \subseteq DOMAIN TestsAfter(c)
    BY <2>3, IndexBounds, FS_Subset DEF TestsAfter
  <2>5. Cardinality(DOMAIN TestsAfter(c)) = Cardinality(DOMAIN Workspace)
    BY <2>2 DEF CacheChanged
  <2>6. DOMAIN Workspace = DOMAIN TestsAfter(c)
    BY <2>4, <2>5, FS_Subset
  <2>7. Workspace = TestsAfter(c)
    BY <2>3, <2>6 DEF Workspace, TestsAfter
  <2> QED
    BY <1>1, <2>1, <2>7
<1>2. CASE ~ IsWhole(cacheFile)
  <2>1. DOMAIN OldCache = {}
    BY <1>2 DEF OldCache
  <2> QED
    BY <1>2, <2>1 DEF CacheChanged
<1> QED
  BY <1>1, <1>2

LEMMA StartRunKeeps == IndexInv /\ StartRun => IndexInv'
<1> SUFFICES ASSUME IndexInv, StartRun PROVE IndexInv'
  OBVIOUS
<1> USE DEF IndexInv
<1>0. /\ clock' = clock /\ edits' = edits /\ stamps' = stamps
      /\ Past' = Past /\ Workspace' = Workspace
      /\ Sdk' = Sdk /\ Engine' = Engine /\ Examples' = Examples
  BY DEF StartRun, diskVars, Past, Workspace, Test, Sdk, Engine, Examples
<1>1. IndexTypes'
  BY <1>0 DEF StartRun, IndexTypes, Trees, Filing, Tracing, diskVars, Opened, Written
<1>2. CacheInv'
  BY <1>0 DEF StartRun, CacheInv, IsWhole, diskVars, Opened, Written
<1>3. MetaInv'
  BY <1>0 DEF StartRun, MetaInv, IsWhole, diskVars, Opened, Written
<1>4. RunInv'
  BY <1>0 DEF StartRun, RunInv, Filing, Tracing, IsWhole, diskVars, Opened, Written
<1>5. CurrentInv'
  BY <1>0 DEF StartRun, CurrentInv, NothingLost, Halfway, Tracing, IsWhole, diskVars, Opened, Written
<1>6. LineageInv'
  BY <1>0 DEF StartRun, LineageInv, MapOf, IsWhole, diskVars, Opened, Written
<1>7. MapInv'
  BY <1>0 DEF StartRun, MapInv, Tracing, FilesOf, diskVars, Opened, Written
<1> QED
  BY <1>1, <1>2, <1>3, <1>4, <1>5, <1>6, <1>7

LEMMA LoadByMetaKeeps == IndexInv /\ LoadByMeta => IndexInv'
<1> SUFFICES ASSUME IndexInv, LoadByMeta PROVE IndexInv'
  OBVIOUS
<1> USE DEF IndexInv
<1>0. /\ clock' = clock /\ edits' = edits /\ stamps' = stamps
      /\ Past' = Past /\ Workspace' = Workspace
      /\ Sdk' = Sdk /\ Engine' = Engine /\ Examples' = Examples
  BY DEF LoadByMeta, diskVars, Past, Workspace, Test, Sdk, Engine, Examples
<1>1. IndexTypes'
  BY <1>0 DEF LoadByMeta, IndexTypes, Trees, Filing, Tracing, diskVars, Opened, Written
<1>2. CacheInv'
  BY <1>0 DEF LoadByMeta, CacheInv, IsWhole, diskVars, Opened, Written
<1>3. MetaInv'
  BY <1>0 DEF LoadByMeta, MetaInv, IsWhole, diskVars, Opened, Written
<1>4. RunInv'
  BY <1>0 DEF LoadByMeta, MatchesMeta, RunInv, Filing, Tracing, diskVars
<1>5. CurrentInv'
  <2> SUFFICES ASSUME quiet, ~ raced PROVE NothingLost'
    BY <1>0 DEF LoadByMeta, CurrentInv
  <2>1. IsWhole(metaFile) /\ IsWhole(cacheFile) /\ metaFile.content = Workspace
    BY DEF LoadByMeta, MatchesMeta
  <2>2. PICK m, c \in Past :
          Upto(m, c) /\ metaFile.content = TestsAfter(m) /\ cacheFile.content = TestsAfter(c)
    BY <2>1 DEF MetaInv
  <2>3. ASSUME NEW p \in DOMAIN Workspace
        PROVE  p \in DOMAIN TestsAfter(c) /\ TestsAfter(c)[p] = Workspace[p]
    <3>1. p \in Tests /\ Test(p) # Absent /\ Workspace[p] = edits[p]
      BY DEF Workspace
    <3>2. m[p] = edits[p]
      BY <2>1, <2>2, <3>1 DEF TestsAfter
    <3>3. c[p] = edits[p]
      BY <2>2, <3>1, <3>2 DEF Past, Upto, IndexTypes, Trees
    <3> QED
      BY <3>1, <3>3 DEF TestsAfter, Test
  <2>4. indexed' = TestsAfter(c) /\ UNCHANGED <<metaFile, cacheFile>>
    BY <2>2 DEF LoadByMeta, diskVars
  <2> QED
    BY <1>0, <2>1, <2>2, <2>3, <2>4 DEF NothingLost, Halfway, IsWhole
<1>6. LineageInv'
  BY <1>0 DEF LoadByMeta, LineageInv, MapOf, IsWhole, diskVars, Opened, Written
<1>7. MapInv'
  BY <1>0 DEF LoadByMeta, MapInv, IndexTypes, Filing, Tracing
<1> QED
  BY <1>1, <1>2, <1>3, <1>4, <1>5, <1>6, <1>7

LEMMA LoadByTimeKeeps == IndexInv /\ LoadByTime => IndexInv'
<1> SUFFICES ASSUME IndexInv, LoadByTime PROVE IndexInv'
  OBVIOUS
<1> USE DEF IndexInv
<1>0. /\ clock' = clock /\ edits' = edits /\ stamps' = stamps
      /\ Past' = Past /\ Workspace' = Workspace
      /\ Sdk' = Sdk /\ Engine' = Engine /\ Examples' = Examples
  BY DEF LoadByTime, diskVars, Past, Workspace, Test, Sdk, Engine, Examples
<1>1. IndexTypes'
  BY <1>0 DEF LoadByTime, IndexTypes, Trees, Filing, Tracing, diskVars, Opened, Written
<1>2. CacheInv'
  BY <1>0 DEF LoadByTime, CacheInv, IsWhole, diskVars, Opened, Written
<1>3. MetaInv'
  BY <1>0 DEF LoadByTime, MetaInv, IsWhole, diskVars, Opened, Written
<1>4. RunInv'
  <2>1. ~ raced => cacheFile.content = Workspace
    <3> SUFFICES ASSUME ~ raced PROVE \A p \in Tests : stamps[p] <= cacheFile.time
      BY DEF LoadByTime, NewerThanTests, WithoutMeta, CacheInv
    <3> TAKE p \in Tests
    <3> DEFINE S == {stamps[q] : q \in Tests}
    <3>1. S \subseteq 0..clock /\ stamps[p] \in S
      BY DEF IndexTypes, Trees
    <3>2. Max(S) \in S /\ stamps[p] <= Max(S)
      <4> HIDE DEF S
      <4> QED BY <3>1, GreatestNumber DEF IndexTypes
    <3>3. cacheFile.time >= Max(S)
      BY DEF LoadByTime, NewerThanTests, Newest
    <3> HIDE DEF S
    <3>4. clock \in Nat /\ cacheFile.time \in 0..clock
      BY DEF IndexTypes
    <3>5. Max(S) \in 0..clock /\ stamps[p] \in 0..clock
      BY <3>1, <3>2
    <3> QED
      BY <3>2, <3>3, <3>4, <3>5
  <2>2. \E c \in Past : signature' = TestsAfter(c)
    BY TestsNow DEF LoadByTime
  <2>3. signature' = Workspace /\ indexed' = cacheFile.content /\ step' = "meta"
        /\ IsWhole(cacheFile) /\ UNCHANGED <<cacheFile, cached, quiet, raced>>
    BY DEF LoadByTime, NewerThanTests, WithoutMeta
  <2>4. \E c \in Past' : signature' = TestsAfter(c)'
    BY <1>0, <2>2 DEF TestsAfter
  <2>5. ~ raced => cacheFile.content = signature' /\ indexed' = Workspace'
    BY <1>0, <2>1, <2>3
  <2> QED
    BY <2>3, <2>4, <2>5 DEF RunInv, Filing, Tracing, IsWhole
<1>5. CurrentInv'
  BY <1>0 DEF LoadByTime, CurrentInv, NothingLost, Halfway, Tracing, IsWhole, diskVars, Opened, Written
<1>6. LineageInv'
  BY <1>0 DEF LoadByTime, LineageInv, MapOf, IsWhole, diskVars, Opened, Written
<1>7. MapInv'
  BY <1>0 DEF LoadByTime, MapInv, Tracing, FilesOf, diskVars, Opened, Written
<1> QED
  BY <1>1, <1>2, <1>3, <1>4, <1>5, <1>6, <1>7

LEMMA BuildProjectsKeeps == IndexInv /\ BuildProjects => IndexInv'
<1> SUFFICES ASSUME IndexInv, BuildProjects PROVE IndexInv'
  OBVIOUS
<1> USE DEF IndexInv
<1>0. /\ clock' = clock /\ edits' = edits /\ stamps' = stamps
      /\ Past' = Past /\ Workspace' = Workspace
      /\ Sdk' = Sdk /\ Engine' = Engine /\ Examples' = Examples
  BY DEF BuildProjects, diskVars, Past, Workspace, Test, Sdk, Engine, Examples
<1>1. IndexTypes'
  BY <1>0 DEF BuildProjects, IndexTypes, Trees, Filing, Tracing, diskVars, Opened, Written
<1>2. CacheInv'
  BY <1>0 DEF BuildProjects, CacheInv, IsWhole, diskVars, Opened, Written
<1>3. MetaInv'
  BY <1>0 DEF BuildProjects, MetaInv, IsWhole, diskVars, Opened, Written
<1>4. RunInv'
  <2>1. indexed' = Workspace /\ Workspace' = Workspace /\ UNCHANGED <<cached, quiet, raced>>
    BY <1>0 DEF BuildProjects
  <2>2. \E c \in Past' : indexed' = TestsAfter(c)'
    BY <1>0, <2>1, TestsNow DEF TestsAfter
  <2>3. CASE cached /\ CacheChanged
    BY <2>1, <2>2, <2>3 DEF BuildProjects, RunInv, Filing, Tracing
  <2>4. CASE ~ (cached /\ CacheChanged)
    <3>1. step' \in {"sign", "lineage"} /\ cacheFile' = cacheFile
      BY <2>4 DEF BuildProjects
    <3>2. ASSUME cached
          PROVE  IF IsWhole(cacheFile) THEN Workspace = cacheFile.content ELSE DOMAIN Workspace = {}
      BY <2>4, <3>2, KeptCache
    <3> QED
      BY <2>1, <2>2, <3>1, <3>2 DEF RunInv, Filing, Tracing, IsWhole
  <2> QED
    BY <2>3, <2>4
<1>5. CurrentInv'
  BY <1>0 DEF BuildProjects, CurrentInv, NothingLost, Halfway, Tracing, IsWhole, diskVars, Opened, Written
<1>6. LineageInv'
  BY <1>0 DEF BuildProjects, LineageInv, MapOf, IsWhole, diskVars, Opened, Written
<1>7. MapInv'
  BY <1>0 DEF BuildProjects, MapInv, IndexTypes, Filing, Tracing
<1> QED
  BY <1>1, <1>2, <1>3, <1>4, <1>5, <1>6, <1>7

LEMMA SaveProjectsKeeps == IndexInv /\ SaveProjects => IndexInv'
<1> SUFFICES ASSUME IndexInv, SaveProjects PROVE IndexInv'
  OBVIOUS
<1> USE DEF IndexInv
<1>0. /\ clock' = clock /\ edits' = edits /\ stamps' = stamps
      /\ Past' = Past /\ Workspace' = Workspace
      /\ Sdk' = Sdk /\ Engine' = Engine /\ Examples' = Examples
  BY DEF SaveProjects, diskVars, Past, Workspace, Test, Sdk, Engine, Examples
<1>1. IndexTypes'
  BY <1>0 DEF SaveProjects, IndexTypes, Trees, Filing, Tracing, diskVars, Opened, Written
<1>2. CacheInv'
  <2>1. cacheFile' = Written(indexed) /\ raced' = raced
    BY DEF SaveProjects
  <2>2. (\E c \in Past' : indexed = TestsAfter(c)') /\ (~ raced => indexed = Workspace')
    BY <1>0 DEF SaveProjects, RunInv, TestsAfter
  <2> QED
    BY <2>1, <2>2 DEF CacheInv, Written
<1>3. MetaInv'
  <2>1. cacheFile' = Written(indexed) /\ UNCHANGED <<raced, metaFile>>
    BY DEF SaveProjects
  <2>2. ASSUME IsWhole(metaFile), ~ raced
        PROVE  \E m, c \in Past :
                 Upto(m, c) /\ metaFile.content = TestsAfter(m) /\ indexed = TestsAfter(c)
    <3>1. PICK m \in Past : metaFile.content = TestsAfter(m)
      BY <2>2 DEF MetaInv
    <3>2. PICK c \in Past : Workspace = TestsAfter(c) /\ \A p \in Tests : c[p] = edits[p]
      BY TestsNow
    <3>3. indexed = Workspace
      BY <2>2 DEF SaveProjects, RunInv
    <3>4. Upto(m, c)
      BY <3>2 DEF Upto, Past
    <3> QED
      BY <3>1, <3>2, <3>3, <3>4
  <2>3. cacheFile'.content = indexed
    BY <2>1 DEF Written
  <2> QED
    BY <1>0, <2>1, <2>2, <2>3 DEF MetaInv, IsWhole, TestsAfter, Upto
<1>4. RunInv'
  BY <1>0 DEF SaveProjects, RunInv, Filing, Tracing, IsWhole, diskVars, Opened, Written
<1>5. CurrentInv'
  BY <1>0 DEF SaveProjects, CurrentInv, NothingLost, Halfway, Tracing, IsWhole, diskVars, Opened, Written
<1>6. LineageInv'
  BY <1>0 DEF SaveProjects, LineageInv, MapOf, IsWhole, diskVars, Opened, Written
<1>7. MapInv'
  BY <1>0 DEF SaveProjects, MapInv, Tracing, FilesOf, diskVars, Opened, Written
<1> QED
  BY <1>1, <1>2, <1>3, <1>4, <1>5, <1>6, <1>7

LEMMA SignTestsKeeps == IndexInv /\ SignTests => IndexInv'
<1> SUFFICES ASSUME IndexInv, SignTests PROVE IndexInv'
  OBVIOUS
<1> USE DEF IndexInv
<1>0. /\ clock' = clock /\ edits' = edits /\ stamps' = stamps
      /\ Past' = Past /\ Workspace' = Workspace
      /\ Sdk' = Sdk /\ Engine' = Engine /\ Examples' = Examples
  BY DEF SignTests, diskVars, Past, Workspace, Test, Sdk, Engine, Examples
<1>1. IndexTypes'
  BY <1>0 DEF SignTests, IndexTypes, Trees, Filing, Tracing, diskVars, Opened, Written
<1>2. CacheInv'
  BY <1>0 DEF SignTests, CacheInv, IsWhole, diskVars, Opened, Written
<1>3. MetaInv'
  BY <1>0 DEF SignTests, MetaInv, IsWhole, diskVars, Opened, Written
<1>4. RunInv'
  <2>1. signature' = Workspace /\ UNCHANGED <<indexed, cacheFile, cached, raced, quiet>>
        /\ step' = "meta" /\ step = "sign" /\ cached
    BY DEF SignTests, IndexTypes
  <2>2. \E c \in Past' : signature' = TestsAfter(c)'
    BY <1>0, <2>1, TestsNow DEF TestsAfter
  <2>3. IF IsWhole(cacheFile) THEN indexed = cacheFile.content ELSE DOMAIN indexed = {}
    BY <2>1 DEF RunInv, Filing
  <2>4. ~ raced => indexed = Workspace
    BY <2>1 DEF RunInv
  <2> QED
    BY <1>0, <2>1, <2>2, <2>3, <2>4 DEF RunInv, Filing, Tracing, IsWhole
<1>5. CurrentInv'
  BY <1>0 DEF SignTests, CurrentInv, NothingLost, Halfway, Tracing, IsWhole, diskVars, Opened, Written
<1>6. LineageInv'
  BY <1>0 DEF SignTests, LineageInv, MapOf, IsWhole, diskVars, Opened, Written
<1>7. MapInv'
  BY <1>0 DEF SignTests, MapInv, Tracing, FilesOf, diskVars, Opened, Written
<1> QED
  BY <1>1, <1>2, <1>3, <1>4, <1>5, <1>6, <1>7

LEMMA SaveMetaKeeps == IndexInv /\ SaveMeta => IndexInv'
<1> SUFFICES ASSUME IndexInv, SaveMeta PROVE IndexInv'
  OBVIOUS
<1> USE DEF IndexInv
<1>0. /\ clock' = clock /\ edits' = edits /\ stamps' = stamps
      /\ Past' = Past /\ Workspace' = Workspace
      /\ Sdk' = Sdk /\ Engine' = Engine /\ Examples' = Examples
  BY DEF SaveMeta, diskVars, Past, Workspace, Test, Sdk, Engine, Examples
<1>1. IndexTypes'
  BY <1>0 DEF SaveMeta, IndexTypes, Trees, Filing, Tracing, diskVars, Opened, Written
<1>2. CacheInv'
  BY <1>0 DEF SaveMeta, CacheInv, IsWhole, diskVars, Opened, Written
<1>3. MetaInv'
  <2>1. metaFile' = Written(signature) /\ UNCHANGED <<raced, cacheFile>> /\ step = "meta"
    BY DEF SaveMeta
  <2>2. PICK s \in Past : signature = TestsAfter(s)
    BY <2>1 DEF RunInv
  <2>3. ~ raced /\ IsWhole(cacheFile) => cacheFile.content = TestsAfter(s)
    BY <2>1, <2>2 DEF RunInv
  <2>4. Upto(s, s)
    BY DEF Upto, Past
  <2>5. metaFile'.content = TestsAfter(s)
    BY <2>1, <2>2 DEF Written
  <2>6. s \in Past' /\ TestsAfter(s)' = TestsAfter(s)
    BY <1>0 DEF TestsAfter
  <2> QED
    BY <2>1, <2>3, <2>4, <2>5, <2>6 DEF MetaInv, IsWhole, TestsAfter, Upto
<1>4. RunInv'
  BY <1>0 DEF SaveMeta, RunInv, Filing, Tracing, IsWhole, diskVars, Opened, Written
<1>5. CurrentInv'
  BY <1>0 DEF SaveMeta, CurrentInv, NothingLost, RunInv, Filing
<1>6. LineageInv'
  BY <1>0 DEF SaveMeta, LineageInv, MapOf, IsWhole, diskVars, Opened, Written
<1>7. MapInv'
  BY <1>0 DEF SaveMeta, MapInv, IndexTypes, Filing, Tracing
<1> QED
  BY <1>1, <1>2, <1>3, <1>4, <1>5, <1>6, <1>7

LEMMA ReadLineageKeeps == IndexInv /\ ReadLineage => IndexInv'
<1> SUFFICES ASSUME IndexInv, ReadLineage PROVE IndexInv'
  OBVIOUS
<1> USE DEF IndexInv
<1>0. /\ clock' = clock /\ edits' = edits /\ stamps' = stamps
      /\ Past' = Past /\ Workspace' = Workspace
      /\ Sdk' = Sdk /\ Engine' = Engine /\ Examples' = Examples
  BY DEF ReadLineage, diskVars, Past, Workspace, Test, Sdk, Engine, Examples
<1>1. IndexTypes'
  BY <1>0 DEF ReadLineage, IndexTypes, Trees, Filing, Tracing, diskVars, Opened, Written
<1>2. CacheInv'
  BY <1>0 DEF ReadLineage, CacheInv, IsWhole, diskVars, Opened, Written
<1>3. MetaInv'
  BY <1>0 DEF ReadLineage, MetaInv, IsWhole, diskVars, Opened, Written
<1>4. RunInv'
  BY <1>0 DEF ReadLineage, RunInv, Filing, Tracing, IsWhole, diskVars, Opened, Written
<1>5. CurrentInv'
  BY <1>0 DEF ReadLineage, CurrentInv, NothingLost, Halfway, Tracing, IsWhole, diskVars, Opened, Written
<1>6. LineageInv'
  BY <1>0 DEF ReadLineage, LineageInv, MapOf, IsWhole, diskVars, Opened, Written
<1>7. MapInv'
  <2> SUFFICES ASSUME quiet, cached
               PROVE  \E tests \in {FilesOf(indexed), {}} :
                        lineageMap' = BuildMap(Sdk, Engine, tests, Examples)
    BY <1>0 DEF ReadLineage, MapInv, FilesOf
  <2>1. IsWhole(lineageFile) /\ lineageFile.content.inputs = LineageInputs
        /\ lineageMap' = lineageFile.content.map /\ step = "lineage"
    BY DEF ReadLineage, LineageIsKept
  <2>2. LineageInputs.tests = cacheFile
        /\ \A t \in Trees \ Tests : LineageInputs.trees[t] = stamps[t]
    BY DEF LineageInputs, TreeInputs, TreeSignature, FileSignature
  <2>3. MapOf(LineageInputs, lineageMap')
    BY <2>1 DEF LineageInv
  <2>4. PICK tests \in {TestsSigned(cacheFile), {}} :
          lineageMap' = BuildMap(Sdk, Engine, tests, Examples)
    BY <2>2, <2>3 DEF MapOf, IndexTypes
  <2>5. IF IsWhole(cacheFile) THEN indexed = cacheFile.content ELSE DOMAIN indexed = {}
    BY <2>1 DEF RunInv, Tracing
  <2>6. TestsSigned(cacheFile) = FilesOf(indexed)
    BY <2>5 DEF TestsSigned, FilesOf, IsWhole
  <2> QED
    BY <2>4, <2>6
<1> QED
  BY <1>1, <1>2, <1>3, <1>4, <1>5, <1>6, <1>7

LEMMA SignInputsKeeps == IndexInv /\ SignInputs => IndexInv'
<1> SUFFICES ASSUME IndexInv, SignInputs PROVE IndexInv'
  OBVIOUS
<1> USE DEF IndexInv
<1>0. /\ clock' = clock /\ edits' = edits /\ stamps' = stamps
      /\ Past' = Past /\ Workspace' = Workspace
      /\ Sdk' = Sdk /\ Engine' = Engine /\ Examples' = Examples
  BY DEF SignInputs, diskVars, Past, Workspace, Test, Sdk, Engine, Examples
<1>1. IndexTypes'
  BY <1>0 DEF SignInputs, IndexTypes, Trees, Filing, Tracing, diskVars, Opened, Written
<1>2. CacheInv'
  BY <1>0 DEF SignInputs, CacheInv, IsWhole, diskVars, Opened, Written
<1>3. MetaInv'
  BY <1>0 DEF SignInputs, MetaInv, IsWhole, diskVars, Opened, Written
<1>4. RunInv'
  BY <1>0 DEF SignInputs, RunInv, Filing, Tracing, IsWhole, diskVars, Opened, Written
<1>5. CurrentInv'
  BY <1>0 DEF SignInputs, CurrentInv, NothingLost, Halfway, Tracing, IsWhole, diskVars, Opened, Written
<1>6. LineageInv'
  <2>1. inputs' = LineageInputs /\ step' = "build" /\ UNCHANGED <<cached, lineageFile, cacheFile>>
    BY DEF SignInputs, diskVars
  <2>2. \A t \in Trees \ Tests : inputs'.trees[t] = stamps[t]
    BY <2>1 DEF LineageInputs, TreeInputs, TreeSignature
  <2>3. inputs'.tests = IF cached THEN cacheFile ELSE [NotThere EXCEPT !.state = "unused"]
    BY <2>1 DEF LineageInputs, TreeInputs, FileSignature
  <2>4. \A t \in Trees \ Tests : inputs'.trees[t] \in 0..clock
    BY <2>2 DEF IndexTypes
  <2> QED
    BY <1>0, <2>1, <2>3, <2>4 DEF LineageInv, MapOf, IsWhole, NotThere
<1>7. MapInv'
  BY <1>0 DEF SignInputs, MapInv, Tracing, FilesOf, diskVars, Opened, Written
<1> QED
  BY <1>1, <1>2, <1>3, <1>4, <1>5, <1>6, <1>7

LEMMA BuildLineageKeeps == IndexInv /\ BuildLineage => IndexInv'
<1> SUFFICES ASSUME IndexInv, BuildLineage PROVE IndexInv'
  OBVIOUS
<1> USE DEF IndexInv
<1>0. /\ clock' = clock /\ edits' = edits /\ stamps' = stamps
      /\ Past' = Past /\ Workspace' = Workspace
      /\ Sdk' = Sdk /\ Engine' = Engine /\ Examples' = Examples
  BY DEF BuildLineage, diskVars, Past, Workspace, Test, Sdk, Engine, Examples
<1>1. IndexTypes'
  BY <1>0 DEF BuildLineage, IndexTypes, Trees, Filing, Tracing, diskVars, Opened, Written
<1>2. CacheInv'
  BY <1>0 DEF BuildLineage, CacheInv, IsWhole, diskVars, Opened, Written
<1>3. MetaInv'
  BY <1>0 DEF BuildLineage, MetaInv, IsWhole, diskVars, Opened, Written
<1>4. RunInv'
  BY <1>0 DEF BuildLineage, RunInv, Filing, Tracing, IsWhole, diskVars, Opened, Written
<1>5. CurrentInv'
  BY <1>0 DEF BuildLineage, CurrentInv, NothingLost, Halfway, Tracing, IsWhole, diskVars, Opened, Written
<1>6. LineageInv'
  <2>1. lineageMap' = BuildMap(Sdk, Engine, TestFiles, Examples) /\ lineageFile' = Opened
        /\ step = "build" /\ step' = "save" /\ UNCHANGED <<inputs, cached, cacheFile, indexed>>
    BY DEF BuildLineage
  <2>2. PICK tests \in {FilesOf(indexed), {}} :
          lineageMap' = BuildMap(Sdk, Engine, tests, Examples)
    BY <2>1, FilesTaken
  <2>3. ASSUME inputs.tests.state # "unused" PROVE FilesOf(indexed) = TestsSigned(inputs.tests)
    <3>1. cached /\ inputs.tests = cacheFile
      BY <2>1, <2>3 DEF LineageInv
    <3>2. IF IsWhole(cacheFile) THEN indexed = cacheFile.content ELSE DOMAIN indexed = {}
      BY <2>1, <3>1 DEF RunInv, Tracing
    <3> QED
      BY <3>1, <3>2 DEF TestsSigned, FilesOf, IsWhole
  <2>4. MapOf(inputs, lineageMap')
    BY <2>1, <2>2, <2>3 DEF MapOf, LineageInv
  <2>5. MapOf(inputs, lineageMap)'
    BY <1>0, <2>1, <2>4 DEF MapOf
  <2> QED
    BY <1>0, <2>1, <2>5 DEF LineageInv, IsWhole, Opened
<1>7. MapInv'
  <2>1. \E tests \in {FilesOf(indexed), {}} :
          lineageMap' = BuildMap(Sdk, Engine, tests, Examples)
    BY FilesTaken DEF BuildLineage
  <2>2. indexed' = indexed
    BY DEF BuildLineage
  <2> QED
    BY <1>0, <2>1, <2>2 DEF MapInv, FilesOf
<1> QED
  BY <1>1, <1>2, <1>3, <1>4, <1>5, <1>6, <1>7

LEMMA SaveLineageKeeps == IndexInv /\ SaveLineage => IndexInv'
<1> SUFFICES ASSUME IndexInv, SaveLineage PROVE IndexInv'
  OBVIOUS
<1> USE DEF IndexInv
<1>0. /\ clock' = clock /\ edits' = edits /\ stamps' = stamps
      /\ Past' = Past /\ Workspace' = Workspace
      /\ Sdk' = Sdk /\ Engine' = Engine /\ Examples' = Examples
  BY DEF SaveLineage, diskVars, Past, Workspace, Test, Sdk, Engine, Examples
<1>1. IndexTypes'
  BY <1>0 DEF SaveLineage, IndexTypes, Trees, Filing, Tracing, diskVars, Opened, Written
<1>2. CacheInv'
  BY <1>0 DEF SaveLineage, CacheInv, IsWhole, diskVars, Opened, Written
<1>3. MetaInv'
  BY <1>0 DEF SaveLineage, MetaInv, IsWhole, diskVars, Opened, Written
<1>4. RunInv'
  BY <1>0 DEF SaveLineage, RunInv, Filing, Tracing, IsWhole, diskVars, Opened, Written
<1>5. CurrentInv'
  BY <1>0 DEF SaveLineage, CurrentInv, NothingLost, Halfway, Tracing, IsWhole, diskVars, Opened, Written
<1>6. LineageInv'
  BY <1>0 DEF SaveLineage, LineageInv, MapOf, IsWhole, diskVars, Opened, Written
<1>7. MapInv'
  BY <1>0 DEF SaveLineage, MapInv, Tracing, FilesOf, diskVars, Opened, Written
<1> QED
  BY <1>1, <1>2, <1>3, <1>4, <1>5, <1>6, <1>7

LEMMA EndLineageKeeps == IndexInv /\ EndLineage => IndexInv'
<1> SUFFICES ASSUME IndexInv, EndLineage PROVE IndexInv'
  OBVIOUS
<1> USE DEF IndexInv
<1>0. /\ clock' = clock /\ edits' = edits /\ stamps' = stamps
      /\ Past' = Past /\ Workspace' = Workspace
      /\ Sdk' = Sdk /\ Engine' = Engine /\ Examples' = Examples
  BY DEF EndLineage, diskVars, Past, Workspace, Test, Sdk, Engine, Examples
<1>1. IndexTypes'
  BY <1>0 DEF EndLineage, IndexTypes, Trees, Filing, Tracing, diskVars, Opened, Written
<1>2. CacheInv'
  BY <1>0 DEF EndLineage, CacheInv, IsWhole, diskVars, Opened, Written
<1>3. MetaInv'
  BY <1>0 DEF EndLineage, MetaInv, IsWhole, diskVars, Opened, Written
<1>4. RunInv'
  BY <1>0 DEF EndLineage, RunInv, Filing, Tracing, IsWhole, diskVars, Opened, Written
<1>5. CurrentInv'
  BY <1>0 DEF EndLineage, CurrentInv, NothingLost, Halfway, Tracing, IsWhole, diskVars, Opened, Written
<1>6. LineageInv'
  BY <1>0 DEF EndLineage, LineageInv, MapOf, IsWhole, diskVars, Opened, Written
<1>7. MapInv'
  BY <1>0 DEF EndLineage, MapInv, Tracing, FilesOf, diskVars, Opened, Written
<1> QED
  BY <1>1, <1>2, <1>3, <1>4, <1>5, <1>6, <1>7

LEMMA EndRunKeeps == IndexInv /\ EndRun => IndexInv'
<1> SUFFICES ASSUME IndexInv, EndRun PROVE IndexInv'
  OBVIOUS
<1> USE DEF IndexInv
<1>0. /\ clock' = clock /\ edits' = edits /\ stamps' = stamps
      /\ Past' = Past /\ Workspace' = Workspace
      /\ Sdk' = Sdk /\ Engine' = Engine /\ Examples' = Examples
  BY DEF EndRun, diskVars, Past, Workspace, Test, Sdk, Engine, Examples
<1>1. IndexTypes'
  BY <1>0 DEF EndRun, IndexTypes, Trees, Filing, Tracing, diskVars, Opened, Written, Forget
<1>2. CacheInv'
  BY <1>0 DEF EndRun, CacheInv, IsWhole, diskVars, Opened, Written, Forget
<1>3. MetaInv'
  BY <1>0 DEF EndRun, MetaInv, IsWhole, diskVars, Opened, Written, Forget
<1>4. RunInv'
  BY <1>0 DEF EndRun, RunInv, Filing, Tracing, IsWhole, diskVars, Opened, Written, Forget
<1>5. CurrentInv'
  BY <1>0 DEF EndRun, CurrentInv, NothingLost, Halfway, Tracing, IsWhole, diskVars, Opened, Written, Forget
<1>6. LineageInv'
  BY <1>0 DEF EndRun, LineageInv, MapOf, IsWhole, diskVars, Opened, Written, Forget
<1>7. MapInv'
  BY <1>0 DEF EndRun, MapInv, Tracing, FilesOf, diskVars, Opened, Written, Forget
<1> QED
  BY <1>1, <1>2, <1>3, <1>4, <1>5, <1>6, <1>7

LEMMA KillKeeps == IndexInv /\ Kill => IndexInv'
<1> SUFFICES ASSUME IndexInv, Kill PROVE IndexInv'
  OBVIOUS
<1> USE DEF IndexInv
<1>0. /\ clock' = clock /\ edits' = edits /\ stamps' = stamps
      /\ Past' = Past /\ Workspace' = Workspace
      /\ Sdk' = Sdk /\ Engine' = Engine /\ Examples' = Examples
  BY DEF Kill, diskVars, Past, Workspace, Test, Sdk, Engine, Examples
<1>1. IndexTypes'
  BY <1>0 DEF Kill, IndexTypes, Trees, Filing, Tracing, diskVars, Opened, Written, Forget
<1>2. CacheInv'
  BY <1>0 DEF Kill, CacheInv, IsWhole, diskVars, Opened, Written, Forget
<1>3. MetaInv'
  BY <1>0 DEF Kill, MetaInv, IsWhole, diskVars, Opened, Written, Forget
<1>4. RunInv'
  BY <1>0 DEF Kill, RunInv, Filing, Tracing, IsWhole, diskVars, Opened, Written, Forget
<1>5. CurrentInv'
  BY <1>0 DEF Kill, CurrentInv, NothingLost, Halfway, Tracing, IsWhole, diskVars, Opened, Written, Forget
<1>6. LineageInv'
  BY <1>0 DEF Kill, LineageInv, MapOf, IsWhole, diskVars, Opened, Written, Forget
<1>7. MapInv'
  BY <1>0 DEF Kill, MapInv, Tracing, FilesOf, diskVars, Opened, Written, Forget
<1> QED
  BY <1>1, <1>2, <1>3, <1>4, <1>5, <1>6, <1>7

\* An edit.  What was read of a tree before is now older than its stamp.
LEMMA EditKeeps == IndexInv /\ (\E t \in Trees : Edit(t)) => IndexInv'
<1> SUFFICES ASSUME IndexInv, NEW t \in Trees, Edit(t) PROVE IndexInv'
  OBVIOUS
<1> USE DEF IndexInv
<1>0. /\ clock \in Nat /\ clock' = clock + 1
      /\ edits \in [Trees -> 0..clock] /\ stamps \in [Trees -> 0..clock]
      /\ edits' = [edits EXCEPT ![t] = @ + 1] /\ stamps' = [stamps EXCEPT ![t] = clock + 1]
      /\ raced' = (raced \/ (t \in Tests /\ step \in {"cache", "sign"})) /\ quiet' = FALSE
      /\ UNCHANGED <<cacheFile, metaFile, lineageFile>>
      /\ UNCHANGED <<step, cached, calls, indexed, lazy, signature, inputs, lineageMap>>
  BY DEF Edit, runVars, IndexTypes
<1>1. IndexTypes'
  BY <1>0 DEF IndexTypes, Trees, Filing, Tracing
<1>a. Past \subseteq Past'
  BY <1>0, <1>1, PastStays
<1>b. \A c : TestsAfter(c)' = TestsAfter(c)
  BY DEF TestsAfter
<1>c. t \notin Tests => Workspace' = Workspace /\ \A p \in Tests : stamps'[p] = stamps[p]
  BY <1>0 DEF Workspace, Test, Trees
<1>d. t \in Tests => \E p \in Tests : stamps'[p] > cacheFile.time
  BY <1>0 DEF IndexTypes, Trees
<1>2. CacheInv'
  <2> SUFFICES ASSUME IsWhole(cacheFile)
               PROVE  /\ \E c \in Past' : cacheFile.content = TestsAfter(c)
                      /\ ~ raced' /\ (\A p \in Tests : stamps'[p] <= cacheFile.time) =>
                           cacheFile.content = Workspace'
    BY <1>0, <1>b DEF CacheInv, IsWhole
  <2>1. \E c \in Past' : cacheFile.content = TestsAfter(c)
    BY <1>a DEF CacheInv
  <2>2. ASSUME ~ raced', \A p \in Tests : stamps'[p] <= cacheFile.time
        PROVE  cacheFile.content = Workspace'
    <3>1. t \notin Tests
      BY <1>0, <1>d, <2>2 DEF IndexTypes, Trees
    <3>2. cacheFile.content = Workspace
      BY <1>0, <1>c, <2>2, <3>1 DEF CacheInv
    <3> QED
      BY <1>c, <3>1, <3>2
  <2> QED
    BY <2>1, <2>2
<1>3. MetaInv'
  <2>1. UNCHANGED <<metaFile, cacheFile>> /\ (~ raced' => ~ raced)
    BY <1>0
  <2> QED
    BY <1>a, <1>b, <2>1 DEF MetaInv, IsWhole, Upto
<1>4. RunInv'
  <2>1. ~ raced' /\ step \in {"cache", "sign"} => ~ raced /\ Workspace' = Workspace
    BY <1>0, <1>c
  <2>2. UNCHANGED <<step, cached, indexed, signature, cacheFile>> /\ ~ quiet'
        /\ (~ raced' => ~ raced)
    BY <1>0
  <2> QED
    BY <1>a, <1>b, <2>1, <2>2 DEF RunInv, Filing, Tracing, IsWhole
<1>5. CurrentInv'
  BY <1>0 DEF CurrentInv
<1>6. LineageInv'
  <2>1. ASSUME NEW signed, NEW map, MapOf(signed, map) PROVE MapOf(signed, map)'
    <3>1. \A u \in Trees \ Tests : signed.trees[u] \in 0..clock'
      BY <1>0, <2>1 DEF MapOf
    <3>2. ASSUME signed.tests.state # "unused", \A u \in Trees \ Tests : signed.trees[u] = stamps'[u]
          PROVE  \E tests \in {TestsSigned(signed.tests), {}} :
                   map = BuildMap(Sdk', Engine', tests, Examples')
      <4>1. t \in Tests
        BY <1>0, <2>1, <3>2 DEF MapOf
      <4>2. t \notin {"sdk", "engine", "examples"}
        BY <4>1, IndexBounds
      <4>3. Sdk' = Sdk /\ Engine' = Engine /\ Examples' = Examples
        BY <1>0, <4>2 DEF Sdk, Engine, Examples, Trees
      <4>4. \A u \in Trees \ Tests : signed.trees[u] = stamps[u]
        BY <1>0, <3>2, <4>1
      <4> QED
        BY <2>1, <3>2, <4>3, <4>4 DEF MapOf
    <3> QED
      BY <3>1, <3>2 DEF MapOf, TestsSigned, FilesOf
  <2>2. UNCHANGED <<lineageFile, step, cached, inputs, cacheFile, lineageMap>>
    BY <1>0
  <2>3. IsWhole(lineageFile)' => MapOf(lineageFile.content.inputs, lineageFile.content.map)'
    BY <2>1, <2>2 DEF LineageInv, IsWhole
  <2>4. step' = "save" => MapOf(inputs, lineageMap)'
    BY <2>1, <2>2 DEF LineageInv
  <2>5. step' = "build" => \A u \in Trees \ Tests : inputs'.trees[u] \in 0..clock'
    BY <1>0, <2>2 DEF LineageInv
  <2> QED
    BY <2>2, <2>3, <2>4, <2>5 DEF LineageInv
<1>7. MapInv'
  BY <1>0 DEF MapInv
<1> QED
  BY <1>1, <1>2, <1>3, <1>4, <1>5, <1>6, <1>7

\* The other ways leave the indexes alone.
LEMMA OnlyIndexes == [SelectingNext]_selectingVars => IndexesNext \/ UNCHANGED indexVars
BY DEF SelectingNext, selectingVars, Make, AskMade, Ask, Answer, Universal, Request, Report, Topics,
       Indexes, Look

\* Where nothing of the indexes changes, all stays as it is.
LEMMA IndexesRest == IndexInv /\ UNCHANGED indexVars => IndexInv'
<1> SUFFICES ASSUME IndexInv, UNCHANGED indexVars PROVE IndexInv'
  OBVIOUS
<1> USE DEF IndexInv
<1>0. /\ clock' = clock /\ edits' = edits /\ stamps' = stamps
      /\ cacheFile' = cacheFile /\ metaFile' = metaFile /\ lineageFile' = lineageFile
      /\ step' = step /\ cached' = cached /\ indexed' = indexed /\ signature' = signature
      /\ inputs' = inputs /\ lineageMap' = lineageMap /\ quiet' = quiet /\ raced' = raced
  BY DEF indexVars, diskVars, runVars
<1>1. /\ Past' = Past /\ Workspace' = Workspace
      /\ Sdk' = Sdk /\ Engine' = Engine /\ Examples' = Examples
  BY <1>0 DEF Past, Workspace, Test, Sdk, Engine, Examples
<1>2. IndexTypes'
  BY <1>0, <1>1 DEF IndexTypes
<1>3. CacheInv'
  BY <1>0, <1>1 DEF CacheInv, IsWhole
<1>4. MetaInv'
  BY <1>0, <1>1 DEF MetaInv, IsWhole, Upto, TestsAfter
<1>5. RunInv'
  BY <1>0, <1>1 DEF RunInv, IsWhole
<1>6. CurrentInv'
  BY <1>0, <1>1 DEF CurrentInv, NothingLost, Halfway, IsWhole
<1>7. LineageInv'
  BY <1>0, <1>1 DEF LineageInv, MapOf, IsWhole
<1>8. MapInv'
  BY <1>0, <1>1 DEF MapInv, FilesOf
<1> QED
  BY <1>2, <1>3, <1>4, <1>5, <1>6, <1>7, <1>8

\* As the indexes are found.
LEMMA IndexesStart == SelectingInit => IndexInv
<1> SUFFICES ASSUME SelectingInit PROVE IndexInv
  OBVIOUS
<1>1. /\ clock = 0 /\ edits = [t \in Trees |-> 0] /\ stamps = [t \in Trees |-> 0]
      /\ metaFile = NotThere /\ lineageFile = NotThere /\ step = "idle" /\ quiet = FALSE
      /\ lineageMap = EmptyMap /\ cacheFile \in {NotThere, Written(Workspace)}
  BY DEF SelectingInit, NoIndexes, IndexesInit
<1>2. IndexTypes
  BY <1>1 DEF IndexTypes, NotThere, Written, Filing, Tracing
<1>3. CacheInv
  BY <1>1, <1>2, TestsNow DEF CacheInv, NotThere, Written, IsWhole
<1>4. MetaInv /\ RunInv /\ CurrentInv /\ LineageInv /\ MapInv
  BY <1>1 DEF MetaInv, RunInv, CurrentInv, LineageInv, MapInv, NotThere, IsWhole, Filing, Tracing
<1> QED
  BY <1>2, <1>3, <1>4 DEF IndexInv

\* What the files of the indexes hold against the trees, whatever was edited or killed.
THEOREM IndexInvariance == SelectingSpec => []IndexInv
<1>1. IndexInv /\ [SelectingNext]_selectingVars => IndexInv'
  <2> SUFFICES ASSUME IndexInv, [SelectingNext]_selectingVars PROVE IndexInv'
    OBVIOUS
  <2>1. CASE IndexesNext
    BY <2>1, EditKeeps, StartRunKeeps, LoadByMetaKeeps, LoadByTimeKeeps, BuildProjectsKeeps,
       SaveProjectsKeeps, SignTestsKeeps, SaveMetaKeeps, ReadLineageKeeps, SignInputsKeeps,
       BuildLineageKeeps, SaveLineageKeeps, EndLineageKeeps, EndRunKeeps, KillKeeps DEF IndexesNext
  <2>2. CASE UNCHANGED indexVars
    BY <2>2, IndexesRest
  <2> QED
    BY <2>1, <2>2, OnlyIndexes
<1> QED
  BY IndexesStart, <1>1, PTL DEF SelectingSpec

\* The projects that a run indexes, and its map of lineage, are those of the trees as
\* they are, whatever was kept, edited or killed before (load_or_build_projects,
\* build_api_lineage_map).
THEOREM IndexesStayCurrent == SelectingSpec => []IndexesAreCurrent
<1>1. IndexInv => IndexesAreCurrent
  <2> SUFFICES ASSUME IndexInv, quiet PROVE IndexesAreCurrent
    BY DEF IndexesAreCurrent
  <2>1. step \in {"load"} \cup Filing \cup Tracing
    BY DEF IndexInv, IndexTypes, Filing, Tracing
  <2>2. ASSUME ~ raced, step # "load" PROVE NothingLost
    BY <2>1, <2>2 DEF IndexInv, RunInv, CurrentInv, NothingLost
  <2>3. FilesOf(indexed) = {<<p, Indexed(p).files>> : p \in DOMAIN indexed}
    BY DEF FilesOf, Indexed
  <2>4. step = "report" /\ cached /\ lineageMap # EmptyMap =>
          \E tests \in {FilesOf(indexed), {}} : lineageMap = BuildMap(Sdk, Engine, tests, Examples)
    BY DEF IndexInv, MapInv, Tracing
  <2> QED
    BY <2>2, <2>3, <2>4 DEF IndexesAreCurrent, NothingLost
<1> QED
  BY <1>1, IndexInvariance, PTL
-------------------------------------------------------------------------------
\* Requests (PrResolver, BatchQuality).
EntryFields == {"resolver", "apis", "canonical", "projects", "reasons", "risk", "broad", "bridge"}

\* An entry by itself; the ranking takes projects out and leaves the reasons.
IsEntry(e) ==
  /\ DOMAIN e = EntryFields /\ e = [x \in EntryFields |-> e[x]]
  /\ e.apis \subseteq Apis /\ e.canonical \subseteq Apis
  /\ e.projects \subseteq DOMAIN e.reasons /\ DOMAIN e.reasons \subseteq Projects
  /\ e.reasons = [p \in DOMAIN e.reasons |-> e.reasons[p]]
  /\ e.risk \in Range(Risks) /\ e.broad \in BOOLEAN /\ e.bridge \in BOOLEAN

ReqTypes ==
  /\ files \in [1..NFiles -> Profiles]
  /\ phase \in {"files", "enrich", "fallback", "rank", "done"}
  /\ entries \in Seq(Range(entries)) /\ Len(entries) <= NFiles
  /\ phase # "files" => Len(entries) = NFiles
  /\ \A i \in DOMAIN entries : IsEntry(entries[i])
  /\ risk \in Range(Risks)
  /\ unresolved \subseteq DOMAIN entries /\ lowConfidence \subseteq DOMAIN entries
  /\ found \subseteq {"api", "family", "broad"}
  /\ policy \in {"none", "ok", "warn", "require_broader_suite", "manual_review"}
  /\ source \in {"none", "api", "family", "broad", "unknown"}
  /\ extra \subseteq Projects

\* What the entry i says of its file: e.risk is no higher than that of the whole, and
\* it has targets, or is named, or nothing is to be found for the file.
EntryInv(e, i) ==
  LET from == Resolver(files[i])
  IN /\ phase # "done" => e.projects = DOMAIN e.reasons
     /\ Rank(e.risk) <= Rank(risk)
     /\ DOMAIN e.reasons = {} /\ e.apis = {} =>
          i \in unresolved \/ from \notin {"override", "naming", "mappings"}
     /\ i \in unresolved =>
          /\ e.apis = {} /\ DOMAIN e.reasons \subseteq files[i].covers /\ i \notin lowConfidence
          /\ e.broad \/ e.resolver = "unresolved"
     /\ e.risk = "low" /\ DOMAIN e.reasons = {} => e.broad \/ e.resolver = "skip"
     /\ e.resolver \in {"skip", "unresolved"} => DOMAIN e.reasons \subseteq files[i].covers
     /\ e.resolver = "bridge" =>
          /\ e.risk # "low"
          /\ files[i].bridge = "infrastructure" => DOMAIN e.reasons \subseteq files[i].covers
     /\ e.resolver = "unresolved" => e.risk = "high"
     /\ from = "skip" => e.resolver = "skip"
     /\ from = "overtake" => e.broad

\* The totals are those of the entries.
TotalsInv ==
  /\ affected = UNION {entries[i].apis : i \in DOMAIN entries}
  /\ \A a : a \in covered <=>
       \E i \in DOMAIN entries : \E p \in DOMAIN entries[i].reasons : a \in entries[i].reasons[p].apis
  /\ covered \subseteq affected
  /\ phase \in {"files", "enrich"} => gap = {} /\ policy = "none"
  /\ phase \in {"fallback", "rank", "done"} => gap = affected \ covered
  /\ policy = "ok" => risk = "low" /\ unresolved = {}

\* The ranking keeps what it keeps of what the entries have reasons for.
RankInv ==
  /\ phase = "done" => \A i \in DOMAIN entries :
       entries[i].projects = DOMAIN entries[i].reasons \cap Kept(BeforeRanking)
  /\ phase \in {"rank", "done"} => extra \cap Selected(BeforeRanking) = {}

ReqInv ==
  ReqTypes /\ (\A i \in DOMAIN entries : EntryInv(entries[i], i)) /\ TotalsInv /\ RankInv

\* A set of natural numbers has a least one.
LEMMA LeastNumber ==
  ASSUME NEW S \in SUBSET Nat, S # {}
  PROVE  Min(S) \in S /\ \A x \in S : Min(S) <= x
<1> DEFINE R == {pair \in Nat \X Nat : pair[1] < pair[2]}
<1>1. IsWellFoundedOn(R, Nat)
  BY NatLessThanWellFounded, Zenon DEF OpToRel
<1>2. PICK d \in S : \A e \in S : ~ (<<e, d>> \in R)
  <2> HIDE DEF R
  <2> QED BY <1>1, WFMin, Zenon
<1>3. \A e \in S : d <= e
  <2> TAKE e \in S
  <2>1. ~ (<<e, d>> \in R) /\ e \in Nat /\ d \in Nat
    <3> HIDE DEF R
    <3> QED BY <1>2
  <2> QED BY <2>1
<1> QED
  BY <1>3 DEF Min

LEMMA RiskFacts ==
  /\ Range(Risks) = {"low", "medium", "high", "critical"}
  /\ Rank("low") = 1 /\ Rank("medium") = 2 /\ Rank("high") = 3 /\ Rank("critical") = 4
<1>1. /\ DOMAIN Risks = 1..4 /\ Risks[1] = "low" /\ Risks[2] = "medium" /\ Risks[3] = "high"
      /\ Risks[4] = "critical"
  BY DEF Risks
<1>2. Range(Risks) = {"low", "medium", "high", "critical"}
  BY <1>1 DEF Range
<1>3. \A r \in Range(Risks) : Rank(r) \in 1..4 /\ Risks[Rank(r)] = r
  BY <1>1 DEF Range, Rank
<1> QED
  BY <1>1, <1>2, <1>3

LEMMA WorseFacts ==
  ASSUME NEW r \in Range(Risks), NEW s \in Range(Risks)
  PROVE  /\ Worse(r, s) \in Range(Risks) /\ Rank(r) <= Rank(Worse(r, s)) /\ Rank(s) <= Rank(Worse(r, s))
         /\ Rank(r) \in 1..4
BY RiskFacts DEF Worse

\* The resolver of a file knows it.
LEMMA ResolverKnows ==
  ASSUME NEW f PROVE Knows(Resolver(f), f) /\ Resolver(f) \in Range(Order)
<1> DEFINE S == {k \in DOMAIN Order : Knows(Order[k], f)}
<1>1. DOMAIN Order = 1..9 /\ Order[9] = "mappings"
  BY DEF Order
<1>2. S \in SUBSET Nat /\ 9 \in S
  BY <1>1 DEF Knows
<1>3. Min(S) \in S
  <2> HIDE DEF S
  <2> QED BY <1>2, LeastNumber
<1> QED
  BY <1>1, <1>3 DEF Resolver, Range

LEMMA RangeOfAnySeq ==
  ASSUME NEW s, NEW n \in Nat, s = [i \in 1..n |-> s[i]]
  PROVE  s \in Seq(Range(s))
<1>1. \A i \in 1..n : s[i] \in Range(s)
  BY DEF Range
<1> QED BY <1>1, IsASeq

\* The new entry of a file keeps the invariant, when it is right for the file.
LEMMA RecordKeeps ==
  ASSUME ReqInv, phase = "files", N <= NFiles,
         NEW r, NEW ms, NEW links, NEW level, NEW broad, NEW e, NEW n,
         NEW reasons, n = N, e = Entry(r, ms, reasons, level, broad),
         level \in Range(Risks), broad \in BOOLEAN, ApisOf(ms) \subseteq Apis,
         DOMAIN reasons \subseteq Projects, reasons = [p \in DOMAIN reasons |-> reasons[p]],
         \A a : (\E p \in DOMAIN reasons : a \in reasons[p].apis) <=> \E l \in links : l[1] = a,
         \A l \in links : l[1] \in ApisOf(ms),
         Record(r, ms, links, reasons, level, broad),
         found' \subseteq {"api", "family", "broad"},
         unresolved' \in {unresolved, unresolved \cup {n}},
         lowConfidence' \in {lowConfidence, lowConfidence \cup {n}},
         EntryInv(e, n)'
  PROVE  ReqInv'
<1>2. /\ e = [resolver |-> r, apis |-> ApisOf(ms), canonical |-> CanonicalOf(ms),
              projects |-> DOMAIN reasons, reasons |-> reasons, risk |-> level, broad |-> broad,
              bridge |-> r = "bridge" /\ File.bridge = "generated"]
  BY DEF Entry
<1>3. /\ entries' = Append(entries, e) /\ risk' = Worse(risk, level)
      /\ affected' = affected \cup ApisOf(ms) /\ covered' = covered \cup {l[1] : l \in links}
      /\ UNCHANGED <<files, phase, gap, policy, source, extra>>
  BY DEF Record, result
<1>4. entries \in Seq(Range(entries)) /\ n = Len(entries) + 1 /\ n <= NFiles
  BY DEF ReqInv, ReqTypes, N
<1>5. /\ Len(entries) \in Nat /\ DOMAIN entries = 1..Len(entries)
      /\ Len(entries') = n /\ DOMAIN entries' = 1..n /\ entries'[n] = e
      /\ \A i \in 1..Len(entries) : entries'[i] = entries[i]
  BY <1>3, <1>4
<1>6. entries' \in Seq(Range(entries'))
  <2>1. entries' \in Seq(Range(entries) \cup {e})
    <3>1. entries \in Seq(Range(entries) \cup {e})
      BY <1>4, SeqMonotonic
    <3> QED BY <1>3, <3>1, AppendProperties
  <2>2. entries' = [i \in 1..n |-> entries'[i]]
    BY <1>5, <2>1, LenProperties
  <2> QED BY <2>2, <1>4, <1>5, RangeOfAnySeq
<1>7. IsEntry(e)
  <2>1. CanonicalOf(ms) \subseteq ApisOf(ms)
    BY DEF CanonicalOf, ApisOf
  <2>2. /\ DOMAIN e = EntryFields /\ e = [x \in EntryFields |-> e[x]] /\ e.apis = ApisOf(ms)
        /\ e.canonical = CanonicalOf(ms) /\ e.projects = DOMAIN reasons /\ e.reasons = reasons
        /\ e.risk = level /\ e.broad = broad
    BY <1>2 DEF EntryFields
  <2>3. e.bridge \in BOOLEAN
    BY <1>2
  <2>4. DOMAIN reasons \subseteq Projects
    OBVIOUS
  <2> QED
    BY <2>1, <2>2, <2>3, <2>4 DEF IsEntry
<1>8. ReqTypes'
  <2>1. /\ files' \in [1..NFiles -> Profiles] /\ phase' = "files" /\ Len(entries') <= NFiles
        /\ policy' = policy /\ source' = source /\ extra' = extra
    BY <1>3, <1>4, <1>5 DEF ReqInv, ReqTypes
  <2>2. risk' \in Range(Risks)
    BY <1>3, WorseFacts DEF ReqInv, ReqTypes
  <2>3. (\A i \in DOMAIN entries : IsEntry(entries[i]))'
    <3> SUFFICES ASSUME NEW i \in 1..n PROVE IsEntry(entries'[i])
      BY <1>5
    <3>1. CASE i = n
      BY <3>1, <1>5, <1>7
    <3>2. CASE i # n
      BY <3>2, <1>4, <1>5 DEF ReqInv, ReqTypes
    <3> QED BY <3>1, <3>2
  <2>4. unresolved' \subseteq DOMAIN entries' /\ lowConfidence' \subseteq DOMAIN entries'
    BY <1>4, <1>5 DEF ReqInv, ReqTypes
  <2> QED
    BY <1>6, <2>1, <2>2, <2>3, <2>4 DEF ReqInv, ReqTypes
<1>9. (\A i \in DOMAIN entries : EntryInv(entries[i], i))'
  <2> SUFFICES ASSUME NEW i \in 1..n PROVE EntryInv(entries[i], i)'
    BY <1>5
  <2>1. CASE i = n
    BY <2>1, <1>5 DEF EntryInv
  <2>2. CASE i # n
    <3>1. EntryInv(entries[i], i) /\ IsEntry(entries[i]) /\ entries'[i] = entries[i]
      BY <2>2, <1>4, <1>5 DEF ReqInv, ReqTypes
    <3>2. Rank(entries[i].risk) <= Rank(risk')
      <4>1. Rank(entries[i].risk) <= Rank(risk) /\ entries[i].risk \in Range(Risks)
        BY <3>1 DEF EntryInv, IsEntry
      <4>2. Rank(risk) <= Rank(risk') /\ Rank(entries[i].risk) \in 1..4 /\ Rank(risk) \in 1..4
            /\ Rank(risk') \in 1..4
        BY <1>3, <4>1, WorseFacts DEF ReqInv, ReqTypes
      <4> QED BY <4>1, <4>2
    <3>3. (i \in unresolved' <=> i \in unresolved) /\ (i \in lowConfidence' <=> i \in lowConfidence)
      BY <2>2
    <3> QED
      BY <1>3, <3>1, <3>2, <3>3 DEF EntryInv
  <2> QED BY <2>1, <2>2
<1>10. TotalsInv'
  <2>1. affected' = UNION {entries'[i].apis : i \in DOMAIN entries'}
    <3>1. e.apis = ApisOf(ms)
      BY <1>2
    <3> QED BY <1>3, <1>5, <3>1 DEF ReqInv, TotalsInv
  <2>2. \A a : a \in covered' <=>
          \E i \in DOMAIN entries' : \E p \in DOMAIN entries'[i].reasons : a \in entries'[i].reasons[p].apis
    <3>1. e.reasons = reasons
      BY <1>2
    <3>2. \A a : a \in covered <=>
            \E i \in DOMAIN entries : \E p \in DOMAIN entries[i].reasons : a \in entries[i].reasons[p].apis
      BY DEF ReqInv, TotalsInv
    <3>3. ASSUME NEW a PROVE a \in {l[1] : l \in links} <=> \E p \in DOMAIN reasons : a \in reasons[p].apis
      OBVIOUS
    <3>4. ASSUME NEW a PROVE (\E i \in DOMAIN entries' : \E p \in DOMAIN entries'[i].reasons : a \in entries'[i].reasons[p].apis)
            <=> \/ \E i \in DOMAIN entries : \E p \in DOMAIN entries[i].reasons : a \in entries[i].reasons[p].apis
                \/ \E p \in DOMAIN reasons : a \in reasons[p].apis
      <4>1. ASSUME NEW i \in DOMAIN entries', NEW p \in DOMAIN entries'[i].reasons,
                   a \in entries'[i].reasons[p].apis
            PROVE  \/ \E k \in DOMAIN entries : \E q \in DOMAIN entries[k].reasons : a \in entries[k].reasons[q].apis
                   \/ \E q \in DOMAIN reasons : a \in reasons[q].apis
        <5>1. CASE i = n
          BY <4>1, <5>1, <1>5, <3>1
        <5>2. CASE i # n
          BY <4>1, <5>2, <1>4, <1>5
        <5> QED BY <5>1, <5>2
      <4>2. ASSUME NEW i \in DOMAIN entries PROVE i \in DOMAIN entries' /\ entries'[i] = entries[i]
        BY <1>4, <1>5
      <4>3. n \in DOMAIN entries' /\ entries'[n].reasons = reasons
        BY <1>4, <1>5, <3>1
      <4> QED BY <4>1, <4>2, <4>3
    <3> TAKE a
    <3>5. a \in covered' <=> a \in covered \/ a \in {l[1] : l \in links}
      BY <1>3
    <3> QED BY <3>2, <3>3, <3>4, <3>5
  <2>3. covered' \subseteq affected'
    BY <1>3 DEF ReqInv, TotalsInv
  <2>4. phase' = "files" /\ gap' = {} /\ policy' = "none"
    BY <1>3 DEF ReqInv, TotalsInv
  <2> QED
    BY <2>1, <2>2, <2>3, <2>4 DEF TotalsInv
<1>11. RankInv'
  BY <1>3 DEF RankInv
<1> QED
  BY <1>8, <1>9, <1>10, <1>11 DEF ReqInv

\* The file whose turn it is.
LEMMA FileFacts ==
  ASSUME ReqInv, phase = "files", N <= NFiles
  PROVE  /\ N \in 1..NFiles /\ File = files[N] /\ File \in Profiles
         /\ N \notin unresolved /\ N \notin lowConfidence
<1>1. entries \in Seq(Range(entries)) /\ N = Len(entries) + 1 /\ DOMAIN entries = 1..Len(entries)
  BY DEF ReqInv, ReqTypes, N
<1> QED
  BY <1>1, CapAssumption DEF ReqInv, ReqTypes, File

\* What the indexes lead to.
LEMMA LinkFacts ==
  ASSUME NEW ms \in SUBSET ApiMapping
  PROVE  /\ ApisOf(ms) \subseteq Apis
         /\ \A links \in {Links(ms), ConfirmedLinks(ms), LinksByName(ms), NarrowedLinks(ms)} :
              \A l \in links : l[1] \in ApisOf(ms) /\ l[2] \in Projects
<1>1. ASSUME NEW a \in Apis, NEW byId \in BOOLEAN PROVE Consumers(a, byId) \subseteq Projects
  BY IndexAssumption DEF Consumers
<1>2. ASSUME NEW m \in ms PROVE m.api \in Apis /\ m.id \in BOOLEAN /\ m.sdk \in BOOLEAN
  BY DEF ApiMapping
<1>3. ApisOf(ms) \subseteq Apis
  BY <1>2 DEF ApisOf
<1>4. ASSUME NEW l \in Links(ms) PROVE l[1] \in ApisOf(ms) /\ l[2] \in Projects
  <2>1. PICK m \in ms : l \in {m.api} \X Consumers(m.api, m.id)
    BY <1>4 DEF Links
  <2> QED BY <1>1, <1>2, <2>1 DEF ApisOf
<1>5. ASSUME NEW l \in ConfirmedLinks(ms) PROVE l[1] \in ApisOf(ms) /\ l[2] \in Projects
  <2>1. PICK m \in ms : l \in {m.api} \X Consumers(m.api, m.id /\ m.sdk)
    BY <1>5 DEF ConfirmedLinks
  <2>2. (m.id /\ m.sdk) \in BOOLEAN
    BY <1>2
  <2>3. Consumers(m.api, m.id /\ m.sdk) \subseteq Projects
    BY <1>1, <1>2, <2>2
  <2> QED BY <1>2, <2>1, <2>3 DEF ApisOf
<1>6. ASSUME NEW l \in LinksByName(ms) PROVE l[1] \in ApisOf(ms) /\ l[2] \in Projects
  <2>1. PICK m \in ms : l \in {m.api} \X ByName[m.api]
    BY <1>6 DEF LinksByName
  <2> QED BY <1>2, <2>1, IndexAssumption DEF ApisOf
<1>7. ASSUME NEW l \in NarrowedLinks(ms) PROVE l[1] \in ApisOf(ms) /\ l[2] \in Projects
  <2>1. PICK m \in ms : l \in {m.api} \X Narrow(m)
    BY <1>7 DEF NarrowedLinks
  <2>2. Narrow(m) \subseteq Projects
    BY <1>1, <1>2 DEF Narrow
  <2> QED BY <1>2, <2>1, <2>2 DEF ApisOf
<1> QED
  BY <1>3, <1>4, <1>5, <1>6, <1>7

\* The reasons that resolvers make, of given projects and of links to projects.
ReasonsOf(reasons, links) ==
  /\ DOMAIN reasons \subseteq Projects /\ reasons = [p \in DOMAIN reasons |-> reasons[p]]
  /\ \A a : (\E p \in DOMAIN reasons : a \in reasons[p].apis) <=> \E l \in links : l[1] = a

LEMMA ReasonsTyped ==
  ASSUME NEW given \in SUBSET Projects, NEW links, NEW strong, \A l \in links : l[2] \in Projects
  PROVE  /\ ReasonsOf(Reasons(given, links, strong), links)
         /\ DOMAIN Reasons(given, links, strong) = given \cup {l[2] : l \in links}
<1>1. PICK reasons : reasons = Reasons(given, links, strong)
  OBVIOUS
<1>2. /\ DOMAIN reasons = given \cup {l[2] : l \in links}
      /\ reasons = [p \in DOMAIN reasons |-> reasons[p]]
      /\ \A p \in DOMAIN reasons : reasons[p].apis = {l[1] : l \in {k \in links : k[2] = p}}
  BY <1>1 DEF Reasons
<1>3. ASSUME NEW l \in links PROVE l[2] \in DOMAIN reasons /\ l[1] \in reasons[l[2]].apis
  BY <1>2
<1>4. ASSUME NEW p \in DOMAIN reasons, NEW a \in reasons[p].apis PROVE \E l \in links : l[1] = a
  BY <1>2
<1>5. ReasonsOf(reasons, links)
  BY <1>2, <1>3, <1>4 DEF ReasonsOf
<1> QED
  BY <1>1, <1>2, <1>5

LEMMA GivenReasons ==
  ASSUME NEW given \in SUBSET Projects, NEW strong
  PROVE  ReasonsOf(Reasons(given, {}, strong), {}) /\ DOMAIN Reasons(given, {}, strong) = given
<1>1. DOMAIN Reasons(given, {}, strong) = given \cup {l[2] : l \in {}}
  BY ReasonsTyped
<1>2. ReasonsOf(Reasons(given, {}, strong), {})
  BY ReasonsTyped
<1> QED BY <1>1, <1>2

LEMMA NoReasonsFacts == ReasonsOf(NoReasons, {}) /\ DOMAIN NoReasons = {}
BY DEF NoReasons, Reasons, ReasonsOf

\* What an action must say of its file: the entry is right for it, and the lists of files
\* get at most this one.
RightFor(r, ms, links, reasons, level, broad) ==
  /\ ms \subseteq ApiMapping /\ level \in Range(Risks) /\ broad \in BOOLEAN
  /\ ReasonsOf(reasons, links) /\ \A l \in links : l[1] \in ApisOf(ms)
  /\ found' \subseteq {"api", "family", "broad"}
  /\ unresolved' = unresolved \/ unresolved' = unresolved \cup {N}
  /\ lowConfidence' = lowConfidence \/ lowConfidence' = lowConfidence \cup {N}
  /\ DOMAIN reasons = {} /\ ApisOf(ms) = {} =>
       N \in unresolved' \/ Resolver(File) \notin {"override", "naming", "mappings"}
  /\ N \in unresolved' =>
       ApisOf(ms) = {} /\ DOMAIN reasons = {} /\ N \notin lowConfidence' /\ (broad \/ r = "unresolved")
  /\ level = "low" /\ DOMAIN reasons = {} => broad \/ r = "skip"
  /\ r \in {"skip", "unresolved"} => DOMAIN reasons = {}
  /\ r = "bridge" => level # "low" /\ (File.bridge = "infrastructure" => DOMAIN reasons = {})
  /\ r = "unresolved" => level = "high"
  /\ Resolver(File) = "skip" => r = "skip"
  /\ Resolver(File) = "overtake" => broad

LEMMA FileKeeps ==
  ASSUME ReqInv, phase = "files", N <= NFiles,
         NEW r, NEW ms, NEW links, NEW level, NEW broad, NEW reasons,
         Record(r, ms, links, reasons, level, broad),
         RightFor(r, ms, links, reasons, level, broad)
  PROVE  ReqInv'
<1> USE DEF RightFor
<1>1. PICK n : n = N
  OBVIOUS
<1>2. PICK e : e = Entry(r, ms, reasons, level, broad)
  OBVIOUS
<1>3. /\ e.resolver = r /\ e.apis = ApisOf(ms) /\ e.projects = DOMAIN reasons /\ e.reasons = reasons
      /\ e.risk = level /\ e.broad = broad
  BY <1>2 DEF Entry
<1>4. /\ DOMAIN reasons \subseteq Projects /\ reasons = [p \in DOMAIN reasons |-> reasons[p]]
      /\ \A a : (\E p \in DOMAIN reasons : a \in reasons[p].apis) <=> \E l \in links : l[1] = a
  BY DEF ReasonsOf
<1>5. ApisOf(ms) \subseteq Apis
  BY LinkFacts
<1>6. risk' = Worse(risk, level) /\ phase' = phase /\ files' = files
  BY DEF Record
<1>7. Rank(level) <= Rank(risk')
  BY <1>6, WorseFacts DEF ReqInv, ReqTypes
<1>8. File = files[n]
  BY <1>1 DEF File
<1>9. EntryInv(e, n)'
  <2>1. (Resolver(files[n]))' = Resolver(File)
    BY <1>6, <1>8
  <2>2. (files[n])' = File
    BY <1>6, <1>8
  <2> QED
    BY <1>1, <1>3, <1>6, <1>7, <2>1, <2>2 DEF EntryInv
<1> QED
  BY <1>1, <1>2, <1>4, <1>5, <1>9, RecordKeeps


\* The file whose turn it is, and what its resolver gives for it.
LEMMA TurnFacts ==
  ASSUME ReqInv, NEW r, Turn(r)
  PROVE  /\ phase = "files" /\ N <= NFiles /\ Resolver(File) = r /\ File \in Profiles
         /\ N \notin unresolved /\ N \notin lowConfidence
         /\ found \subseteq {"api", "family", "broad"} /\ File.mappings \subseteq ApiMapping
         /\ File.importers \subseteq Projects
         /\ \A k \in DOMAIN File.matches : Given(k) \subseteq Projects
         /\ File.risk \in Range(Risks)
BY FileFacts, ProfileAssumption, RiskFacts DEF Turn, ReqInv, ReqTypes, Given

\* A file that is not of a category without impact is of category "source".
LEMMA GivenFacts ==
  ASSUME ReqInv, NEW r, Turn(r), r \in {"native", "override", "bridge", "cpp", "naming"}
  PROVE  /\ Given(r) \subseteq Projects
         /\ r \in {"override", "naming"} => Given(r) # {}
         /\ r \in {"bridge", "cpp"} => File.risk # "low"
<1>1. Knows(r, File) /\ File \in Profiles
  BY TurnFacts, ResolverKnows
<1>2. r \in DOMAIN File.matches /\ (r = "naming" => Given(r) # {})
  BY <1>1 DEF Knows, Given
<1> QED
  BY <1>1, <1>2, TurnFacts, ProfileAssumption DEF Given

LEMMA SkipKeeps == ReqInv /\ Skip => ReqInv'
<1> SUFFICES ASSUME ReqInv, Skip PROVE ReqInv'
  OBVIOUS
<1>1. Turn("skip") /\ Record("skip", {}, {}, NoReasons, "low", FALSE)
      /\ UNCHANGED <<unresolved, lowConfidence, found>>
  BY DEF Skip
<1>2. RightFor("skip", {}, {}, NoReasons, "low", FALSE)
  BY <1>1, TurnFacts, NoReasonsFacts, RiskFacts DEF RightFor
<1> QED
  BY <1>1, <1>2, TurnFacts, FileKeeps

LEMMA NativeKeeps == ReqInv /\ ResolveNative => ReqInv'
<1> SUFFICES ASSUME ReqInv, ResolveNative PROVE ReqInv'
  OBVIOUS
<1> DEFINE links == ConfirmedLinks(File.mappings)
           reasons == Reasons(Given("native"), links, {})
<1>1. Turn("native") /\ Record("native", File.mappings, links, reasons, "medium", FALSE)
      /\ found' = found \cup {"family"} \cup ApiIfAny(File.mappings)
      /\ UNCHANGED <<unresolved, lowConfidence>>
  BY DEF ResolveNative
<1>2. found' \subseteq {"api", "family", "broad"}
  BY <1>1, TurnFacts DEF ApiIfAny
<1>3. \A l \in links : l[1] \in ApisOf(File.mappings) /\ l[2] \in Projects
  BY <1>1, TurnFacts, LinkFacts
<1>4. ReasonsOf(reasons, links)
  <2>1. Given("native") \subseteq Projects
    BY <1>1, GivenFacts
  <2> QED BY <1>3, <2>1, ReasonsTyped
<1> HIDE DEF links, reasons
<1>8. RightFor("native", File.mappings, links, reasons, "medium", FALSE)
  BY <1>1, <1>2, <1>3, <1>4, TurnFacts, RiskFacts DEF RightFor
<1> QED
  BY <1>1, <1>8, TurnFacts, FileKeeps

LEMMA OverrideKeeps == ReqInv /\ Override => ReqInv'
<1> SUFFICES ASSUME ReqInv, Override PROVE ReqInv'
  OBVIOUS
<1> DEFINE reasons == Reasons(Given("override"), {}, Given("override"))
<1>1. Turn("override") /\ Record("override", {}, {}, reasons, "low", FALSE)
      /\ UNCHANGED <<unresolved, lowConfidence, found>>
  BY DEF Override
<1>2. ReasonsOf(reasons, {}) /\ DOMAIN reasons = Given("override") /\ Given("override") # {}
  BY <1>1, GivenFacts, GivenReasons
<1> HIDE DEF reasons
<1>8. RightFor("override", {}, {}, reasons, "low", FALSE)
  BY <1>1, <1>2, TurnFacts, RiskFacts DEF RightFor
<1> QED
  BY <1>1, <1>8, TurnFacts, FileKeeps

LEMMA IdlKeeps == ReqInv /\ ResolveIdl => ReqInv'
<1> SUFFICES ASSUME ReqInv, ResolveIdl PROVE ReqInv'
  OBVIOUS
<1> DEFINE links == LinksByName(IdlMappings)
           reasons == Reasons({}, links, {})
<1>1. Turn("idl") /\ Record("idl", IdlMappings, links, reasons, IdlRisk(links), FALSE)
      /\ found' = found \cup ApiIfAny(File.mappings)
                        \cup (IF IdlRisk(links) = "medium" THEN {"family"} ELSE {})
      /\ UNCHANGED <<unresolved, lowConfidence>>
  BY DEF ResolveIdl
<1>2. found' \subseteq {"api", "family", "broad"}
  BY <1>1, TurnFacts DEF ApiIfAny
<1>3. IdlMappings \subseteq ApiMapping
  BY <1>1, TurnFacts DEF IdlMappings, ApiMapping
<1>4. \A l \in links : l[1] \in ApisOf(IdlMappings) /\ l[2] \in Projects
  BY <1>3, LinkFacts
<1>5. ReasonsOf(reasons, links) /\ (links # {} => DOMAIN reasons # {})
  <2>1. \A l \in links : l[2] \in Projects
    BY <1>4
  <2>2. ReasonsOf(reasons, links) /\ DOMAIN reasons = {} \cup {l[2] : l \in links}
    <3> HIDE DEF links
    <3> QED BY <2>1, ReasonsTyped
  <2>3. links # {} => {l[2] : l \in links} # {}
    OBVIOUS
  <2> QED BY <2>2, <2>3
<1>6. IdlRisk(links) \in Range(Risks) /\ (IdlRisk(links) = "low" => DOMAIN reasons # {})
  BY <1>5, RiskFacts DEF IdlRisk
<1> HIDE DEF links, reasons
<1>8. RightFor("idl", IdlMappings, links, reasons, IdlRisk(links), FALSE)
  BY <1>1, <1>2, <1>3, <1>4, <1>5, <1>6, TurnFacts, RiskFacts DEF RightFor
<1> QED
  BY <1>1, <1>8, TurnFacts, FileKeeps

LEMMA BridgeKeeps == ReqInv /\ ResolveBridge => ReqInv'
<1> SUFFICES ASSUME ReqInv, ResolveBridge PROVE ReqInv'
  OBVIOUS
<1> DEFINE targets == IF File.bridge # "infrastructure" THEN Given("bridge") ELSE {}
           reasons == Reasons(targets, {}, {})
<1>1. Turn("bridge") /\ Record("bridge", {}, {}, reasons, File.risk, FALSE)
      /\ found' \in {found \cup {"family"}, found \ {"family"}}
      /\ UNCHANGED <<unresolved, lowConfidence>>
  BY DEF ResolveBridge
<1>2. found' \subseteq {"api", "family", "broad"}
  BY <1>1, TurnFacts
<1>3. ReasonsOf(reasons, {}) /\ DOMAIN reasons = targets
  BY <1>1, GivenFacts, GivenReasons
<1>4. File.bridge = "infrastructure" => DOMAIN reasons = {}
  BY <1>3
<1> HIDE DEF reasons
<1>8. RightFor("bridge", {}, {}, reasons, File.risk, FALSE)
  BY <1>1, <1>2, <1>3, <1>4, GivenFacts, TurnFacts, RiskFacts DEF RightFor
<1> QED
  BY <1>1, <1>8, TurnFacts, FileKeeps

LEMMA OvertakingKeeps == ReqInv /\ ResolveOvertaking => ReqInv'
<1> SUFFICES ASSUME ReqInv, ResolveOvertaking PROVE ReqInv'
  OBVIOUS
<1>1. Turn("overtake") /\ Record("broad", {}, {}, NoReasons, File.risk, TRUE)
      /\ found' = found \cup {"broad"} /\ UNCHANGED <<unresolved, lowConfidence>>
  BY DEF ResolveOvertaking
<1>2. found' \subseteq {"api", "family", "broad"}
  BY <1>1, TurnFacts
<1>8. RightFor("broad", {}, {}, NoReasons, File.risk, TRUE)
  BY <1>1, <1>2, TurnFacts, RiskFacts, NoReasonsFacts DEF RightFor
<1> QED
  BY <1>1, <1>8, TurnFacts, FileKeeps

LEMMA CppKeeps == ReqInv /\ ResolveCpp => ReqInv'
<1> SUFFICES ASSUME ReqInv, ResolveCpp PROVE ReqInv'
  OBVIOUS
<1> DEFINE links == Links(File.mappings)
           reasons == Reasons(Given("cpp"), links, {})
<1>1. Turn("cpp") /\ Record("cpp", File.mappings, links, reasons, File.risk, FALSE)
      /\ found' = found \cup {"family"} /\ UNCHANGED <<unresolved, lowConfidence>>
  BY DEF ResolveCpp
<1>2. found' \subseteq {"api", "family", "broad"}
  BY <1>1, TurnFacts
<1>3. \A l \in links : l[1] \in ApisOf(File.mappings) /\ l[2] \in Projects
  BY <1>1, TurnFacts, LinkFacts
<1>4. ReasonsOf(reasons, links) /\ File.risk # "low"
  <2>1. Given("cpp") \subseteq Projects
    BY <1>1, GivenFacts
  <2> QED BY <1>1, <1>3, <2>1, ReasonsTyped, GivenFacts
<1> HIDE DEF links, reasons
<1>8. RightFor("cpp", File.mappings, links, reasons, File.risk, FALSE)
  BY <1>1, <1>2, <1>3, <1>4, TurnFacts DEF RightFor
<1> QED
  BY <1>1, <1>8, TurnFacts, FileKeeps

LEMMA NamingKeeps == ReqInv /\ ResolveNaming => ReqInv'
<1> SUFFICES ASSUME ReqInv, ResolveNaming PROVE ReqInv'
  OBVIOUS
<1> DEFINE reasons == Reasons(Given("naming"), {}, {})
<1>1. Turn("naming") /\ Record("naming", {}, {}, reasons, "medium", FALSE)
      /\ found' = found \cup {"family"} /\ UNCHANGED <<unresolved, lowConfidence>>
  BY DEF ResolveNaming
<1>2. found' \subseteq {"api", "family", "broad"}
  BY <1>1, TurnFacts
<1>3. ReasonsOf(reasons, {}) /\ DOMAIN reasons # {}
  BY <1>1, GivenFacts, GivenReasons
<1> HIDE DEF reasons
<1>8. RightFor("naming", {}, {}, reasons, "medium", FALSE)
  BY <1>1, <1>2, <1>3, TurnFacts, RiskFacts DEF RightFor
<1> QED
  BY <1>1, <1>8, TurnFacts, FileKeeps

\* The mappings of a file that are left are mappings.
LEMMA MappedFacts ==
  ASSUME ReqInv, Turn("mappings")
  PROVE  /\ Mappings \subseteq ApiMapping
         /\ \A l \in NarrowedLinks(Mappings) : l[1] \in ApisOf(Mappings)
         /\ ReasonsOf(MappedReasons, NarrowedLinks(Mappings))
<1>1. Mappings \subseteq ApiMapping
  BY TurnFacts DEF Mappings, ApiMapping
<1>2. \A l \in NarrowedLinks(Mappings) : l[1] \in ApisOf(Mappings) /\ l[2] \in Projects
  BY <1>1, LinkFacts
<1>3. ReasonsOf(MappedReasons, NarrowedLinks(Mappings))
  BY <1>2, TurnFacts, ReasonsTyped DEF MappedReasons
<1> QED BY <1>1, <1>2, <1>3

LEMMA MappedKeeps == ReqInv /\ ResolveMapped => ReqInv'
<1> SUFFICES ASSUME ReqInv, ResolveMapped PROVE ReqInv'
  OBVIOUS
<1>1. /\ Turn("mappings") /\ ~ NothingFound
      /\ Record("mappings", Mappings, NarrowedLinks(Mappings), MappedReasons,
                ClassifyRisk(Mappings, DOMAIN MappedReasons), FALSE)
      /\ found' = found \cup ApiIfAny(Mappings)
                        \cup (IF DOMAIN MappedReasons = {} THEN {"family"} ELSE {})
      /\ UNCHANGED <<unresolved, lowConfidence>>
  BY DEF ResolveMapped
<1>2. found' \subseteq {"api", "family", "broad"}
  BY <1>1, TurnFacts DEF ApiIfAny
<1>3. ClassifyRisk(Mappings, DOMAIN MappedReasons) \in Range(Risks)
      /\ (ClassifyRisk(Mappings, DOMAIN MappedReasons) = "low" => DOMAIN MappedReasons # {})
  <2>1. CASE Mappings = {} \/ DOMAIN MappedReasons = {}
    BY <2>1, RiskFacts DEF ClassifyRisk
  <2>2. CASE ~ (Mappings = {} \/ DOMAIN MappedReasons = {})
    BY <2>2, RiskFacts DEF ClassifyRisk
  <2> QED BY <2>1, <2>2
<1>4. ~ (DOMAIN MappedReasons = {} /\ ApisOf(Mappings) = {})
  BY <1>1 DEF NothingFound, ApisOf
<1>8. RightFor("mappings", Mappings, NarrowedLinks(Mappings), MappedReasons,
               ClassifyRisk(Mappings, DOMAIN MappedReasons), FALSE)
  BY <1>1, <1>2, <1>3, <1>4, TurnFacts, MappedFacts DEF RightFor
<1> QED
  BY <1>1, <1>8, TurnFacts, FileKeeps

\* The first targets of an area are not none.
LEMMA AreaFacts ==
  ASSUME NEW S \in SUBSET Projects, S # {}
  PROVE  {p \in S : Cardinality({q \in S : q < p}) < AreaCap} # {}
<1>1. S \subseteq Nat /\ Min(S) \in S /\ \A q \in S : Min(S) <= q
  BY LeastNumber, CapAssumption
<1>2. {q \in S : q < Min(S)} = {}
  <2>1. ASSUME NEW q \in S PROVE ~ (q < Min(S))
    <3>1. q \in Nat /\ Min(S) \in Nat /\ Min(S) <= q
      BY <1>1
    <3> QED BY <3>1
  <2> QED BY <2>1
<1>3. Cardinality({q \in S : q < Min(S)}) < AreaCap
  BY <1>2, FS_EmptySet, CapAssumption
<1> QED BY <1>1, <1>3

LEMMA FallBackKeeps == ASSUME ReqInv, NEW r, FallBackTo(r) PROVE ReqInv'
<1> DEFINE first == {p \in Given(r) : Cardinality({q \in Given(r) : q < p}) < AreaCap}
           targets == IF r = "area" THEN first ELSE Given(r)
           reasons == Reasons(targets, {}, {})
<1>1. /\ Turn("mappings") /\ r = (IF HasArea THEN "area" ELSE "tokens") /\ (HasArea \/ HasTokens)
      /\ Record(r, {}, {}, reasons, "low", FALSE)
      /\ lowConfidence' = lowConfidence \cup {N} /\ UNCHANGED <<unresolved, found>>
  BY DEF FallBackTo
<1>2. Given(r) \subseteq Projects /\ Given(r) # {}
  BY <1>1, TurnFacts DEF HasArea, HasTokens
<1>3. targets \subseteq Projects /\ targets # {}
  <2>1. first # {}
    BY <1>2, AreaFacts
  <2> QED BY <1>2, <2>1
<1>4. ReasonsOf(reasons, {}) /\ DOMAIN reasons # {}
  BY <1>3, GivenReasons
<1>5. r \in {"area", "tokens"} /\ found' \subseteq {"api", "family", "broad"}
  BY <1>1, TurnFacts
<1> HIDE DEF reasons
<1>8. RightFor(r, {}, {}, reasons, "low", FALSE)
  BY <1>1, <1>4, <1>5, TurnFacts, RiskFacts DEF RightFor
<1> QED
  BY <1>1, <1>8, TurnFacts, FileKeeps

LEMMA UnresolvedKeeps == ReqInv /\ LeaveUnresolved => ReqInv'
<1> SUFFICES ASSUME ReqInv, LeaveUnresolved PROVE ReqInv'
  OBVIOUS
<1>1. Turn("mappings") /\ unresolved' = unresolved \cup {N} /\ UNCHANGED lowConfidence
      /\ \/ Record("broad", {}, {}, NoReasons, File.risk, TRUE) /\ found' = found \cup {"broad"}
         \/ Record("unresolved", {}, {}, NoReasons, "high", FALSE) /\ UNCHANGED found
  BY DEF LeaveUnresolved
<1>2. found' \subseteq {"api", "family", "broad"}
  BY <1>1, TurnFacts
<1>3. ApisOf({}) = {}
  BY DEF ApisOf
<1>4. CASE Record("broad", {}, {}, NoReasons, File.risk, TRUE)
  <2>1. RightFor("broad", {}, {}, NoReasons, File.risk, TRUE)
    BY <1>1, <1>2, <1>3, TurnFacts, NoReasonsFacts DEF RightFor
  <2> QED BY <1>1, <1>4, <2>1, TurnFacts, FileKeeps
<1>5. CASE Record("unresolved", {}, {}, NoReasons, "high", FALSE)
  <2>1. RightFor("unresolved", {}, {}, NoReasons, "high", FALSE)
    BY <1>1, <1>2, <1>3, TurnFacts, NoReasonsFacts, RiskFacts DEF RightFor
  <2> QED BY <1>1, <1>5, <2>1, TurnFacts, FileKeeps
<1> QED
  BY <1>1, <1>4, <1>5

\* After the files.
LEMMA EndOfFilesKeeps == ReqInv /\ EndOfFiles => ReqInv'
<1> SUFFICES ASSUME ReqInv, EndOfFiles PROVE ReqInv'
  OBVIOUS
<1>1. /\ phase = "files" /\ N > NFiles /\ phase' = "enrich"
      /\ UNCHANGED <<files, entries, risk, affected, covered, unresolved, lowConfidence, found, gap,
                     policy, source, extra>>
  BY DEF EndOfFiles, result
<1>2. ReqTypes'
  <2>1. entries \in Seq(Range(entries)) /\ Len(entries) <= NFiles /\ Len(entries) + 1 > NFiles
    BY <1>1 DEF ReqInv, ReqTypes, N
  <2>2. Len(entries) = NFiles
    BY <2>1, CapAssumption
  <2> QED
    BY <1>1, <2>2 DEF ReqInv, ReqTypes
<1>3. (\A i \in DOMAIN entries : EntryInv(entries[i], i))'
  BY <1>1 DEF ReqInv, EntryInv
<1>4. TotalsInv'
  BY <1>1 DEF ReqInv, TotalsInv
<1>5. RankInv'
  BY <1>1 DEF RankInv
<1> QED
  BY <1>2, <1>3, <1>4, <1>5 DEF ReqInv

\* The policy is "ok" only if no file is unresolved and the risk is low.
LEMMA PolicyFacts ==
  ASSUME ReqTypes, phase = "enrich"
  PROVE  /\ CiPolicy \in {"ok", "warn", "require_broader_suite", "manual_review"}
         /\ CiPolicy = "ok" => risk = "low" /\ unresolved = {}
<1>1. CiPolicy \in {"ok", "warn", "require_broader_suite", "manual_review"}
  BY DEF CiPolicy
<1>2. ASSUME CiPolicy = "ok" PROVE risk = "low" /\ ~ (Cardinality(unresolved) > 0)
  <2>1. risk \notin {"critical", "high", "medium"} /\ ~ (Cardinality(unresolved) > 0)
    BY <1>2 DEF CiPolicy
  <2> QED BY <2>1, RiskFacts DEF ReqTypes
<1>3. ~ (Cardinality(unresolved) > 0) => unresolved = {}
  <2>1. unresolved \subseteq 1..NFiles
    <3>1. entries \in Seq(Range(entries)) /\ Len(entries) = NFiles /\ unresolved \subseteq DOMAIN entries
      BY DEF ReqTypes
    <3> QED BY <3>1
  <2>2. IsFiniteSet(unresolved)
    <3>1. 1 \in Int /\ NFiles \in Int
      BY CapAssumption
    <3>2. IsFiniteSet(1..NFiles)
      BY <3>1, FS_Interval
    <3> QED BY <2>1, <3>2, FS_Subset
  <2> QED BY <2>2, FS_EmptySet, FS_CardinalityType
<1> QED
  BY <1>1, <1>2, <1>3

\* What coverage and coupling make of an entry.
Enriched(e, i) ==
  LET new == files[i].covers \ e.projects
  IN  [e EXCEPT !.projects = @ \cup new,
                !.reasons = [p \in e.projects \cup new |->
                               IF p \in new THEN [apis |-> {}, strong |-> FALSE] ELSE e.reasons[p]]]

LEMMA EnrichedFacts ==
  ASSUME ReqInv, NEW i \in DOMAIN entries, NEW e, NEW f, e = entries[i], f = Enriched(e, i), phase # "done"
  PROVE  /\ IsEntry(f)
         /\ f.resolver = e.resolver /\ f.apis = e.apis /\ f.canonical = e.canonical /\ f.risk = e.risk
         /\ f.broad = e.broad /\ f.bridge = e.bridge
         /\ DOMAIN e.reasons = e.projects /\ f.projects = e.projects \cup files[i].covers
         /\ DOMAIN f.reasons = f.projects
         /\ \A p \in DOMAIN e.reasons : f.reasons[p] = e.reasons[p]
         /\ \A p \in DOMAIN f.reasons : p \notin DOMAIN e.reasons => f.reasons[p].apis = {}
<1> DEFINE new == files[i].covers \ e.projects
           reasons == [p \in e.projects \cup new |->
                        IF p \in new THEN [apis |-> {}, strong |-> FALSE] ELSE e.reasons[p]]
<1>1. IsEntry(e) /\ DOMAIN e.reasons = e.projects
  BY DEF ReqInv, ReqTypes, EntryInv
<1>2. i \in 1..NFiles /\ files[i].covers \subseteq Projects
  <2>1. entries \in Seq(Range(entries)) /\ Len(entries) <= NFiles /\ files \in [1..NFiles -> Profiles]
    BY DEF ReqInv, ReqTypes
  <2>2. i \in 1..NFiles
    BY <2>1, CapAssumption
  <2> QED BY <2>1, <2>2, ProfileAssumption
<1>3. f = [[e EXCEPT !.projects = e.projects \cup new] EXCEPT !.reasons = reasons]
  BY DEF Enriched
<1>4. /\ DOMAIN f = EntryFields /\ f = [x \in EntryFields |-> f[x]]
      /\ f.resolver = e.resolver /\ f.apis = e.apis /\ f.canonical = e.canonical /\ f.risk = e.risk
      /\ f.broad = e.broad /\ f.bridge = e.bridge /\ f.projects = e.projects \cup new /\ f.reasons = reasons
  <2> HIDE DEF new, reasons
  <2> QED BY <1>1, <1>3 DEF IsEntry, EntryFields
<1>5. /\ DOMAIN reasons = e.projects \cup new /\ reasons = [p \in DOMAIN reasons |-> reasons[p]]
      /\ \A p \in DOMAIN reasons : reasons[p] = IF p \in new THEN [apis |-> {}, strong |-> FALSE] ELSE e.reasons[p]
  OBVIOUS
<1>6. e.projects \cup new = e.projects \cup files[i].covers
  OBVIOUS
<1>7. \A p \in DOMAIN e.reasons : f.reasons[p] = e.reasons[p]
  BY <1>1, <1>4, <1>5
<1>8. \A p \in DOMAIN f.reasons : p \notin DOMAIN e.reasons => f.reasons[p].apis = {}
  BY <1>1, <1>4, <1>5
<1>9. IsEntry(f)
  <2>1. e.projects \subseteq Projects
    BY <1>1 DEF IsEntry
  <2>2. DOMAIN f.reasons \subseteq Projects /\ f.projects \subseteq DOMAIN f.reasons
    BY <1>2, <1>4, <1>5, <2>1
  <2>3. f.reasons = [p \in DOMAIN f.reasons |-> f.reasons[p]]
    BY <1>4, <1>5
  <2> HIDE DEF new, reasons
  <2> QED BY <1>1, <1>4, <2>2, <2>3 DEF IsEntry
<1> HIDE DEF reasons
<1> QED
  BY <1>1, <1>4, <1>5, <1>6, <1>7, <1>8, <1>9

LEMMA EnrichKeeps == ReqInv /\ Enrich => ReqInv'
<1> SUFFICES ASSUME ReqInv, Enrich PROVE ReqInv'
  OBVIOUS
<1>1. /\ phase = "enrich" /\ phase' = "fallback" /\ gap' = affected \ covered
      /\ policy' = CiPolicy /\ source' = SemanticSource
      /\ UNCHANGED <<files, risk, affected, covered, unresolved, lowConfidence, found, extra>>
  BY DEF Enrich
<1>2. entries' = [i \in DOMAIN entries |-> Enriched(entries[i], i)]
  BY DEF Enrich, Enriched
<1>3. entries \in Seq(Range(entries)) /\ Len(entries) = NFiles /\ DOMAIN entries = 1..NFiles
  BY <1>1 DEF ReqInv, ReqTypes
<1>4. DOMAIN entries' = 1..NFiles
  BY <1>2, <1>3
<1>5. entries' \in Seq(Range(entries')) /\ Len(entries') = NFiles
  <2>1. entries' = [i \in 1..NFiles |-> entries'[i]]
    BY <1>2, <1>3
  <2>2. entries' \in Seq(Range(entries'))
    BY <2>1, CapAssumption, RangeOfAnySeq
  <2> QED BY <2>2, <1>4, CapAssumption, LenProperties
<1>6. ASSUME NEW i \in DOMAIN entries PROVE entries'[i] = Enriched(entries[i], i)
  BY <1>2
<1>7. ReqTypes'
  <2>1. policy' \in {"none", "ok", "warn", "require_broader_suite", "manual_review"}
    BY <1>1, PolicyFacts DEF ReqInv
  <2>2. source' \in {"none", "api", "family", "broad", "unknown"}
    BY <1>1 DEF SemanticSource
  <2>3. (\A i \in DOMAIN entries : IsEntry(entries[i]))'
    <3> SUFFICES ASSUME NEW i \in DOMAIN entries PROVE IsEntry(entries'[i])
      BY <1>3, <1>4
    <3> QED BY <1>1, <1>6, EnrichedFacts
  <2>4. unresolved' \subseteq DOMAIN entries' /\ lowConfidence' \subseteq DOMAIN entries'
    BY <1>1, <1>3, <1>4 DEF ReqInv, ReqTypes
  <2>5. phase' = "fallback" /\ files' \in [1..NFiles -> Profiles] /\ risk' \in Range(Risks)
        /\ found' \subseteq {"api", "family", "broad"} /\ extra' \subseteq Projects
    BY <1>1 DEF ReqInv, ReqTypes
  <2>6. Len(entries') <= NFiles
    BY <1>5, CapAssumption
  <2> QED
    BY <1>5, <2>1, <2>2, <2>3, <2>4, <2>5, <2>6 DEF ReqTypes
<1>8. (\A i \in DOMAIN entries : EntryInv(entries[i], i))'
  <2> SUFFICES ASSUME NEW i \in DOMAIN entries PROVE EntryInv(entries[i], i)'
    BY <1>3, <1>4
  <2>1. PICK e, f : e = entries[i] /\ f = entries'[i]
    OBVIOUS
  <2>2. f = Enriched(e, i) /\ EntryInv(e, i)
    BY <1>6, <2>1 DEF ReqInv
  <2>3. /\ f.resolver = e.resolver /\ f.apis = e.apis /\ f.risk = e.risk /\ f.broad = e.broad
        /\ DOMAIN e.reasons = e.projects /\ DOMAIN f.reasons = e.projects \cup files[i].covers
        /\ DOMAIN f.reasons = f.projects
    BY <1>1, <2>1, <2>2, EnrichedFacts
  <2>4. EntryInv(f, i)'
    BY <1>1, <2>2, <2>3 DEF EntryInv
  <2> QED BY <2>1, <2>4
<1>9. TotalsInv'
  <2>1. ASSUME NEW i \in DOMAIN entries PROVE entries'[i].apis = entries[i].apis
    BY <1>1, <1>6, EnrichedFacts
  <2>2. affected' = UNION {entries'[i].apis : i \in DOMAIN entries'}
    BY <1>1, <1>3, <1>4, <2>1 DEF ReqInv, TotalsInv
  <2>3. ASSUME NEW i \in DOMAIN entries, NEW a
        PROVE  (\E p \in DOMAIN entries'[i].reasons : a \in entries'[i].reasons[p].apis)
               <=> \E p \in DOMAIN entries[i].reasons : a \in entries[i].reasons[p].apis
    <3>1. PICK e, f : e = entries[i] /\ f = entries'[i]
      OBVIOUS
    <3>2. /\ DOMAIN e.reasons \subseteq DOMAIN f.reasons
          /\ \A p \in DOMAIN e.reasons : f.reasons[p] = e.reasons[p]
          /\ \A p \in DOMAIN f.reasons : p \notin DOMAIN e.reasons => f.reasons[p].apis = {}
      BY <1>1, <1>6, <3>1, EnrichedFacts
    <3>3. (\E p \in DOMAIN f.reasons : a \in f.reasons[p].apis)
          <=> \E p \in DOMAIN e.reasons : a \in e.reasons[p].apis
      BY <3>2
    <3> QED BY <3>1, <3>3
  <2>4. \A a : a \in covered' <=>
          \E i \in DOMAIN entries' : \E p \in DOMAIN entries'[i].reasons : a \in entries'[i].reasons[p].apis
    BY <1>1, <1>3, <1>4, <2>3 DEF ReqInv, TotalsInv
  <2>5. covered' \subseteq affected' /\ gap' = affected' \ covered' /\ phase' = "fallback"
    BY <1>1 DEF ReqInv, TotalsInv
  <2>6. policy' = "ok" => risk' = "low" /\ unresolved' = {}
    BY <1>1, PolicyFacts DEF ReqInv
  <2> QED
    BY <2>2, <2>4, <2>5, <2>6 DEF TotalsInv
<1>10. RankInv'
  BY <1>1 DEF RankInv
<1> QED
  BY <1>7, <1>8, <1>9, <1>10 DEF ReqInv

\* The fallback adds what no entry has.
LEMMA FallbackKeeps == ReqInv /\ ApplyFallback => ReqInv'
<1> SUFFICES ASSUME ReqInv, ApplyFallback PROVE ReqInv'
  OBVIOUS
<1>1. /\ phase = "fallback" /\ phase' = "rank"
      /\ extra' = {} \/ extra' = FamilyCoverage \ Selected(entries)
      /\ UNCHANGED <<files, entries, risk, affected, covered, unresolved, lowConfidence, found, gap,
                     policy, source>>
  BY DEF ApplyFallback, result
<1>2. entries \in Seq(Range(entries)) /\ DOMAIN entries = 1..Len(entries)
      /\ (\A i \in DOMAIN entries : IsEntry(entries[i]) /\ EntryInv(entries[i], i))
  BY DEF ReqInv, ReqTypes
<1>3. FamilyCoverage \subseteq Projects
  <2>1. \A i \in DOMAIN entries : entries[i].projects \subseteq Projects
    BY <1>2 DEF IsEntry
  <2>2. ASSUME NEW x \in FamilyCoverage
        PROVE  x \in BroadTargets \/ \E i \in DOMAIN entries : \E p \in entries[i].projects : x \in Siblings[p]
    BY <2>2 DEF FamilyCoverage
  <2>3. ASSUME NEW i \in DOMAIN entries, NEW p \in entries[i].projects PROVE Siblings[p] \subseteq Projects
    BY <2>1, IndexAssumption
  <2> QED BY <2>2, <2>3, IndexAssumption
<1>4. ReqTypes'
  BY <1>1, <1>3 DEF ReqInv, ReqTypes
<1>5. (\A i \in DOMAIN entries : EntryInv(entries[i], i))'
  BY <1>1 DEF ReqInv, EntryInv
<1>6. TotalsInv'
  BY <1>1 DEF ReqInv, TotalsInv
<1>7. RankInv'
  <2>1. Selected(BeforeRanking)' = Selected(entries)
    <3>1. BeforeRanking' = BeforeRanking /\ DOMAIN BeforeRanking = DOMAIN entries
      BY <1>1 DEF BeforeRanking
    <3>2. ASSUME NEW i \in DOMAIN entries PROVE BeforeRanking[i].projects = entries[i].projects
      BY <1>1, <1>2, <3>2 DEF BeforeRanking, IsEntry, EntryInv, EntryFields
    <3>3. Selected(BeforeRanking) = Selected(entries)
      BY <3>1, <3>2 DEF Selected
    <3> QED BY <3>1, <3>3
  <2>2. extra' \cap Selected(entries) = {}
    BY <1>1
  <2> QED BY <1>1, <2>1, <2>2 DEF RankInv
<1> QED
  BY <1>4, <1>5, <1>6, <1>7 DEF ReqInv

\* The ranking takes projects out of the entries, and leaves the rest as it is.
LEMMA RankTargetsKeeps == ReqInv /\ RankTargets => ReqInv'
<1> SUFFICES ASSUME ReqInv, RankTargets PROVE ReqInv'
  OBVIOUS
<1> DEFINE keeps == Kept(entries)
<1>1. /\ phase = "rank" /\ phase' = "done"
      /\ entries' = [i \in DOMAIN entries |-> [entries[i] EXCEPT !.projects = @ \cap keeps]]
      /\ UNCHANGED <<files, risk, affected, covered, unresolved, lowConfidence, found, gap, policy,
                     source, extra>>
  BY DEF RankTargets, result, ApplyRanking
<1> HIDE DEF keeps
<1>2. /\ entries \in Seq(Range(entries)) /\ Len(entries) = NFiles /\ DOMAIN entries = 1..NFiles
      /\ DOMAIN entries' = 1..NFiles
      /\ \A i \in DOMAIN entries : IsEntry(entries[i]) /\ EntryInv(entries[i], i)
  BY <1>1 DEF ReqInv, ReqTypes
<1>3. entries' \in Seq(Range(entries')) /\ Len(entries') = NFiles
  <2>1. entries' = [i \in 1..NFiles |-> entries'[i]]
    BY <1>1, <1>2
  <2>2. entries' \in Seq(Range(entries'))
    BY <2>1, CapAssumption, RangeOfAnySeq
  <2> QED BY <2>2, <1>2, CapAssumption, LenProperties
<1>4. ASSUME NEW i \in DOMAIN entries, NEW e, NEW f, e = entries[i], f = entries'[i]
      PROVE  /\ IsEntry(f) /\ e.projects = DOMAIN e.reasons
             /\ f.resolver = e.resolver /\ f.apis = e.apis /\ f.canonical = e.canonical
             /\ f.risk = e.risk /\ f.broad = e.broad /\ f.bridge = e.bridge
             /\ f.projects = e.projects \cap keeps /\ f.reasons = e.reasons
  <2>1. IsEntry(e) /\ e.projects = DOMAIN e.reasons
    BY <1>1, <1>2, <1>4 DEF EntryInv
  <2>2. f = [e EXCEPT !.projects = e.projects \cap keeps]
    BY <1>1, <1>4
  <2>3. /\ DOMAIN f = EntryFields /\ f = [x \in EntryFields |-> f[x]]
        /\ f.resolver = e.resolver /\ f.apis = e.apis /\ f.canonical = e.canonical /\ f.risk = e.risk
        /\ f.broad = e.broad /\ f.bridge = e.bridge /\ f.projects = e.projects \cap keeps
        /\ f.reasons = e.reasons
    BY <2>1, <2>2 DEF IsEntry, EntryFields
  <2>4. f.projects \subseteq DOMAIN f.reasons
    BY <2>1, <2>3 DEF IsEntry
  <2> QED BY <2>1, <2>3, <2>4 DEF IsEntry
<1>5. ReqTypes'
  <2>1. (\A i \in DOMAIN entries : IsEntry(entries[i]))'
    BY <1>2, <1>4
  <2>2. Len(entries') <= NFiles
    BY <1>3, CapAssumption
  <2> QED
    BY <1>1, <1>2, <1>3, <2>1, <2>2 DEF ReqInv, ReqTypes
<1>6. (\A i \in DOMAIN entries : EntryInv(entries[i], i))'
  <2> SUFFICES ASSUME NEW i \in DOMAIN entries PROVE EntryInv(entries[i], i)'
    BY <1>2
  <2>1. PICK e, f : e = entries[i] /\ f = entries'[i]
    OBVIOUS
  <2>2. EntryInv(e, i)
    BY <1>2, <2>1
  <2>3. /\ f.resolver = e.resolver /\ f.apis = e.apis /\ f.risk = e.risk /\ f.broad = e.broad
        /\ f.reasons = e.reasons
    BY <1>4, <2>1
  <2>4. EntryInv(f, i)'
    BY <1>1, <2>2, <2>3 DEF EntryInv
  <2> QED BY <2>1, <2>4
<1>7. TotalsInv'
  <2>1. \A i \in DOMAIN entries : entries'[i].apis = entries[i].apis /\ entries'[i].reasons = entries[i].reasons
    BY <1>4
  <2>2. affected' = UNION {entries'[i].apis : i \in DOMAIN entries'}
    BY <1>1, <1>2, <2>1 DEF ReqInv, TotalsInv
  <2>3. \A a : a \in covered' <=>
          \E i \in DOMAIN entries' : \E p \in DOMAIN entries'[i].reasons : a \in entries'[i].reasons[p].apis
    BY <1>1, <1>2, <2>1 DEF ReqInv, TotalsInv
  <2> QED
    BY <1>1, <2>2, <2>3 DEF ReqInv, TotalsInv
<1>8. RankInv'
  <2>1. ASSUME NEW i \in DOMAIN entries PROVE BeforeRanking[i] = entries[i] /\ BeforeRanking'[i] = entries[i]
    <3>1. PICK e, f : e = entries[i] /\ f = entries'[i]
      OBVIOUS
    <3>2. /\ BeforeRanking[i] = [e EXCEPT !.projects = DOMAIN e.reasons]
          /\ BeforeRanking'[i] = [f EXCEPT !.projects = DOMAIN f.reasons]
      BY <1>2, <3>1 DEF BeforeRanking
    <3>3. /\ IsEntry(e) /\ IsEntry(f) /\ e.projects = DOMAIN e.reasons /\ f.reasons = e.reasons
          /\ f.resolver = e.resolver /\ f.apis = e.apis /\ f.canonical = e.canonical
          /\ f.risk = e.risk /\ f.broad = e.broad /\ f.bridge = e.bridge
      BY <1>2, <1>4, <3>1
    <3>4. [e EXCEPT !.projects = DOMAIN e.reasons] = e
      BY <3>3 DEF IsEntry, EntryFields
    <3>5. [f EXCEPT !.projects = DOMAIN f.reasons] = e
      BY <3>3 DEF IsEntry, EntryFields
    <3> QED BY <3>1, <3>2, <3>4, <3>5
  <2>2. BeforeRanking' = entries /\ BeforeRanking = entries
    <3>1. BeforeRanking = [i \in DOMAIN entries |-> BeforeRanking[i]]
          /\ BeforeRanking' = [i \in DOMAIN entries |-> BeforeRanking'[i]]
      BY <1>2 DEF BeforeRanking
    <3>2. entries = [i \in DOMAIN entries |-> entries[i]]
      BY <1>2
    <3> QED BY <2>1, <3>1, <3>2
  <2>3. ASSUME NEW i \in DOMAIN entries'
        PROVE  entries'[i].projects = DOMAIN entries'[i].reasons \cap Kept(BeforeRanking')
    BY <1>2, <1>4, <2>2 DEF keeps
  <2>4. extra' \cap Selected(BeforeRanking') = {}
    BY <1>1, <2>2 DEF ReqInv, RankInv
  <2>5. Kept(BeforeRanking)' = Kept(BeforeRanking') /\ Selected(BeforeRanking)' = Selected(BeforeRanking')
    BY DEF Kept, Selected, KeptOfBucket, OfBucket, BestBucket, Precedes, Score, For, BucketOf, Cap,
           ClassifyBucket, HasCanonical, HasDirect, HasSdk
  <2> QED BY <1>1, <2>3, <2>4, <2>5 DEF RankInv
<1> QED
  BY <1>5, <1>6, <1>7, <1>8 DEF ReqInv

\* The first state, and the ways that leave the request alone.
LEMMA ReqInitial == SelectingInit => ReqInv
<1> SUFFICES ASSUME SelectingInit PROVE ReqInv
  OBVIOUS
<1>1. Init
  BY DEF SelectingInit, NoRequest
<1>2. /\ files \in [1..NFiles -> Profiles] /\ phase = "files" /\ entries = <<>> /\ risk = "low"
      /\ affected = {} /\ covered = {} /\ unresolved = {} /\ lowConfidence = {} /\ found = {}
      /\ gap = {} /\ policy = "none" /\ source = "none" /\ extra = {}
  BY <1>1 DEF Init
<1>3. DOMAIN entries = {} /\ Len(entries) = 0 /\ entries \in Seq(Range(entries))
  <2>1. <<>> \in Seq(Range(<<>>)) /\ Len(<<>>) = 0 /\ DOMAIN <<>> = {}
    OBVIOUS
  <2> QED BY <1>2, <2>1
<1>4. ReqTypes
  BY <1>2, <1>3, RiskFacts, CapAssumption DEF ReqTypes
<1>5. TotalsInv
  BY <1>2, <1>3 DEF TotalsInv
<1>6. RankInv
  BY <1>2 DEF RankInv
<1> QED
  BY <1>3, <1>4, <1>5, <1>6 DEF ReqInv

LEMMA RequestKeeps == ReqInv /\ Next => ReqInv'
BY SkipKeeps, NativeKeeps, OverrideKeeps, IdlKeeps, BridgeKeeps, OvertakingKeeps, CppKeeps, NamingKeeps,
   MappedKeeps, FallBackKeeps, UnresolvedKeeps, EndOfFilesKeeps, EnrichKeeps, FallbackKeeps,
   RankTargetsKeeps DEF Next

LEMMA OnlyRequests == ReqInv /\ [SelectingNext]_selectingVars => ReqInv'
<1> SUFFICES ASSUME ReqInv, [SelectingNext]_selectingVars PROVE ReqInv'
  OBVIOUS
<1>1. CASE Request
  BY <1>1, RequestKeeps DEF Request
<1>2. CASE UNCHANGED vars
  <2>1. UNCHANGED <<files, phase, entries, risk, affected, covered, unresolved, lowConfidence, found,
                    gap, policy, source, extra>>
    BY <1>2 DEF vars, result
  <2>2. BeforeRanking' = BeforeRanking /\ DOMAIN entries' = DOMAIN entries
    BY <2>1 DEF BeforeRanking
  <2>3. RankInv'
    BY <2>1, <2>2 DEF ReqInv, RankInv
  <2>4. ReqTypes' /\ TotalsInv'
    BY <2>1 DEF ReqInv, ReqTypes, TotalsInv
  <2>5. (\A i \in DOMAIN entries : EntryInv(entries[i], i))'
    BY <2>1 DEF ReqInv, EntryInv
  <2> QED BY <2>3, <2>4, <2>5 DEF ReqInv
<1>3. SelectingNext => Request \/ UNCHANGED vars
  BY DEF SelectingNext, Make, AskMade, Ask, Answer, Universal, Report, Topics, Indexes, Look
<1>4. UNCHANGED selectingVars => UNCHANGED vars
  BY DEF selectingVars
<1> QED
  BY <1>1, <1>2, <1>3, <1>4

\* What holds of every request, of any length and with any indexes: its entries agree with
\* its files and with its totals.
THEOREM RequestInvariance == SelectingSpec => []ReqInv
<1>1. SelectingInit => ReqInv
  BY ReqInitial
<1>2. ReqInv /\ [SelectingNext]_selectingVars => ReqInv'
  BY OnlyRequests
<1> QED
  BY <1>1, <1>2, PTL DEF SelectingSpec

\* What a request says of its files, of its gap and of its verdict.
LEMMA AccountFacts == ReqInv => EveryFileIsAccounted
<1> SUFFICES ASSUME ReqInv PROVE EveryFileIsAccounted
  OBVIOUS
<1>1. /\ entries \in Seq(Range(entries)) /\ (phase # "files" => Len(entries) = NFiles)
      /\ (\A i \in DOMAIN entries : IsEntry(entries[i]) /\ EntryInv(entries[i], i))
  BY DEF ReqInv, ReqTypes
<1>2. \A i \in DOMAIN entries : /\ entries[i].apis \subseteq Apis /\ entries[i].projects \subseteq Projects
                               /\ entries[i].risk \in Range(Risks)
  BY <1>1 DEF IsEntry
<1>3. affected \subseteq Apis
  BY <1>2 DEF ReqInv, TotalsInv
<1>4. covered \subseteq affected /\ gap \subseteq affected
  BY DEF ReqInv, ReqTypes, TotalsInv
<1>5. TypeOK
  BY <1>2, <1>3, <1>4 DEF ReqInv, ReqTypes, TypeOK
<1>6. ASSUME NEW i \in DOMAIN entries, NEW e, e = entries[i]
      PROVE  /\ phase # "done" => DOMAIN e.reasons = e.projects
             /\ DOMAIN e.reasons = {} /\ e.apis = {} =>
                  i \in unresolved \/ Resolver(files[i]) \notin {"override", "naming", "mappings"}
             /\ i \in unresolved => e.apis = {} /\ e.projects \subseteq files[i].covers /\ i \notin lowConfidence
  <2>1. IsEntry(e) /\ EntryInv(e, i)
    BY <1>1, <1>6
  <2>2. e.projects \subseteq DOMAIN e.reasons
    BY <2>1 DEF IsEntry
  <2> QED
    BY <2>1, <2>2 DEF EntryInv
<1> QED
  BY <1>1, <1>5, <1>6 DEF EveryFileIsAccounted

LEMMA GapFacts == ReqInv => GapIsComplete
<1> SUFFICES ASSUME ReqInv, phase \in {"fallback", "rank", "done"}, NEW a \in Apis
             PROVE  a \in gap <=> /\ \E i \in DOMAIN entries : a \in entries[i].apis
                                  /\ ~ \E i \in DOMAIN entries, p \in Projects :
                                         p \in DOMAIN entries[i].reasons /\ a \in entries[i].reasons[p].apis
  BY DEF GapIsComplete
<1>1. gap = affected \ covered /\ (a \in affected <=> \E i \in DOMAIN entries : a \in entries[i].apis)
      /\ (a \in covered <=> \E i \in DOMAIN entries : \E p \in DOMAIN entries[i].reasons :
                              a \in entries[i].reasons[p].apis)
  BY DEF ReqInv, TotalsInv
<1>2. \A i \in DOMAIN entries : DOMAIN entries[i].reasons \subseteq Projects
  BY DEF ReqInv, ReqTypes, IsEntry
<1> QED
  BY <1>1, <1>2

-------------------------------------------------------------------------------
\* The ranking of the targets.

\* The entries that the ranking is given.
LEMMA RankedEntries ==
  ASSUME ReqInv
  PROVE  /\ DOMAIN BeforeRanking = DOMAIN entries /\ DOMAIN entries = 1..Len(entries)
         /\ Len(entries) \in Nat
         /\ \A i \in DOMAIN entries :
              /\ BeforeRanking[i].projects = DOMAIN entries[i].reasons
              /\ BeforeRanking[i].reasons = entries[i].reasons
              /\ BeforeRanking[i].canonical = entries[i].canonical
              /\ BeforeRanking[i].bridge = entries[i].bridge
         /\ Selected(BeforeRanking) \subseteq Projects /\ IsFiniteSet(Selected(BeforeRanking))
         /\ phase = "done" => Selected(entries) = Selected(BeforeRanking) \cap Kept(BeforeRanking)
<1>1. DOMAIN BeforeRanking = DOMAIN entries /\ DOMAIN entries = 1..Len(entries) /\ Len(entries) \in Nat
  BY DEF BeforeRanking, ReqInv, ReqTypes
<1>2. ASSUME NEW i \in DOMAIN entries
      PROVE  /\ BeforeRanking[i].projects = DOMAIN entries[i].reasons
             /\ BeforeRanking[i].reasons = entries[i].reasons
             /\ BeforeRanking[i].canonical = entries[i].canonical
             /\ BeforeRanking[i].bridge = entries[i].bridge
             /\ DOMAIN entries[i].reasons \subseteq Projects
             /\ phase = "done" => entries[i].projects = DOMAIN entries[i].reasons \cap Kept(BeforeRanking)
  <2>1. PICK e : e = entries[i]
    OBVIOUS
  <2>2. IsEntry(e) /\ BeforeRanking[i] = [e EXCEPT !.projects = DOMAIN e.reasons]
    BY <2>1 DEF BeforeRanking, ReqInv, ReqTypes
  <2>3. DOMAIN e = EntryFields
    BY <2>2 DEF IsEntry
  <2>4. phase = "done" => e.projects = DOMAIN e.reasons \cap Kept(BeforeRanking)
    BY <2>1 DEF ReqInv, RankInv
  <2> QED BY <2>1, <2>2, <2>3, <2>4 DEF IsEntry, EntryFields
<1>3. Selected(BeforeRanking) \subseteq Projects
  BY <1>1, <1>2 DEF Selected
<1>4. IsFiniteSet(Selected(BeforeRanking))
  BY <1>3, CapAssumption, FS_Subset
<1>5. phase = "done" => Selected(entries) = Selected(BeforeRanking) \cap Kept(BeforeRanking)
  BY <1>1, <1>2 DEF Selected
<1> QED
  BY <1>1, <1>2, <1>3, <1>4, <1>5

\* A project has the best bucket that an entry gives it.
LEMMA BucketFacts ==
  ASSUME NEW es, NEW p \in Selected(es)
  PROVE  /\ BestBucket(p, es) \in Range(Buckets) /\ For(p, es) # {}
         /\ \A i \in For(p, es) : BucketOf(es[i]) = "must_run" => BestBucket(p, es) = "must_run"
<1> DEFINE S == {k \in DOMAIN Buckets : \E i \in For(p, es) : BucketOf(es[i]) = Buckets[k]}
<1>1. DOMAIN Buckets = 1..3 /\ Buckets[1] = "must_run" /\ Buckets[2] = "recommended" /\ Buckets[3] = "fallback"
  BY DEF Buckets
<1>2. PICK i \in DOMAIN es : p \in es[i].projects
  BY DEF Selected
<1>3. i \in For(p, es) /\ BucketOf(es[i]) \in {"must_run", "recommended", "fallback"}
  BY <1>2 DEF For, BucketOf, ClassifyBucket
<1>4. S \subseteq 1..3 /\ S # {}
  BY <1>1, <1>3
<1>5. Min(S) \in S /\ \A k \in S : Min(S) <= k
  <2>1. S \in SUBSET Nat
    BY <1>4
  <2> HIDE DEF S
  <2> QED BY <1>4, <2>1, LeastNumber
<1>6. BestBucket(p, es) = Buckets[Min(S)]
  BY DEF BestBucket
<1>7. ASSUME NEW j \in For(p, es), BucketOf(es[j]) = "must_run" PROVE BestBucket(p, es) = "must_run"
  <2>1. 1 \in S
    BY <1>1, <1>7
  <2>2. Min(S) <= 1 /\ Min(S) \in 1..3
    BY <1>4, <1>5, <2>1
  <2>3. Min(S) = 1
    BY <2>2
  <2> QED BY <1>1, <1>6, <2>3
<1>8. BestBucket(p, es) \in Range(Buckets)
  <2> HIDE DEF S
  <2> QED BY <1>1, <1>4, <1>5, <1>6 DEF Range
<1> QED
  BY <1>3, <1>7, <1>8

\* Those ahead of a project are fewer than those ahead of one behind it.
LEMMA AheadFacts ==
  ASSUME NEW es, NEW those \in SUBSET Projects, NEW p \in those, NEW q \in those, Precedes(p, q, es),
         \A r \in those : Score(r, es) \in Nat
  PROVE  /\ Cardinality({r \in those : Precedes(r, p, es)}) \in Nat
         /\ Cardinality({r \in those : Precedes(r, p, es)}) < Cardinality({r \in those : Precedes(r, q, es)})
<1> DEFINE aheadP == {r \in those : Precedes(r, p, es)}
           aheadQ == {r \in those : Precedes(r, q, es)}
<1>1. those \subseteq Nat /\ IsFiniteSet(those)
  BY CapAssumption, FS_Subset
<1>2. ASSUME NEW r \in those, Precedes(r, p, es) PROVE Precedes(r, q, es)
  <2>1. Score(r, es) \in Nat /\ Score(p, es) \in Nat /\ Score(q, es) \in Nat /\ r \in Nat /\ p \in Nat /\ q \in Nat
    BY <1>1
  <2> QED BY <1>2, <2>1 DEF Precedes
<1>3. IsFiniteSet(aheadQ) /\ IsFiniteSet(aheadP)
  BY <1>1, FS_Subset
<1>4. aheadP \subseteq aheadQ
  BY <1>2
<1>5. p \in aheadQ /\ p \notin aheadP
  <2>1. Score(p, es) \in Nat /\ p \in Nat
    BY <1>1
  <2> QED BY <2>1 DEF Precedes
<1>6. Cardinality(aheadP) \in Nat /\ Cardinality(aheadQ) \in Nat
  BY <1>3, FS_CardinalityType
<1>7. Cardinality(aheadP) <= Cardinality(aheadQ) /\ Cardinality(aheadP) # Cardinality(aheadQ)
  <2> HIDE DEF aheadP, aheadQ
  <2> QED BY <1>3, <1>4, <1>5, FS_Subset
<1> HIDE DEF aheadP, aheadQ
<1>8. Cardinality(aheadP) < Cardinality(aheadQ)
  BY <1>6, <1>7
<1> QED
  BY <1>6, <1>8 DEF aheadP, aheadQ

LEMMA CapFacts == ASSUME NEW n \in Nat, NEW b \in Range(Buckets) PROVE Cap(b, n) \in Nat /\ Cap("must_run", n) = n
<1>1. b \in {"must_run", "recommended", "fallback"}
  BY DEF Range, Buckets
<1> QED BY <1>1, CapAssumption DEF Cap

\* Nothing of the first bucket is dropped.
LEMMA MustRunIsKept ==
  ASSUME NEW es, NEW p \in Selected(es), Selected(es) \subseteq Projects, BestBucket(p, es) = "must_run",
         \A r \in Selected(es) : Score(r, es) \in Nat
  PROVE  p \in Kept(es)
<1> DEFINE those == OfBucket("must_run", es)
           ahead == {q \in those : Precedes(q, p, es)}
<1>1. p \in those /\ those \subseteq Selected(es)
  BY DEF OfBucket
<1>2. IsFiniteSet(those)
  BY <1>1, CapAssumption, FS_Subset
<1>3. ahead \subseteq those /\ p \notin ahead
  <2>1. Score(p, es) \in Nat /\ p \in Nat
    BY CapAssumption
  <2>2. ~ Precedes(p, p, es)
    BY <2>1 DEF Precedes
  <2> QED BY <2>2
<1>4. Cardinality(ahead) < Cardinality(those)
  <2>1. ahead # those
    BY <1>1, <1>3
  <2>2. Cardinality(ahead) \in Nat /\ Cardinality(those) \in Nat /\ Cardinality(ahead) <= Cardinality(those)
    BY <1>2, <1>3, FS_Subset, FS_CardinalityType
  <2> HIDE DEF ahead, those
  <2> QED BY <1>2, <1>3, <2>1, <2>2, FS_Subset
<1>5. "must_run" \in Range(Buckets) /\ Cardinality(those) \in Nat
  BY <1>2, FS_CardinalityType DEF Range, Buckets
<1>6. Cap("must_run", Cardinality(those)) = Cardinality(those)
  BY <1>5, CapFacts
<1>7. p \in KeptOfBucket("must_run", es)
  BY <1>1, <1>4, <1>6 DEF KeptOfBucket
<1> QED
  BY <1>5, <1>7 DEF Kept

\* A project that more entries select has a higher score.
LEMMA ScoreFacts ==
  ASSUME NEW es, NEW n \in Nat, DOMAIN es = 1..n, NEW p, NEW q
  PROVE  /\ Score(p, es) \in Nat
         /\ For(q, es) \subseteq For(p, es) /\ For(q, es) # For(p, es) => Score(q, es) < Score(p, es)
<1> DEFINE canonical(r) == {i \in For(r, es) : HasCanonical(es[i])}
<1>1. IsFiniteSet(1..n)
  <2>1. 1 \in Int /\ n \in Int
    OBVIOUS
  <2> QED BY <2>1, FS_Interval
<1>2. ASSUME NEW r
      PROVE  /\ For(r, es) \subseteq 1..n /\ IsFiniteSet(For(r, es)) /\ IsFiniteSet(canonical(r))
             /\ Cardinality(For(r, es)) \in Nat /\ Cardinality(canonical(r)) \in Nat
             /\ Score(r, es) = Cardinality(For(r, es)) + Cardinality(canonical(r))
  <2>1. For(r, es) \subseteq 1..n /\ canonical(r) \subseteq 1..n
    BY DEF For
  <2>2. IsFiniteSet(For(r, es)) /\ IsFiniteSet(canonical(r))
    BY <1>1, <2>1, FS_Subset
  <2> QED BY <2>1, <2>2, FS_CardinalityType DEF Score
<1>3. ASSUME For(q, es) \subseteq For(p, es), For(q, es) # For(p, es) PROVE Score(q, es) < Score(p, es)
  <2>1. canonical(q) \subseteq canonical(p)
    BY <1>3
  <2>2. Cardinality(canonical(q)) <= Cardinality(canonical(p))
    BY <1>2, <2>1, FS_Subset
  <2>3. Cardinality(For(q, es)) <= Cardinality(For(p, es))
        /\ Cardinality(For(q, es)) # Cardinality(For(p, es))
    BY <1>2, <1>3, FS_Subset
  <2> HIDE DEF canonical
  <2> QED BY <1>2, <2>2, <2>3
<1>4. Score(p, es) \in Nat
  <2>1. /\ Cardinality(For(p, es)) \in Nat /\ Cardinality(canonical(p)) \in Nat
        /\ Score(p, es) = Cardinality(For(p, es)) + Cardinality(canonical(p))
    BY <1>2
  <2> HIDE DEF canonical
  <2> QED BY <2>1
<1> QED
  BY <1>3, <1>4

\* Of two projects of a bucket, the one ahead is kept if the other is.
LEMMA AheadIsKept ==
  ASSUME NEW es, NEW b \in Range(Buckets), NEW p \in OfBucket(b, es), NEW q \in KeptOfBucket(b, es),
         Selected(es) \subseteq Projects, Precedes(p, q, es), \A r \in Selected(es) : Score(r, es) \in Nat
  PROVE  p \in Kept(es)
<1> DEFINE those == OfBucket(b, es)
           aheadOf(r) == {x \in those : Precedes(x, r, es)}
<1>1. those \subseteq Selected(es) /\ those \subseteq Projects /\ q \in those /\ p \in those
      /\ Cardinality(aheadOf(q)) < Cap(b, Cardinality(those))
  BY DEF OfBucket, KeptOfBucket
<1>2. IsFiniteSet(those) /\ Cardinality(those) \in Nat
  BY <1>1, CapAssumption, FS_Subset, FS_CardinalityType
<1>3. Cap(b, Cardinality(those)) \in Nat
  BY <1>2, CapFacts
<1>4. \A r \in those : Score(r, es) \in Nat
  BY <1>1
<1>5. Cardinality(aheadOf(p)) \in Nat /\ Cardinality(aheadOf(p)) < Cardinality(aheadOf(q))
  <2> HIDE DEF those
  <2> QED BY <1>1, <1>4, AheadFacts
<1>6. Cardinality(aheadOf(q)) \in Nat
  <2>1. aheadOf(q) \subseteq those
    OBVIOUS
  <2> QED BY <1>2, <2>1, FS_Subset, FS_CardinalityType
<1>7. Cardinality(aheadOf(p)) < Cap(b, Cardinality(those))
  <2> HIDE DEF those, aheadOf
  <2> QED BY <1>1, <1>3, <1>5, <1>6
<1>8. p \in KeptOfBucket(b, es)
  BY <1>7 DEF KeptOfBucket
<1> QED
  BY <1>8 DEF Kept

\* The numbers of those ahead are 0, 1, ... without a gap: a bucket that drops a project
\* keeps as many as its cap allows.
LEMMA BucketIsFull ==
  ASSUME NEW es, NEW b, NEW p \in OfBucket(b, es), p \notin KeptOfBucket(b, es),
         NEW c \in Nat, c = Cap(b, Cardinality(OfBucket(b, es))),
         Selected(es) \subseteq Projects, \A r \in Selected(es) : Score(r, es) \in Nat
  PROVE  Cardinality(KeptOfBucket(b, es)) = c
<1> DEFINE those == OfBucket(b, es)
           n == Cardinality(those)
           ahead(r) == {x \in those : Precedes(x, r, es)}
           number == [r \in those |-> Cardinality(ahead(r))]
           staying == KeptOfBucket(b, es)
<1>1. those \subseteq Projects /\ those \subseteq Nat /\ IsFiniteSet(those) /\ n \in Nat
      /\ \A r \in those : Score(r, es) \in Nat
  <2>1. those \subseteq Selected(es)
    BY DEF OfBucket
  <2> QED BY <2>1, CapAssumption, FS_Subset, FS_CardinalityType
<1>2. ASSUME NEW r \in those PROVE Cardinality(ahead(r)) \in 0..(n - 1)
  <2>1. r \in those /\ r \notin ahead(r) /\ ahead(r) \subseteq those
    <3>1. Score(r, es) \in Nat /\ r \in Nat
      BY <1>1
    <3> QED BY <3>1 DEF Precedes
  <2>2. IsFiniteSet(ahead(r))
    BY <1>1, <2>1, FS_Subset
  <2>3. Cardinality(ahead(r)) \in Nat
    BY <2>2, FS_CardinalityType
  <2>4. Cardinality(ahead(r)) <= n /\ Cardinality(ahead(r)) # n
    <3> HIDE DEF those, ahead
    <3> QED BY <1>1, <2>1, FS_Subset
  <2> HIDE DEF ahead, n
  <2> QED BY <1>1, <2>3, <2>4
<1>3. ASSUME NEW r \in those, NEW s \in those, r # s PROVE Cardinality(ahead(r)) # Cardinality(ahead(s))
  <2>1. Precedes(r, s, es) \/ Precedes(s, r, es)
    <3>1. Score(r, es) \in Nat /\ Score(s, es) \in Nat /\ r \in Nat /\ s \in Nat
      BY <1>1
    <3> QED BY <1>3, <3>1 DEF Precedes
  <2>2. Cardinality(ahead(r)) < Cardinality(ahead(s)) \/ Cardinality(ahead(s)) < Cardinality(ahead(r))
    <3> HIDE DEF those
    <3> QED BY <1>1, <2>1, AheadFacts
  <2>3. Cardinality(ahead(r)) \in 0..(n - 1) /\ Cardinality(ahead(s)) \in 0..(n - 1)
    BY <1>2
  <2> HIDE DEF ahead, n
  <2> QED BY <1>1, <2>2, <2>3
<1>4. IsFiniteSet(0..(n - 1)) /\ Cardinality(0..(n - 1)) = n
  <2> HIDE DEF n
  <2>1. 0 \in Int /\ n - 1 \in Int
    BY <1>1
  <2>2. IsFiniteSet(0..(n - 1)) /\ Cardinality(0..(n - 1)) = IF 0 > n - 1 THEN 0 ELSE (n - 1) - 0 + 1
    BY <2>1, FS_Interval
  <2> QED BY <1>1, <2>2
<1>5. number \in Surjection(those, 0..(n - 1))
  <2>1. number \in Injection(those, 0..(n - 1))
    <3> HIDE DEF those, n, ahead
    <3> QED BY <1>2, <1>3 DEF Injection, IsInjective
  <2> HIDE DEF number
  <2> QED BY <1>4, <2>1, FS_Injection
<1>6. staying = {r \in those : Cardinality(ahead(r)) < c}
  BY DEF KeptOfBucket
<1>7. c <= n - 1
  <2>1. ~ (Cardinality(ahead(p)) < c)
    BY <1>6
  <2>2. Cardinality(ahead(p)) \in 0..(n - 1)
    BY <1>2
  <2> HIDE DEF ahead, n
  <2> QED BY <1>1, <2>1, <2>2
<1> DEFINE place == [r \in staying |-> Cardinality(ahead(r))]
<1>8. place \in Bijection(staying, 0..(c - 1))
  <2>1. ASSUME NEW r \in staying PROVE Cardinality(ahead(r)) \in 0..(c - 1)
    <3>1. r \in those /\ Cardinality(ahead(r)) < c
      BY <1>6
    <3>2. Cardinality(ahead(r)) \in 0..(n - 1)
      BY <1>2, <3>1
    <3> HIDE DEF ahead, n, staying, those
    <3> QED BY <1>1, <3>1, <3>2
  <2>2. ASSUME NEW k \in 0..(c - 1) PROVE \E r \in staying : Cardinality(ahead(r)) = k
    <3>1. k \in 0..(n - 1) /\ k < c
      <4> HIDE DEF n
      <4> QED BY <1>1, <1>7
    <3>2. PICK r \in those : number[r] = k
      <4> HIDE DEF number, those, n
      <4> QED BY <1>5, <3>1 DEF Surjection
    <3>3. Cardinality(ahead(r)) = k
      BY <3>2
    <3>4. r \in staying
      <4> HIDE DEF ahead, staying, those
      <4> QED BY <1>6, <3>1, <3>2, <3>3
    <3> QED BY <3>3, <3>4
  <2>3. \A r, s \in staying : r # s => Cardinality(ahead(r)) # Cardinality(ahead(s))
    <3> HIDE DEF ahead, staying, those
    <3> QED BY <1>3, <1>6
  <2> HIDE DEF ahead, staying, those
  <2>4. place \in [staying -> 0..(c - 1)]
    BY <2>1
  <2>5. \A r \in staying : place[r] = Cardinality(ahead(r))
    OBVIOUS
  <2> HIDE DEF place
  <2> QED BY <2>2, <2>3, <2>4, <2>5 DEF Bijection, Injection, IsInjective, Surjection
<1>9. ExistsBijection(0..(c - 1), staying)
  <2>1. ExistsBijection(staying, 0..(c - 1))
    <3> HIDE DEF place, staying
    <3> QED BY <1>8 DEF ExistsBijection
  <2> HIDE DEF staying
  <2> QED BY <2>1, Fun_ExistsBijSymmetric
<1>10. IsFiniteSet(0..(c - 1)) /\ Cardinality(0..(c - 1)) = c
  <2>1. 0 \in Int /\ c - 1 \in Int
    OBVIOUS
  <2>2. IsFiniteSet(0..(c - 1)) /\ Cardinality(0..(c - 1)) = IF 0 > c - 1 THEN 0 ELSE (c - 1) - 0 + 1
    BY <2>1, FS_Interval
  <2> QED BY <2>2
<1> HIDE DEF staying
<1>11. Cardinality(staying) = c
  BY <1>9, <1>10, FS_Bijection
<1> QED
  BY <1>11 DEF staying

\* What a request still selects in a bucket is what the ranking keeps of it.
LEMMA StaysFacts ==
  ASSUME ReqInv, phase = "done", NEW b \in Range(Buckets)
  PROVE  StaysIn(b) = KeptOfBucket(b, BeforeRanking)
<1>1. PICK es : es = BeforeRanking
  OBVIOUS
<1>2. Selected(entries) = Selected(es) \cap Kept(es)
  BY <1>1, RankedEntries
<1>3. \A c : \A q \in KeptOfBucket(c, es) : q \in Selected(es) /\ BestBucket(q, es) = c
  BY DEF KeptOfBucket, OfBucket
<1>4. \A q : q \in Kept(es) <=> \E c \in Range(Buckets) : q \in KeptOfBucket(c, es)
  BY DEF Kept
<1>5. StaysIn(b) = {q \in Selected(entries) : BestBucket(q, es) = b}
  BY <1>1 DEF StaysIn
<1> QED
  BY <1>1, <1>2, <1>3, <1>4, <1>5

\* What the ranking drops is of a bucket with a cap, and the bucket is full.
LEMMA DroppedFacts ==
  ASSUME ReqInv, phase = "done", NEW p \in Selected(BeforeRanking), p \notin Selected(entries)
  PROVE  /\ BestBucket(p, BeforeRanking) \in Range(Buckets) \ {"must_run"}
         /\ IsFull(BestBucket(p, BeforeRanking))
<1>1. PICK es : es = BeforeRanking
  OBVIOUS
<1>2. PICK b : b = BestBucket(p, es)
  OBVIOUS
<1>3. /\ DOMAIN es = 1..Len(entries) /\ Len(entries) \in Nat /\ Selected(es) \subseteq Projects
      /\ Selected(entries) = Selected(es) \cap Kept(es)
  BY <1>1, RankedEntries
<1>4. \A r : Score(r, es) \in Nat
  BY <1>3, ScoreFacts
<1>5. p \in Selected(es) /\ p \notin Kept(es)
  BY <1>1, <1>3
<1>6. b \in Range(Buckets) /\ b # "must_run"
  BY <1>2, <1>3, <1>4, <1>5, BucketFacts, MustRunIsKept
<1>7. b \in {"recommended", "fallback"}
  BY <1>6 DEF Range, Buckets
<1>8. Cap(b, 0) \in Nat /\ Cap(b, 0) = Cap(b, Cardinality(OfBucket(b, es)))
  BY <1>7, CapAssumption DEF Cap
<1>9. p \in OfBucket(b, es) /\ p \notin KeptOfBucket(b, es)
  BY <1>2, <1>5, <1>6 DEF OfBucket, Kept
<1>10. Cardinality(KeptOfBucket(b, es)) = Cap(b, 0)
  BY <1>3, <1>4, <1>8, <1>9, BucketIsFull
<1>11. StaysIn(b) = KeptOfBucket(b, es)
  BY <1>1, <1>6, StaysFacts
<1>12. IsFull(b)
  BY <1>6, <1>10, <1>11 DEF IsFull
<1> QED
  BY <1>1, <1>2, <1>6, <1>12

LEMMA SurvivalFacts == ReqInv => StrongestSurvive
<1> SUFFICES ASSUME ReqInv, phase = "done",
                    NEW p \in Selected(BeforeRanking) \ Selected(entries)
             PROVE  /\ \A i \in For(p, BeforeRanking) :
                         HasCanonical(entries[i]) => ~HasDirect(entries[i]) /\ ~HasSdk(entries[i])
                    /\ IsFull(BestBucket(p, BeforeRanking))
                    /\ \A q \in StaysIn(BestBucket(p, BeforeRanking)) :
                         /\ Precedes(q, p, BeforeRanking)
                         /\ For(q, BeforeRanking) \subseteq For(p, BeforeRanking) =>
                              For(q, BeforeRanking) = For(p, BeforeRanking)
  BY DEF StrongestSurvive
<1>1. PICK es : es = BeforeRanking
  OBVIOUS
<1>2. /\ DOMAIN es = 1..Len(entries) /\ Len(entries) \in Nat /\ Selected(es) \subseteq Projects
      /\ Selected(entries) = Selected(es) \cap Kept(es)
      /\ \A i \in DOMAIN es : /\ es[i].reasons = entries[i].reasons /\ es[i].canonical = entries[i].canonical
                              /\ es[i].bridge = entries[i].bridge
  BY <1>1, RankedEntries
<1>3. \A r : Score(r, es) \in Nat
  BY <1>2, ScoreFacts
<1>4. p \in Selected(es) /\ p \notin Kept(es)
  BY <1>1, <1>2
<1>5. PICK b : b = BestBucket(p, es)
  OBVIOUS
<1>6. b \in Range(Buckets) /\ b # "must_run" /\ IsFull(b)
  BY <1>1, <1>5, DroppedFacts
<1>7. ASSUME NEW i \in For(p, es), HasCanonical(entries[i]), HasDirect(entries[i]) \/ HasSdk(entries[i]) PROVE FALSE
  <2>1. HasCanonical(es[i]) /\ (HasDirect(es[i]) \/ HasSdk(es[i]))
    BY <1>2, <1>7 DEF For, HasCanonical, HasDirect, HasSdk
  <2>2. BucketOf(es[i]) = "must_run"
    BY <2>1 DEF BucketOf, ClassifyBucket
  <2> QED BY <1>4, <1>5, <1>6, <1>7, <2>2, BucketFacts
<1>8. ASSUME NEW q \in StaysIn(b)
      PROVE  Precedes(q, p, es) /\ (For(q, es) \subseteq For(p, es) => For(q, es) = For(p, es))
  <2>1. q \in KeptOfBucket(b, es) /\ q \in Selected(es) /\ q \in Kept(es)
    BY <1>1, <1>6, <1>8, StaysFacts DEF KeptOfBucket, OfBucket, Kept
  <2>2. p \in OfBucket(b, es)
    BY <1>4, <1>5 DEF OfBucket
  <2>3. ~ Precedes(p, q, es)
    BY <1>2, <1>3, <1>4, <1>6, <2>1, <2>2, AheadIsKept
  <2>4. Score(p, es) \in Nat /\ Score(q, es) \in Nat /\ p \in Nat /\ q \in Nat /\ p # q
    BY <1>2, <1>3, <1>4, <2>1, CapAssumption
  <2>5. Precedes(q, p, es)
    BY <2>3, <2>4 DEF Precedes
  <2>6. Score(q, es) >= Score(p, es)
    BY <2>4, <2>5 DEF Precedes
  <2>7. For(q, es) \subseteq For(p, es) /\ For(q, es) # For(p, es) => Score(q, es) < Score(p, es)
    BY <1>2, ScoreFacts
  <2> QED BY <2>4, <2>5, <2>6, <2>7
<1> QED
  BY <1>1, <1>5, <1>6, <1>7, <1>8

\* The ranking of a request of any length drops nothing that a file has a canonical API and a
\* strong use or a generated bridge for.  Any other project it drops only from a bucket that
\* is full, and all that stays there has a score as high; the buckets are not compared.
THEOREM RankingKeepsTheStrongest == SelectingSpec => []StrongestSurvive
BY RequestInvariance, SurvivalFacts, PTL

LEMMA VerdictFacts == ReqInv => OkMeansSelected
<1> SUFFICES ASSUME ReqInv PROVE OkMeansSelected
  OBVIOUS
<1>1. \A i \in DOMAIN entries : Rank(entries[i].risk) <= Rank(risk)
  BY DEF ReqInv, EntryInv
<1>2. ASSUME policy = "ok", NEW i \in DOMAIN entries,
             ~ (entries[i].projects # {} \/ entries[i].broad \/ entries[i].resolver = "skip")
      PROVE  /\ phase = "done" /\ DOMAIN entries[i].reasons # {}
             /\ \A p \in DOMAIN entries[i].reasons : IsFull(BestBucket(p, BeforeRanking))
  <2>1. risk = "low" /\ IsEntry(entries[i]) /\ EntryInv(entries[i], i)
    BY <1>2 DEF ReqInv, ReqTypes, TotalsInv
  <2>2. entries[i].risk = "low"
    BY <1>1, <2>1, RiskFacts DEF IsEntry
  <2>3. phase = "done" /\ DOMAIN entries[i].reasons # {}
    BY <1>2, <2>1, <2>2 DEF EntryInv
  <2>4. ASSUME NEW p \in DOMAIN entries[i].reasons PROVE IsFull(BestBucket(p, BeforeRanking))
    <3>1. p \in Selected(BeforeRanking)
      BY RankedEntries DEF Selected
    <3>2. p \notin Kept(BeforeRanking)
      BY <1>2, <2>3 DEF ReqInv, RankInv
    <3>3. p \notin Selected(entries)
      BY <2>3, <3>2, RankedEntries
    <3> QED BY <2>3, <3>1, <3>3, DroppedFacts
  <2> QED BY <2>3, <2>4
<1>3. policy = "ok" => unresolved = {}
  BY DEF ReqInv, TotalsInv
<1> QED
  BY <1>1, <1>2, <1>3 DEF OkMeansSelected

\* Every file has its answer, with any indexes and any number of files: it has one entry, the
\* gap is what no project was selected for, and the CI is told "ok" only if no file is
\* unresolved and each has a test, needs none, or has lost all to the caps of the ranking.
THEOREM FilesAreAnswered == SelectingSpec => [](EveryFileIsAccounted /\ GapIsComplete /\ OkMeansSelected)
<1>1. ReqInv => EveryFileIsAccounted /\ GapIsComplete /\ OkMeansSelected
  BY AccountFacts, GapFacts, VerdictFacts
<1> QED
  BY <1>1, RequestInvariance, PTL

-------------------------------------------------------------------------------
\* What a batch says of a request, and of itself.

\* The parts of the files of a request are finite, and so are those of the projects.
LEMMA FilePart ==
  ASSUME ReqInv, NEW S \in SUBSET DOMAIN entries
  PROVE  IsFiniteSet(S) /\ Cardinality(S) \in Nat
<1>1. DOMAIN entries = 1..Len(entries) /\ Len(entries) \in Nat
  BY DEF ReqInv, ReqTypes
<1>2. IsFiniteSet(1..Len(entries))
  <2>1. 1 \in Int /\ Len(entries) \in Int
    BY <1>1
  <2> QED BY <2>1, FS_Interval
<1> QED
  BY <1>1, <1>2, FS_Subset, FS_CardinalityType

LEMMA ProjectPart ==
  ASSUME NEW S \in SUBSET Projects
  PROVE  IsFiniteSet(S) /\ Cardinality(S) \in Nat
BY CapAssumption, FS_Subset, FS_CardinalityType

\* A file that leads to nothing is open, is covered by a broad rule, or has no product code,
\* unless its targets were lost.
LEMMA FileIsToldOf ==
  ASSUME ReqInv, NEW i \in DOMAIN entries, IsProduct(i)
  PROVE  \/ IsCovered(i) \/ IsOpen(i)
         \/ /\ entries[i].apis = {} /\ entries[i].projects = {}
            /\ \/ DOMAIN entries[i].reasons # {}
               \/ Resolver(files[i]) \in {"native", "idl", "bridge", "cpp"}
<1>1. PICK e : e = entries[i]
  OBVIOUS
<1>2. IsEntry(e) /\ EntryInv(e, i)
  BY <1>1 DEF ReqInv, ReqTypes
<1>3. Resolver(files[i]) \in {"skip", "native", "override", "idl", "bridge", "overtake", "cpp", "naming", "mappings"}
  <2>1. Range(Order) = {"skip", "native", "override", "idl", "bridge", "overtake", "cpp", "naming", "mappings"}
    BY DEF Range, Order
  <2> QED BY <2>1, ResolverKnows
<1>4. e.resolver # "skip"
  BY <1>1 DEF IsProduct, Reason
<1>5. e.resolver = "unresolved" => IsOpen(i)
  BY <1>1 DEF IsOpen, Reason
<1>6. IsCovered(i) <=> e.apis # {} \/ e.projects # {} \/ e.broad
  BY <1>1 DEF IsCovered
<1> QED
  BY <1>1, <1>2, <1>3, <1>4, <1>5, <1>6 DEF EntryInv

\* A file that is both open and covered has no projects but those of the indexes of coverage.
LEMMA OpenFacts ==
  ASSUME ReqInv, NEW i \in DOMAIN entries, IsOpen(i)
  PROVE  /\ entries[i].projects \subseteq files[i].covers
         /\ policy = "ok" => ~ IsProduct(i)
<1>1. PICK e : e = entries[i]
  OBVIOUS
<1>2. IsEntry(e) /\ EntryInv(e, i)
  BY <1>1 DEF ReqInv, ReqTypes
<1>3. e.resolver \in {"skip", "unresolved"} \/ (e.resolver = "bridge" /\ files[i].bridge = "infrastructure")
  BY <1>1 DEF IsOpen, Reason
<1>4. DOMAIN e.reasons \subseteq files[i].covers /\ e.projects \subseteq DOMAIN e.reasons
  BY <1>2, <1>3 DEF EntryInv, IsEntry
<1>5. ASSUME policy = "ok" PROVE ~ IsProduct(i)
  <2>1. risk = "low" /\ Rank(e.risk) <= Rank(risk) /\ e.risk \in Range(Risks)
    BY <1>2, <1>5 DEF ReqInv, TotalsInv, EntryInv, IsEntry
  <2>2. e.risk = "low"
    BY <2>1, RiskFacts
  <2>3. e.resolver = "skip"
    BY <1>2, <1>3, <2>2 DEF EntryInv
  <2> QED BY <1>1, <2>3 DEF IsProduct, Reason
<1> QED
  BY <1>1, <1>4, <1>5

\* The buckets of the ranking have nothing in common and are all that it keeps.
LEMMA BucketsAddUp ==
  ASSUME NEW es, Selected(es) \subseteq Projects
  PROVE  /\ Kept(es) \subseteq Selected(es)
         /\ Cardinality(Kept(es)) = Cardinality(KeptOfBucket("must_run", es))
              + Cardinality(KeptOfBucket("recommended", es)) + Cardinality(KeptOfBucket("fallback", es))
<1> DEFINE A == KeptOfBucket("must_run", es)
           B == KeptOfBucket("recommended", es)
           C == KeptOfBucket("fallback", es)
<1>1. Range(Buckets) = {"must_run", "recommended", "fallback"}
  BY DEF Range, Buckets
<1>2. Kept(es) = (A \cup B) \cup C
  <2>1. Kept(es) = UNION {KeptOfBucket(b, es) : b \in {"must_run", "recommended", "fallback"}}
    BY <1>1 DEF Kept
  <2> QED BY <2>1
<1>3. ASSUME NEW b PROVE KeptOfBucket(b, es) \subseteq Selected(es)
                      /\ \A p \in KeptOfBucket(b, es) : BestBucket(p, es) = b
  BY DEF KeptOfBucket, OfBucket
<1>4. A \cap B = {} /\ (A \cup B) \cap C = {} /\ A \subseteq Selected(es) /\ B \subseteq Selected(es)
      /\ C \subseteq Selected(es)
  <2>1. \A p \in A : BestBucket(p, es) = "must_run"
    BY <1>3
  <2>2. \A p \in B : BestBucket(p, es) = "recommended"
    BY <1>3
  <2>3. \A p \in C : BestBucket(p, es) = "fallback"
    BY <1>3
  <2>4. A \subseteq Selected(es) /\ B \subseteq Selected(es) /\ C \subseteq Selected(es)
    BY <1>3
  <2> HIDE DEF A, B, C
  <2> QED BY <2>1, <2>2, <2>3, <2>4
<1> HIDE DEF A, B, C
<1>5. /\ IsFiniteSet(A) /\ IsFiniteSet(B) /\ IsFiniteSet(C) /\ IsFiniteSet(A \cup B)
      /\ Cardinality(A) \in Nat /\ Cardinality(B) \in Nat /\ Cardinality(C) \in Nat
  <2>1. A \subseteq Projects /\ B \subseteq Projects /\ C \subseteq Projects /\ (A \cup B) \subseteq Projects
    BY <1>4
  <2> QED BY <2>1, ProjectPart
<1>6. Cardinality(A \cup B) = Cardinality(A) + Cardinality(B)
  <2>1. Cardinality(A \cup B) = Cardinality(A) + Cardinality(B) - Cardinality(A \cap B)
    BY <1>5, FS_Union
  <2>2. Cardinality(A \cap B) = 0
    BY <1>4, FS_EmptySet
  <2> QED BY <1>5, <2>1, <2>2
<1>7. Cardinality((A \cup B) \cup C) = Cardinality(A) + Cardinality(B) + Cardinality(C)
  <2>1. Cardinality((A \cup B) \cup C) = Cardinality(A \cup B) + Cardinality(C) - Cardinality((A \cup B) \cap C)
    BY <1>5, FS_Union
  <2>2. Cardinality((A \cup B) \cap C) = 0
    BY <1>4, FS_EmptySet
  <2> QED BY <1>5, <1>6, <2>1, <2>2
<1>8. Kept(es) \subseteq Selected(es)
  BY <1>2, <1>4
<1> QED
  BY <1>2, <1>7, <1>8 DEF A, B, C

\* A target of the first bucket needs a file with a canonical API.
LEMMA MustRunFacts ==
  ASSUME NEW es, NEW p \in KeptOfBucket("must_run", es)
  PROVE  \E i \in DOMAIN es : es[i].canonical # {}
<1> DEFINE S == {k \in DOMAIN Buckets : \E i \in For(p, es) : BucketOf(es[i]) = Buckets[k]}
<1>1. DOMAIN Buckets = 1..3 /\ Buckets[1] = "must_run" /\ Buckets[2] = "recommended" /\ Buckets[3] = "fallback"
  BY DEF Buckets
<1>2. BestBucket(p, es) = "must_run" /\ p \in Selected(es)
  BY DEF KeptOfBucket, OfBucket
<1>3. PICK j \in DOMAIN es : p \in es[j].projects
  BY <1>2 DEF Selected
<1>4. j \in For(p, es) /\ BucketOf(es[j]) \in {"must_run", "recommended", "fallback"}
  BY <1>3 DEF For, BucketOf, ClassifyBucket
<1>5. S \in SUBSET Nat /\ S # {}
  BY <1>1, <1>4
<1>6. Min(S) \in S
  <2> HIDE DEF S
  <2> QED BY <1>5, LeastNumber
<1>7. PICK i \in For(p, es) : BucketOf(es[i]) = Buckets[Min(S)]
  BY <1>6
<1>8. BucketOf(es[i]) = "must_run" /\ i \in DOMAIN es
  BY <1>2, <1>7 DEF BestBucket, For
<1> QED
  BY <1>8 DEF BucketOf, ClassifyBucket, HasCanonical

\* The summary of a request.
LEMMA SummaryIs ==
  ASSUME NEW s, s = Summary
  PROVE  /\ s.status = "ok" /\ s.policy = policy /\ s.files = NFiles
         /\ s.actionable = AtLeastOne(Cardinality({i \in DOMAIN entries : ~ files[i].excluded}))
         /\ s.covered = Cardinality({i \in DOMAIN entries : IsCovered(i)})
         /\ s.canonical = Cardinality({i \in DOMAIN entries : IsCanonical(i)})
         /\ s.exact = Cardinality({i \in DOMAIN entries : IsExact(i)})
         /\ s.family = Cardinality({i \in DOMAIN entries : IsOfFamily(i)})
         /\ s.broad = Cardinality({i \in DOMAIN entries : entries[i].broad})
         /\ s.product = Cardinality({i \in DOMAIN entries : IsProduct(i)})
         /\ s.productCanonical = Cardinality({i \in DOMAIN entries : IsProduct(i)} \cap {i \in DOMAIN entries : IsCanonical(i)})
         /\ s.productOpen = Cardinality({i \in DOMAIN entries : IsProduct(i)} \cap {i \in DOMAIN entries : IsOpen(i)})
         /\ s.strong = Cardinality({i \in DOMAIN entries : files[i].strongRole})
         /\ s.strongCanonical = Cardinality({i \in DOMAIN entries : files[i].strongRole} \cap {i \in DOMAIN entries : IsCanonical(i)})
         /\ s.targets = Cardinality(Selected(entries) \cup extra) /\ s.extra = Cardinality(extra)
         /\ s.buckets = RankedSizes /\ s.dropped = DroppedCount
BY DEF Summary

LEMMA SizesAre ==
  /\ RankedSizes["must_run"] = Cardinality(KeptOfBucket("must_run", BeforeRanking))
  /\ RankedSizes["recommended"] = Cardinality(KeptOfBucket("recommended", BeforeRanking))
  /\ RankedSizes["fallback"] = Cardinality(KeptOfBucket("fallback", BeforeRanking))
<1>1. Range(Buckets) = {"must_run", "recommended", "fallback"}
  BY DEF Range, Buckets
<1> QED BY <1>1 DEF RankedSizes

LEMMA CountOfFiles ==
  ASSUME ReqInv, NEW S \in SUBSET DOMAIN entries, NEW T \in SUBSET DOMAIN entries, S \subseteq T
  PROVE  /\ Cardinality(S) \in Nat /\ Cardinality(T) \in Nat /\ Cardinality(S) <= Cardinality(T)
         /\ Cardinality(T) <= NFiles /\ (Cardinality(S) > 0 <=> S # {})
<1>1. DOMAIN entries = 1..Len(entries) /\ Len(entries) \in Nat /\ Len(entries) <= NFiles
  BY DEF ReqInv, ReqTypes
<1>2. IsFiniteSet(S) /\ IsFiniteSet(T) /\ IsFiniteSet(DOMAIN entries)
      /\ Cardinality(S) \in Nat /\ Cardinality(T) \in Nat
  BY FilePart
<1>3. Cardinality(S) <= Cardinality(T) /\ Cardinality(T) <= Cardinality(DOMAIN entries)
  BY <1>2, FS_Subset
<1>4. Cardinality(DOMAIN entries) = Len(entries)
  <2>1. 1 \in Int /\ Len(entries) \in Int
    BY <1>1
  <2>2. Cardinality(1..Len(entries)) = IF 1 > Len(entries) THEN 0 ELSE Len(entries) - 1 + 1
    BY <2>1, FS_Interval
  <2> QED BY <1>1, <2>2
<1>5. Cardinality(T) <= NFiles
  BY <1>1, <1>2, <1>3, <1>4, CapAssumption
<1>6. Cardinality(S) > 0 <=> S # {}
  BY <1>2, FS_EmptySet
<1> QED
  BY <1>2, <1>3, <1>5, <1>6

LEMMA AtLeastOneFacts == ASSUME NEW n \in Nat PROVE AtLeastOne(n) \in Nat \ {0} /\ n <= AtLeastOne(n)
BY DEF AtLeastOne

\* It is a summary as those of the earlier requests are.
LEMMA SummaryIsOne == ReqInv => IsSummary(Summary)
<1> SUFFICES ASSUME ReqInv, NEW s, s = Summary PROVE IsSummary(s)
  OBVIOUS
<1> DEFINE all == DOMAIN entries
           product == {i \in all : IsProduct(i)}
           canonical == {i \in all : IsCanonical(i)}
           strong == {i \in all : files[i].strongRole}
<1>1. s.status = "ok" /\ s.files \in Nat /\ s.files = NFiles
  BY SummaryIs, CapAssumption
<1>2. s.covered \in Nat /\ s.canonical \in Nat /\ s.exact \in Nat /\ s.family \in Nat /\ s.broad \in Nat
      /\ s.covered <= s.files /\ s.canonical <= s.files /\ s.exact <= s.files /\ s.family <= s.files
      /\ s.broad <= s.files
  <2>1. ASSUME NEW S \in SUBSET all PROVE Cardinality(S) \in Nat /\ Cardinality(S) <= NFiles
    BY CountOfFiles
  <2>2. /\ s.covered = Cardinality({i \in all : IsCovered(i)})
        /\ s.canonical = Cardinality({i \in all : IsCanonical(i)})
        /\ s.exact = Cardinality({i \in all : IsExact(i)})
        /\ s.family = Cardinality({i \in all : IsOfFamily(i)})
        /\ s.broad = Cardinality({i \in all : entries[i].broad})
    BY SummaryIs
  <2>3. s.covered \in Nat /\ s.covered <= s.files
    BY <1>1, <2>1, <2>2
  <2>4. s.canonical \in Nat /\ s.canonical <= s.files
    BY <1>1, <2>1, <2>2
  <2>5. s.exact \in Nat /\ s.exact <= s.files
    BY <1>1, <2>1, <2>2
  <2>6. s.family \in Nat /\ s.family <= s.files
    BY <1>1, <2>1, <2>2
  <2>7. s.broad \in Nat /\ s.broad <= s.files
    BY <1>1, <2>1, <2>2
  <2> QED BY <2>3, <2>4, <2>5, <2>6, <2>7
<1>3. s.actionable \in Nat \ {0}
  <2>1. Cardinality({i \in all : ~ files[i].excluded}) \in Nat
    BY CountOfFiles
  <2> QED BY <2>1, SummaryIs, AtLeastOneFacts
<1>4. s.extra \in Nat /\ s.targets \in Nat /\ s.extra <= s.targets
  <2>1. extra \subseteq Projects /\ Selected(entries) \cup extra \subseteq Projects
    <3>1. \A i \in DOMAIN entries : entries[i].projects \subseteq Projects
      BY DEF ReqInv, ReqTypes, IsEntry
    <3>2. extra \subseteq Projects
      BY DEF ReqInv, ReqTypes
    <3> QED BY <3>1, <3>2 DEF Selected
  <2>2. IsFiniteSet(Selected(entries) \cup extra) /\ Cardinality(Selected(entries) \cup extra) \in Nat
        /\ Cardinality(extra) \in Nat
    BY <2>1, ProjectPart
  <2>3. Cardinality(extra) <= Cardinality(Selected(entries) \cup extra)
    BY <2>2, FS_Subset
  <2> QED BY <2>2, <2>3, SummaryIs
<1>5. /\ s.productCanonical \in Nat /\ s.product \in Nat /\ s.productCanonical <= s.product
      /\ s.productOpen \in Nat /\ s.productOpen <= s.product
  <2>1. /\ s.productCanonical = Cardinality(product \cap canonical) /\ s.product = Cardinality(product)
        /\ s.productOpen = Cardinality(product \cap {i \in all : IsOpen(i)})
    BY SummaryIs
  <2> HIDE DEF canonical
  <2> QED BY <2>1, CountOfFiles
<1>6. s.strongCanonical \in Nat /\ s.strong \in Nat /\ s.strongCanonical <= s.strong
  <2>1. s.strongCanonical = Cardinality(strong \cap canonical) /\ s.strong = Cardinality(strong)
    BY SummaryIs
  <2> HIDE DEF canonical
  <2> QED BY <2>1, CountOfFiles
<1>7. ASSUME NEW pair \in Parts PROVE s[pair[1]] \in Nat /\ s[pair[2]] \in Nat /\ s[pair[1]] <= s[pair[2]]
  BY <1>1, <1>2, <1>4, <1>5, <1>6 DEF Parts
<1> QED
  BY <1>1, <1>3, <1>7 DEF IsSummary

\* What it says of the request is so.
LEMMA SummaryAddsUp ==
  ASSUME ReqInv, phase = "done", NEW s, s = Summary,
         NEW lost, lost = {i \in DOMAIN entries : entries[i].apis = {} /\ entries[i].projects = {} /\
                             \/ DOMAIN entries[i].reasons # {}
                             \/ Resolver(files[i]) \in {"native", "idl", "bridge", "cpp"}},
         NEW total, total = s.buckets["must_run"] + s.buckets["recommended"] + s.buckets["fallback"]
  PROVE  /\ s.product <= s.covered + s.productOpen + Cardinality(lost)
         /\ s.targets = total + s.extra
         /\ total + s.dropped = Cardinality(Selected(BeforeRanking))
         /\ s.buckets["must_run"] > 0 => s.canonical > 0
         /\ s.policy = "ok" => s.productOpen = 0
<1> DEFINE all == DOMAIN entries
           product == {i \in all : IsProduct(i)}
           covers == {i \in all : IsCovered(i)}
           open == product \cap {i \in all : IsOpen(i)}
<1>1. /\ s.product = Cardinality(product) /\ s.covered = Cardinality(covers) /\ s.productOpen = Cardinality(open)
      /\ s.canonical = Cardinality({i \in all : IsCanonical(i)}) /\ s.policy = policy
      /\ s.targets = Cardinality(Selected(entries) \cup extra) /\ s.extra = Cardinality(extra)
      /\ s.dropped = Cardinality(Selected(BeforeRanking) \ Kept(BeforeRanking))
  BY SummaryIs DEF DroppedCount
<1>2. s.product <= s.covered + s.productOpen + Cardinality(lost)
  <2>1. product \subseteq (covers \cup open) \cup lost
    BY FileIsToldOf
  <2>2. covers \subseteq all /\ open \subseteq all /\ lost \subseteq all
    OBVIOUS
  <2> HIDE DEF covers, open, product
  <2>3. /\ IsFiniteSet(covers) /\ IsFiniteSet(open) /\ IsFiniteSet(lost) /\ IsFiniteSet(covers \cup open)
        /\ IsFiniteSet((covers \cup open) \cup lost) /\ Cardinality(covers) \in Nat /\ Cardinality(open) \in Nat
        /\ Cardinality(lost) \in Nat
    BY <2>2, FilePart
  <2>4. Cardinality(product) <= Cardinality((covers \cup open) \cup lost)
    BY <2>1, <2>3, FS_Subset
  <2>5. Cardinality(covers \cup open) = Cardinality(covers) + Cardinality(open) - Cardinality(covers \cap open)
        /\ Cardinality((covers \cup open) \cup lost)
             = Cardinality(covers \cup open) + Cardinality(lost) - Cardinality((covers \cup open) \cap lost)
    BY <2>3, FS_Union
  <2>6. Cardinality(covers \cap open) \in Nat /\ Cardinality((covers \cup open) \cap lost) \in Nat
    BY <2>2, FilePart
  <2>7. Cardinality(product) \in Nat
    <3>1. product \subseteq all
      BY DEF product
    <3> QED BY <3>1, FilePart
  <2> QED BY <1>1, <2>3, <2>4, <2>5, <2>6, <2>7 DEF covers, open, product
<1>3. PICK es : es = BeforeRanking
  OBVIOUS
<1>4. /\ Selected(es) \subseteq Projects /\ Selected(entries) = Kept(es) /\ Kept(es) \subseteq Selected(es)
      /\ extra \cap Selected(es) = {} /\ extra \subseteq Projects
      /\ DOMAIN es = DOMAIN entries /\ \A i \in DOMAIN es : es[i].canonical = entries[i].canonical
  <2>1. Selected(es) \subseteq Projects /\ Selected(entries) = Selected(es) \cap Kept(es)
        /\ DOMAIN es = DOMAIN entries /\ \A i \in DOMAIN es : es[i].canonical = entries[i].canonical
    BY <1>3, RankedEntries
  <2>2. Kept(es) \subseteq Selected(es)
    BY <2>1, BucketsAddUp
  <2>3. extra \cap Selected(es) = {} /\ extra \subseteq Projects
    BY <1>3 DEF ReqInv, RankInv, ReqTypes
  <2> QED BY <2>1, <2>2, <2>3
<1>5. total = Cardinality(Kept(es))
  <2>1. /\ s.buckets["must_run"] = Cardinality(KeptOfBucket("must_run", es))
        /\ s.buckets["recommended"] = Cardinality(KeptOfBucket("recommended", es))
        /\ s.buckets["fallback"] = Cardinality(KeptOfBucket("fallback", es))
    BY <1>3, SummaryIs, SizesAre
  <2>2. Cardinality(Kept(es)) = Cardinality(KeptOfBucket("must_run", es))
          + Cardinality(KeptOfBucket("recommended", es)) + Cardinality(KeptOfBucket("fallback", es))
    BY <1>4, BucketsAddUp
  <2> QED BY <2>1, <2>2
<1>6. s.targets = total + s.extra
  <2>1. IsFiniteSet(Kept(es)) /\ IsFiniteSet(extra) /\ Cardinality(Kept(es)) \in Nat /\ Cardinality(extra) \in Nat
    <3>1. Kept(es) \subseteq Projects
      BY <1>4
    <3> QED BY <1>4, <3>1, ProjectPart
  <2>2. Cardinality(Kept(es) \cup extra) = Cardinality(Kept(es)) + Cardinality(extra) - Cardinality(Kept(es) \cap extra)
    BY <2>1, FS_Union
  <2>3. Kept(es) \cap extra = {}
    BY <1>4
  <2>4. Cardinality(Kept(es) \cap extra) = 0
    BY <2>3, FS_EmptySet
  <2> QED BY <1>1, <1>4, <1>5, <2>1, <2>2, <2>4
<1>7. total + s.dropped = Cardinality(Selected(es))
  <2>1. IsFiniteSet(Selected(es)) /\ Cardinality(Selected(es)) \in Nat
    BY <1>4, ProjectPart
  <2>2. IsFiniteSet(Kept(es)) /\ Cardinality(Kept(es)) \in Nat
    BY <1>4, <2>1, FS_Subset, FS_CardinalityType
  <2>3. Cardinality(Selected(es) \ Kept(es)) = Cardinality(Selected(es)) - Cardinality(Selected(es) \cap Kept(es))
    BY <2>1, FS_Difference
  <2>4. Selected(es) \cap Kept(es) = Kept(es)
    BY <1>4
  <2>5. s.dropped = Cardinality(Selected(es) \ Kept(es))
    BY <1>1, <1>3
  <2>6. Cardinality(Selected(es) \cap Kept(es)) = Cardinality(Kept(es))
    BY <2>4
  <2>7. s.dropped = Cardinality(Selected(es)) - Cardinality(Kept(es))
    BY <2>3, <2>5, <2>6
  <2> QED BY <1>5, <2>1, <2>2, <2>7
<1>8. ASSUME s.buckets["must_run"] > 0 PROVE s.canonical > 0
  <2>1. Cardinality(KeptOfBucket("must_run", es)) > 0
    BY <1>3, <1>8, SummaryIs, SizesAre
  <2>2. KeptOfBucket("must_run", es) # {}
    <3>1. Cardinality({}) = 0
      BY FS_EmptySet
    <3> QED BY <2>1, <3>1
  <2>3. PICK i \in DOMAIN entries : entries[i].canonical # {}
    BY <1>4, <2>2, MustRunFacts
  <2>4. {k \in all : IsCanonical(k)} # {}
    BY <2>3 DEF IsCanonical
  <2>5. Cardinality({k \in all : IsCanonical(k)}) > 0
    BY <2>4, CountOfFiles
  <2> QED BY <1>1, <2>5
<1>9. ASSUME s.policy = "ok" PROVE s.productOpen = 0
  <2>1. open = {}
    BY <1>1, <1>9, OpenFacts
  <2> QED BY <1>1, <2>1, FS_EmptySet
<1> HIDE DEF open, product, covers
<1> QED
  BY <1>2, <1>3, <1>6, <1>7, <1>8, <1>9

\* Sums over the requests of a batch, up to each of them.
IsSum(g, n, list, ks, part) ==
  g = [k \in 0..n |-> IF k = 0 THEN 0 ELSE g[k - 1] + (IF k \in ks THEN list[k][part] ELSE 0)]

LEMMA SumExists ==
  ASSUME NEW n \in Nat, NEW list, NEW ks, NEW part
  PROVE  \E g : IsSum(g, n, list, ks, part)
<1> DEFINE Is(g, m) == g = [k \in 0..m |->
                              IF k = 0 THEN 0 ELSE g[k - 1] + (IF k \in ks THEN list[k][part] ELSE 0)]
           Bad == {m \in Nat : ~ \E g : Is(g, m)}
<1>1. ASSUME Bad # {} PROVE FALSE
  <2>1. PICK m : m = Min(Bad)
    OBVIOUS
  <2>2. m \in Bad /\ \A k \in Bad : m <= k
    <3>1. Bad \in SUBSET Nat
      OBVIOUS
    <3> HIDE DEF Bad
    <3> QED BY <1>1, <2>1, <3>1, LeastNumber
  <2>3. m \in Nat /\ ~ \E g : Is(g, m)
    BY <2>2
  <2>4. CASE m = 0
    <3>1. Is([k \in 0..m |-> 0], m)
      BY <2>4
    <3> QED BY <2>3, <3>1
  <2>5. CASE m # 0
    <3>1. m - 1 \in Nat /\ m - 1 \notin Bad
      <4>1. m - 1 \in Nat /\ ~ (m <= m - 1)
        BY <2>3, <2>5
      <4> HIDE DEF Bad
      <4> QED BY <2>2, <4>1
    <3>2. PICK g : Is(g, m - 1)
      BY <3>1
    <3> DEFINE h == [k \in 0..m |-> IF k = m THEN g[m - 1] + (IF m \in ks THEN list[m][part] ELSE 0) ELSE g[k]]
    <3>3. ASSUME NEW k \in 0..m
          PROVE  h[k] = IF k = 0 THEN 0 ELSE h[k - 1] + (IF k \in ks THEN list[k][part] ELSE 0)
      <4>1. CASE k = m
        BY <2>3, <2>5, <4>1
      <4>2. CASE k # m
        <5>1. k \in 0..(m - 1) /\ h[k] = g[k] /\ (k # 0 => k - 1 \in 0..m /\ k - 1 # m /\ h[k - 1] = g[k - 1])
          BY <2>3, <4>2
        <5>2. g[k] = IF k = 0 THEN 0 ELSE g[k - 1] + (IF k \in ks THEN list[k][part] ELSE 0)
          BY <3>2, <5>1
        <5> QED BY <5>1, <5>2
      <4> QED BY <4>1, <4>2
    <3>4. h = [k \in 0..m |-> h[k]]
      OBVIOUS
    <3>5. Is(h, m)
      <4> HIDE DEF h
      <4> QED BY <3>3, <3>4
    <3> HIDE DEF h, Is
    <3> QED BY <2>3, <3>5
  <2> QED BY <2>4, <2>5
<1>2. \E g : Is(g, n)
  BY <1>1
<1> QED
  BY <1>2 DEF IsSum

\* A total of natural numbers is one, and is no more than that of larger ones.
LEMMA TotalFacts ==
  ASSUME NEW list, Len(list) \in Nat, NEW ks, NEW part, NEW whole,
         \A k \in ks : list[k][part] \in Nat /\ list[k][whole] \in Nat /\ list[k][part] <= list[k][whole]
  PROVE  TotalOf(list, ks, part) \in Nat /\ TotalOf(list, ks, whole) \in Nat
         /\ TotalOf(list, ks, part) <= TotalOf(list, ks, whole)
<1>1. PICK n \in Nat : n = Len(list)
  OBVIOUS
<1>2. PICK f : f = [k \in 0..n |-> IF k = 0 THEN 0 ELSE f[k - 1] + (IF k \in ks THEN list[k][part] ELSE 0)]
               /\ TotalOf(list, ks, part) = f[n]
  <2>1. \E g : g = [k \in 0..n |-> IF k = 0 THEN 0 ELSE g[k - 1] + (IF k \in ks THEN list[k][part] ELSE 0)]
    <3>1. \E g : IsSum(g, n, list, ks, part)
      BY SumExists
    <3> QED BY <3>1, Zenon DEF IsSum
  <2>2. PICK f : f = CHOOSE g : g = [k \in 0..n |-> IF k = 0 THEN 0 ELSE g[k - 1] + (IF k \in ks THEN list[k][part] ELSE 0)]
    OBVIOUS
  <2>3. f = [k \in 0..n |-> IF k = 0 THEN 0 ELSE f[k - 1] + (IF k \in ks THEN list[k][part] ELSE 0)]
    BY <2>1, <2>2, Zenon
  <2>4. TotalOf(list, ks, part) = f[n]
    BY <1>1, <2>2, Zenon DEF TotalOf
  <2> QED BY <2>3, <2>4
<1>3. PICK g : g = [k \in 0..n |-> IF k = 0 THEN 0 ELSE g[k - 1] + (IF k \in ks THEN list[k][whole] ELSE 0)]
               /\ TotalOf(list, ks, whole) = g[n]
  <2>1. \E h : h = [k \in 0..n |-> IF k = 0 THEN 0 ELSE h[k - 1] + (IF k \in ks THEN list[k][whole] ELSE 0)]
    <3>1. \E h : IsSum(h, n, list, ks, whole)
      BY SumExists
    <3> QED BY <3>1, Zenon DEF IsSum
  <2>2. PICK g : g = CHOOSE h : h = [k \in 0..n |-> IF k = 0 THEN 0 ELSE h[k - 1] + (IF k \in ks THEN list[k][whole] ELSE 0)]
    OBVIOUS
  <2>3. g = [k \in 0..n |-> IF k = 0 THEN 0 ELSE g[k - 1] + (IF k \in ks THEN list[k][whole] ELSE 0)]
    BY <2>1, <2>2, Zenon
  <2>4. TotalOf(list, ks, whole) = g[n]
    BY <1>1, <2>2, Zenon DEF TotalOf
  <2> QED BY <2>3, <2>4
<1> DEFINE Good(k) == f[k] \in Nat /\ g[k] \in Nat /\ f[k] <= g[k]
           Bad == {k \in 0..n : ~ Good(k)}
<1>4. ASSUME Bad # {} PROVE FALSE
  <2>1. PICK m : m = Min(Bad)
    OBVIOUS
  <2>2. m \in Bad /\ \A k \in Bad : m <= k
    <3>1. Bad \in SUBSET Nat
      OBVIOUS
    <3> HIDE DEF Bad
    <3> QED BY <1>4, <2>1, <3>1, LeastNumber
  <2>3. m \in 0..n /\ ~ Good(m)
    BY <2>2
  <2>4. m # 0
    BY <1>2, <1>3, <2>3
  <2>5. m - 1 \in 0..n /\ Good(m - 1)
    BY <2>2, <2>3, <2>4
  <2>6. f[m] = f[m - 1] + (IF m \in ks THEN list[m][part] ELSE 0)
        /\ g[m] = g[m - 1] + (IF m \in ks THEN list[m][whole] ELSE 0)
    BY <1>2, <1>3, <2>3, <2>4
  <2>7. Good(m)
    BY <2>5, <2>6
  <2> QED BY <2>3, <2>7
<1>5. Good(n)
  BY <1>4
<1> QED
  BY <1>2, <1>3, <1>5

\* So for the means: sums of rates, with a common denominator.
IsMeanSum(g, n, list, ks, part, whole) ==
  g = [k \in 0..n |->
         IF k = 0 THEN NoMean
         ELSE IF k \in ks THEN PlusRate(g[k - 1], <<list[k][part], AtLeastOne(list[k][whole])>>)
         ELSE g[k - 1]]

LEMMA MeanSumExists ==
  ASSUME NEW n \in Nat, NEW list, NEW ks, NEW part, NEW whole
  PROVE  \E g : IsMeanSum(g, n, list, ks, part, whole)
<1> DEFINE Added(x, k) == PlusRate(x, <<list[k][part], AtLeastOne(list[k][whole])>>)
           Is(g, m) == g = [k \in 0..m |->
                              IF k = 0 THEN NoMean ELSE IF k \in ks THEN Added(g[k - 1], k) ELSE g[k - 1]]
           Bad == {m \in Nat : ~ \E g : Is(g, m)}
<1>1. ASSUME Bad # {} PROVE FALSE
  <2>1. PICK m : m = Min(Bad)
    OBVIOUS
  <2>2. m \in Bad /\ \A k \in Bad : m <= k
    <3>1. Bad \in SUBSET Nat
      OBVIOUS
    <3> HIDE DEF Bad
    <3> QED BY <1>1, <2>1, <3>1, LeastNumber
  <2>3. m \in Nat /\ ~ \E g : Is(g, m)
    BY <2>2
  <2> HIDE DEF Added
  <2>4. CASE m = 0
    <3>1. Is([k \in 0..m |-> NoMean], m)
      BY <2>4
    <3> QED BY <2>3, <3>1
  <2>5. CASE m # 0
    <3>1. m - 1 \in Nat /\ m - 1 \notin Bad
      <4>1. m - 1 \in Nat /\ ~ (m <= m - 1)
        BY <2>3, <2>5
      <4> HIDE DEF Bad
      <4> QED BY <2>2, <4>1
    <3>2. PICK g : Is(g, m - 1)
      BY <3>1
    <3> DEFINE h == [k \in 0..m |->
                       IF k = m THEN IF m \in ks THEN Added(g[m - 1], m) ELSE g[m - 1] ELSE g[k]]
    <3>3. ASSUME NEW k \in 0..m
          PROVE  h[k] = IF k = 0 THEN NoMean ELSE IF k \in ks THEN Added(h[k - 1], k) ELSE h[k - 1]
      <4>1. CASE k = m
        <5>1. h[k - 1] = g[m - 1]
          BY <2>3, <2>5, <4>1
        <5> QED BY <2>3, <2>5, <4>1, <5>1
      <4>2. CASE k # m
        <5>1. k \in 0..(m - 1) /\ h[k] = g[k] /\ (k # 0 => k - 1 \in 0..m /\ k - 1 # m /\ h[k - 1] = g[k - 1])
          BY <2>3, <4>2
        <5>2. g[k] = IF k = 0 THEN NoMean ELSE IF k \in ks THEN Added(g[k - 1], k) ELSE g[k - 1]
          BY <3>2, <5>1
        <5> QED BY <5>1, <5>2
      <4> QED BY <4>1, <4>2
    <3>4. h = [k \in 0..m |-> h[k]]
      OBVIOUS
    <3>5. Is(h, m)
      <4> HIDE DEF h
      <4> QED BY <3>3, <3>4
    <3> HIDE DEF h, Is
    <3> QED BY <2>3, <3>5
  <2> QED BY <2>4, <2>5
<1>2. \E g : Is(g, n)
  BY <1>1
<1> QED
  BY <1>2, Zenon DEF IsMeanSum

LEMMA Products ==
  ASSUME NEW x \in Nat, NEW y \in Nat \ {0}, NEW a \in Nat, NEW b \in Nat \ {0}, NEW c \in Nat,
         x <= c * y, a <= b
  PROVE  x * b + a * y \in Nat /\ y * b \in Nat \ {0} /\ x * b + a * y <= (c + 1) * (y * b)
<1>1. x * b \in Nat /\ a * y \in Nat /\ y * b \in Nat \ {0} /\ c * y \in Nat
  OBVIOUS
<1>2. x * b <= (c * y) * b
  OBVIOUS
<1>3. a * y <= b * y
  OBVIOUS
<1>4. (c * y) * b + b * y = (c + 1) * (y * b)
  OBVIOUS
<1> QED
  BY <1>1, <1>2, <1>3, <1>4

\* A mean of rates of at most one is at most one.
LEMMA MeanFacts ==
  ASSUME NEW list, Len(list) \in Nat, NEW ks \in SUBSET (1..Len(list)), NEW part, NEW whole,
         \A k \in ks : list[k][part] \in Nat /\ list[k][whole] \in Nat
                       /\ list[k][part] <= AtLeastOne(list[k][whole])
  PROVE  /\ Mean(list, ks, part, whole)[1] \in Nat /\ Mean(list, ks, part, whole)[2] \in Nat
         /\ Mean(list, ks, part, whole)[1] <= Mean(list, ks, part, whole)[2]
<1>1. PICK n \in Nat : n = Len(list)
  OBVIOUS
<1>2. PICK sum : /\ IsMeanSum(sum, n, list, ks, part, whole)
                 /\ Mean(list, ks, part, whole)
                      = IF ks = {} THEN NoMean ELSE <<sum[n][1], sum[n][2] * Cardinality(ks)>>
  <2>1. \E g : IsMeanSum(g, n, list, ks, part, whole)
    BY MeanSumExists
  <2>2. PICK sum : sum = CHOOSE g : IsMeanSum(g, n, list, ks, part, whole)
    OBVIOUS
  <2>3. IsMeanSum(sum, n, list, ks, part, whole)
    BY <2>1, <2>2, Zenon
  <2>4. sum = CHOOSE g :
                g = [k \in 0..Len(list) |->
                       IF k = 0 THEN NoMean
                       ELSE IF k \in ks THEN PlusRate(g[k - 1], <<list[k][part], AtLeastOne(list[k][whole])>>)
                       ELSE g[k - 1]]
    BY <1>1, <2>2, Zenon DEF IsMeanSum
  <2>5. RateSum(list, ks, part, whole) = sum[Len(list)]
    BY <2>4, Zenon DEF RateSum
  <2>6. Mean(list, ks, part, whole) = IF ks = {} THEN NoMean ELSE <<sum[n][1], sum[n][2] * Cardinality(ks)>>
    BY <1>1, <2>5 DEF Mean
  <2> QED BY <2>3, <2>6
<1>3. IsFiniteSet(1..n)
  <2>1. 1 \in Int /\ n \in Int
    OBVIOUS
  <2> QED BY <2>1, FS_Interval
<1> DEFINE upto(k) == ks \cap 1..k
           count(k) == Cardinality(upto(k))
           Good(k) == /\ sum[k][1] \in Nat /\ sum[k][2] \in Nat \ {0}
                      /\ sum[k][1] <= count(k) * sum[k][2]
           Bad == {k \in 0..n : ~ Good(k)}
<1>4. ASSUME NEW k \in 0..n PROVE IsFiniteSet(upto(k)) /\ count(k) \in Nat
  <2>1. upto(k) \subseteq 1..n
    BY <1>1
  <2> QED BY <1>3, <2>1, FS_Subset, FS_CardinalityType
<1>5. /\ sum[0] = NoMean
      /\ \A k \in 1..n : sum[k] = IF k \in ks
           THEN PlusRate(sum[k - 1], <<list[k][part], AtLeastOne(list[k][whole])>>)
           ELSE sum[k - 1]
  <2>1. ASSUME NEW k \in 0..n
        PROVE  sum[k] = IF k = 0 THEN NoMean
                        ELSE IF k \in ks THEN PlusRate(sum[k - 1], <<list[k][part], AtLeastOne(list[k][whole])>>)
                        ELSE sum[k - 1]
    BY <1>2 DEF IsMeanSum
  <2>2. 0 \in 0..n /\ \A k \in 1..n : k \in 0..n /\ k # 0
    OBVIOUS
  <2> QED BY <2>1, <2>2
<1>6. ASSUME Bad # {} PROVE FALSE
  <2>1. PICK m : m = Min(Bad)
    OBVIOUS
  <2>2. m \in Bad /\ \A k \in Bad : m <= k
    <3>1. Bad \in SUBSET Nat
      OBVIOUS
    <3> HIDE DEF Bad
    <3> QED BY <1>6, <2>1, <3>1, LeastNumber
  <2>3. m \in 0..n /\ ~ Good(m)
    BY <2>2
  <2>4. m # 0
    <3>1. upto(0) = {}
      BY <1>1
    <3>2. count(0) = 0
      BY <3>1, FS_EmptySet
    <3>3. sum[0][1] = 0 /\ sum[0][2] = 1
      BY <1>5 DEF NoMean
    <3>4. Good(0)
      <4> HIDE DEF count
      <4> QED BY <3>2, <3>3
    <3> QED BY <2>3, <3>4
  <2>5. m \in 1..n /\ m - 1 \in 0..n /\ Good(m - 1)
    <3>1. m \in 1..n /\ m - 1 \in 0..n /\ ~ (m <= m - 1)
      BY <2>3, <2>4
    <3>2. m - 1 \notin Bad
      <4> HIDE DEF Bad
      <4> QED BY <2>2, <3>1
    <3> QED BY <3>1, <3>2
  <2>6. PICK x, y, c : x = sum[m - 1][1] /\ y = sum[m - 1][2] /\ c = count(m - 1)
    OBVIOUS
  <2>7. x \in Nat /\ y \in Nat \ {0} /\ c \in Nat /\ x <= c * y
    <3>1. c \in Nat
      BY <1>4, <2>5, <2>6
    <3> HIDE DEF count
    <3> QED BY <2>5, <2>6, <3>1
  <2>8. CASE m \in ks
    <3>1. PICK a, b : a = list[m][part] /\ b = AtLeastOne(list[m][whole])
      OBVIOUS
    <3>2. a \in Nat /\ b \in Nat \ {0} /\ a <= b
      BY <2>8, <3>1, AtLeastOneFacts
    <3>3. sum[m][1] = x * b + a * y /\ sum[m][2] = y * b
      <4>1. sum[m] = PlusRate(sum[m - 1], <<a, b>>)
        BY <1>5, <2>5, <2>8, <3>1
      <4>2. PICK u, v : u = sum[m - 1] /\ v = <<a, b>>
        OBVIOUS
      <4>3. sum[m] = <<u[1] * v[2] + v[1] * u[2], u[2] * v[2]>> /\ v[1] = a /\ v[2] = b
        BY <4>1, <4>2 DEF PlusRate
      <4> QED BY <2>6, <4>2, <4>3
    <3>4. upto(m) = upto(m - 1) \cup {m} /\ m \notin upto(m - 1)
      BY <2>5, <2>8
    <3>5. count(m) = c + 1
      <4>1. IsFiniteSet(upto(m - 1))
        BY <1>4, <2>5
      <4> HIDE DEF upto
      <4> QED BY <2>6, <3>4, <4>1, FS_AddElement
    <3>6. x * b + a * y \in Nat /\ y * b \in Nat \ {0} /\ x * b + a * y <= (c + 1) * (y * b)
      BY <2>7, <3>2, Products
    <3>7. Good(m)
      <4> HIDE DEF count
      <4> QED BY <3>3, <3>5, <3>6
    <3> QED BY <2>3, <3>7
  <2>9. CASE m \notin ks
    <3>1. sum[m] = sum[m - 1]
      BY <1>5, <2>5, <2>9
    <3>2. upto(m) = upto(m - 1)
      BY <2>5, <2>9
    <3>3. Good(m)
      <4> HIDE DEF upto
      <4> QED BY <2>5, <3>1, <3>2
    <3> QED BY <2>3, <3>3
  <2> QED BY <2>8, <2>9
<1>7. Good(n)
  <2> HIDE DEF Good
  <2> QED BY <1>6
<1>8. upto(n) = ks
  BY <1>1
<1>9. sum[n][1] \in Nat /\ sum[n][2] \in Nat /\ Cardinality(ks) \in Nat
      /\ sum[n][1] <= Cardinality(ks) * sum[n][2]
  <2>1. count(n) = Cardinality(ks) /\ count(n) \in Nat
    <3> HIDE DEF upto
    <3> QED BY <1>4, <1>8
  <2> HIDE DEF count
  <2> QED BY <1>7, <2>1
<1>10. Cardinality(ks) * sum[n][2] = sum[n][2] * Cardinality(ks)
  BY <1>9
<1> QED
  BY <1>2, <1>9, <1>10 DEF NoMean

\* A batch of summaries adds up.
LEMMA BatchAddsUp ==
  ASSUME NEW list, Len(list) \in Nat, DOMAIN list = 1..Len(list),
         \A k \in DOMAIN list : IsSummary(list[k]), NEW q, q = Quality(list),
         NEW rate \in {q.covered, q.canonical, q.exact, q.family, q.broad,
                       q.canonicalOfProduct, q.openOfProduct, q.strong}
  PROVE  /\ q.adjusted.requests + Cardinality(q.excluded) = q.total
         /\ q.ok + q.errors = q.total /\ q.withCanonical <= q.ok
         /\ rate[1] <= rate[2]
         /\ q.actionable[1] > q.actionable[2] =>
              \E k \in DOMAIN list : list[k].status = "ok" /\ list[k].covered > list[k].actionable
<1> DEFINE ok == Answered(list)
           products == {k \in ok : list[k].product > 0}
           failed == {k \in DOMAIN list : list[k].status = "error"}
<1>1. /\ q.total = Len(list) /\ q.ok = Cardinality(ok) /\ q.errors = Cardinality(failed)
      /\ q.covered = Mean(list, ok, "covered", "files")
      /\ q.actionable = Mean(list, ok, "covered", "actionable")
      /\ q.canonical = Mean(list, ok, "canonical", "files")
      /\ q.exact = Mean(list, ok, "exact", "files")
      /\ q.family = Mean(list, ok, "family", "files")
      /\ q.broad = Mean(list, ok, "broad", "files")
      /\ q.canonicalOfProduct = Mean(list, products, "productCanonical", "product")
      /\ q.openOfProduct = Mean(list, products, "productOpen", "product")
      /\ q.strong = <<TotalOf(list, ok, "strongCanonical"), AtLeastOne(TotalOf(list, ok, "strong"))>>
      /\ q.withCanonical = Cardinality({k \in ok : list[k].canonical > 0})
      /\ q.adjusted = Gate(list, Settled(list)) /\ q.excluded = Excluded(list)
  BY DEF Quality
<1>2. q.adjusted.requests = Cardinality(Settled(list))
  BY <1>1 DEF Gate
<1>3. IsFiniteSet(1..Len(list)) /\ Cardinality(1..Len(list)) = Len(list)
  <2>1. 1 \in Int /\ Len(list) \in Int
    OBVIOUS
  <2>2. IsFiniteSet(1..Len(list)) /\ Cardinality(1..Len(list)) = IF 1 > Len(list) THEN 0 ELSE Len(list) - 1 + 1
    BY <2>1, FS_Interval
  <2> QED BY <2>2
<1>4. ASSUME NEW S \in SUBSET (1..Len(list)) PROVE IsFiniteSet(S) /\ Cardinality(S) \in Nat
  BY <1>3, FS_Subset, FS_CardinalityType
<1>5. ASSUME NEW S \in SUBSET (1..Len(list)), NEW T \in SUBSET (1..Len(list)), S \cap T = {},
             S \cup T = 1..Len(list)
      PROVE  Cardinality(S) + Cardinality(T) = Len(list)
  <2>1. Cardinality(S \cup T) = Cardinality(S) + Cardinality(T) - Cardinality(S \cap T)
    BY <1>4, FS_Union
  <2>2. Cardinality(S \cap T) = 0
    BY <1>5, FS_EmptySet
  <2>3. Cardinality(S \cup T) = Len(list)
    BY <1>3, <1>5
  <2> QED BY <1>4, <2>1, <2>2, <2>3
<1>6. ASSUME NEW k \in ok
      PROVE  k \in 1..Len(list) /\ \A pair \in Parts :
               list[k][pair[1]] \in Nat /\ list[k][pair[2]] \in Nat /\ list[k][pair[1]] <= list[k][pair[2]]
  BY DEF Answered, IsSummary
<1>7. q.adjusted.requests + Cardinality(q.excluded) = q.total
  <2>1. Settled(list) \cap Excluded(list) = {} /\ Settled(list) \cup Excluded(list) = 1..Len(list)
    BY DEF Settled, Excluded, Answered
  <2>2. Settled(list) \subseteq 1..Len(list) /\ Excluded(list) \subseteq 1..Len(list)
    BY <2>1
  <2> QED BY <1>1, <1>2, <1>5, <2>1, <2>2
<1>8. q.ok + q.errors = q.total
  <2>1. ok \cap failed = {} /\ ok \cup failed = 1..Len(list)
    BY DEF Answered, IsSummary
  <2>2. ok \subseteq 1..Len(list) /\ failed \subseteq 1..Len(list)
    BY <2>1
  <2> HIDE DEF ok, failed
  <2> QED BY <1>1, <1>5, <2>1, <2>2
<1>9. q.withCanonical <= q.ok
  <2>1. ok \subseteq 1..Len(list) /\ {k \in ok : list[k].canonical > 0} \subseteq ok
    BY <1>6
  <2>2. IsFiniteSet(ok)
    BY <1>4, <2>1
  <2> QED BY <1>1, <2>1, <2>2, FS_Subset
<1>10. ASSUME NEW ks \in SUBSET ok, NEW pair \in Parts
       PROVE  Mean(list, ks, pair[1], pair[2])[1] <= Mean(list, ks, pair[1], pair[2])[2]
  <2>1. ks \subseteq 1..Len(list)
    BY <1>6
  <2>2. PICK part, whole : part = pair[1] /\ whole = pair[2]
    OBVIOUS
  <2>3. ASSUME NEW k \in ks
        PROVE  list[k][part] \in Nat /\ list[k][whole] \in Nat /\ list[k][part] <= AtLeastOne(list[k][whole])
    <3>1. list[k][part] \in Nat /\ list[k][whole] \in Nat /\ list[k][part] <= list[k][whole]
      BY <1>6, <2>2
    <3>2. AtLeastOne(list[k][whole]) \in Nat /\ list[k][whole] <= AtLeastOne(list[k][whole])
      BY <3>1, AtLeastOneFacts
    <3> QED BY <3>1, <3>2
  <2>4. Mean(list, ks, part, whole)[1] <= Mean(list, ks, part, whole)[2]
    BY <2>1, <2>3, MeanFacts
  <2> QED BY <2>2, <2>4
<1>11. \A pair \in {<<"covered", "files">>, <<"canonical", "files">>, <<"exact", "files">>, <<"family", "files">>,
                    <<"broad", "files">>, <<"productCanonical", "product">>,
                    <<"productOpen", "product">>, <<"strongCanonical", "strong">>} : pair \in Parts
  BY DEF Parts
<1>12. products \subseteq ok /\ ok \subseteq ok
  OBVIOUS
<1>13. ASSUME NEW ks \in SUBSET ok, NEW part, NEW whole, <<part, whole>> \in Parts
       PROVE  Mean(list, ks, part, whole)[1] <= Mean(list, ks, part, whole)[2]
  <2>1. PICK pair \in Parts : pair = <<part, whole>>
    BY <1>13
  <2>2. pair[1] = part /\ pair[2] = whole
    BY <2>1
  <2> QED BY <1>10, <2>1, <2>2
<1>14. q.covered[1] <= q.covered[2] /\ q.canonical[1] <= q.canonical[2] /\ q.exact[1] <= q.exact[2]
       /\ q.family[1] <= q.family[2] /\ q.broad[1] <= q.broad[2]
       /\ q.canonicalOfProduct[1] <= q.canonicalOfProduct[2] /\ q.openOfProduct[1] <= q.openOfProduct[2]
  <2> HIDE DEF ok, products
  <2> QED BY <1>1, <1>11, <1>12, <1>13
<1>15. q.strong[1] <= q.strong[2]
  <2>1. \A k \in ok : list[k]["strongCanonical"] \in Nat /\ list[k]["strong"] \in Nat
                      /\ list[k]["strongCanonical"] <= list[k]["strong"]
    BY <1>6, <1>11
  <2>2. PICK x, y : x = TotalOf(list, ok, "strongCanonical") /\ y = TotalOf(list, ok, "strong")
    OBVIOUS
  <2>3. x \in Nat /\ y \in Nat /\ x <= y
    <3> HIDE DEF ok
    <3> QED BY <2>1, <2>2, TotalFacts
  <2>4. AtLeastOne(y) \in Nat /\ y <= AtLeastOne(y)
    BY <2>3, AtLeastOneFacts
  <2> QED BY <1>1, <2>2, <2>3, <2>4
<1>16. ASSUME \A k \in DOMAIN list : list[k].status = "ok" => ~ (list[k].covered > list[k].actionable)
       PROVE  ~ (q.actionable[1] > q.actionable[2])
  <2>1. ok \subseteq 1..Len(list)
    BY <1>6
  <2>2. ASSUME NEW k \in ok
        PROVE  list[k]["covered"] \in Nat /\ list[k]["actionable"] \in Nat
               /\ list[k]["covered"] <= AtLeastOne(list[k]["actionable"])
    <3>1. list[k]["covered"] \in Nat /\ list[k]["actionable"] \in Nat /\ list[k].status = "ok"
      BY <1>6, <1>11 DEF Answered, IsSummary
    <3>2. list[k]["covered"] <= list[k]["actionable"]
      BY <1>16, <3>1 DEF Answered
    <3>3. AtLeastOne(list[k]["actionable"]) \in Nat /\ list[k]["actionable"] <= AtLeastOne(list[k]["actionable"])
      BY <3>1, AtLeastOneFacts
    <3> QED BY <3>1, <3>2, <3>3
  <2>3. PICK mean : mean = Mean(list, ok, "covered", "actionable")
    OBVIOUS
  <2>4. mean[1] \in Nat /\ mean[2] \in Nat /\ mean[1] <= mean[2]
    <3> HIDE DEF ok
    <3> QED BY <2>1, <2>2, <2>3, MeanFacts
  <2>5. q.actionable = mean
    BY <1>1, <2>3
  <2> QED BY <2>4, <2>5
<1>17. rate[1] <= rate[2]
  BY <1>14, <1>15
<1> QED
  BY <1>7, <1>8, <1>9, <1>16, <1>17

\* What a batch says adds up: of the request that is done, and of all of them.
LEMMA QualityFacts == ReqInv => QualityAddsUp
<1> SUFFICES ASSUME ReqInv, phase = "done" PROVE QualityAddsUp
  BY DEF QualityAddsUp
<1>1. PICK s : s = Summary
  OBVIOUS
<1>2. PICK total : total = s.buckets["must_run"] + s.buckets["recommended"] + s.buckets["fallback"]
  OBVIOUS
<1>3. PICK lost : lost = {i \in DOMAIN entries : entries[i].apis = {} /\ entries[i].projects = {} /\
                            \/ DOMAIN entries[i].reasons # {}
                            \/ Resolver(files[i]) \in {"native", "idl", "bridge", "cpp"}}
  OBVIOUS
<1>4. /\ s.product <= s.covered + s.productOpen + Cardinality(lost)
      /\ s.targets = total + s.extra
      /\ total + s.dropped = Cardinality(Selected(BeforeRanking))
      /\ s.buckets["must_run"] > 0 => s.canonical > 0
      /\ s.policy = "ok" => s.productOpen = 0
  BY <1>1, <1>2, <1>3, SummaryAddsUp
<1>5. \A i \in DOMAIN entries : IsOpen(i) /\ IsCovered(i) => entries[i].projects \subseteq files[i].covers
  BY OpenFacts
<1>6. ASSUME NEW earlier \in Earlier, NEW q, q = Quality(Append(earlier, s))
      PROVE  /\ q.adjusted.requests + Cardinality(q.excluded) = q.total
             /\ q.ok + q.errors = q.total /\ q.withCanonical <= q.ok
             /\ \A r \in {q.covered, q.canonical, q.exact, q.family, q.broad,
                          q.canonicalOfProduct, q.openOfProduct, q.strong} : r[1] <= r[2]
             /\ q.actionable[1] > q.actionable[2] =>
                  \/ \E k \in DOMAIN earlier :
                       earlier[k].status = "ok" /\ earlier[k].covered > earlier[k].actionable
                  \/ \E i \in DOMAIN entries : IsCovered(i) /\ files[i].excluded
  <2>1. PICK list : list = Append(earlier, s)
    OBVIOUS
  <2>2. earlier \in Seq(Range(earlier)) /\ \A k \in DOMAIN earlier : IsSummary(earlier[k])
    BY EarlierAssumption
  <2>3. /\ Len(earlier) \in Nat /\ DOMAIN earlier = 1..Len(earlier)
        /\ Len(list) = Len(earlier) + 1 /\ DOMAIN list = 1..Len(list)
        /\ list[Len(list)] = s /\ \A k \in 1..Len(earlier) : list[k] = earlier[k]
    BY <2>1, <2>2
  <2>4. IsSummary(s)
    BY <1>1, SummaryIsOne
  <2>5. \A k \in DOMAIN list : IsSummary(list[k])
    <3>1. ASSUME NEW k \in 1..Len(list) PROVE k \in 1..Len(earlier) \/ k = Len(list)
      BY <2>3
    <3> QED BY <2>2, <2>3, <2>4, <3>1
  <2>6. Len(list) \in Nat /\ q = Quality(list)
    BY <1>6, <2>1, <2>3
  <2>7. ASSUME NEW rate \in {q.covered, q.canonical, q.exact, q.family, q.broad,
                             q.canonicalOfProduct, q.openOfProduct, q.strong}
        PROVE  /\ q.adjusted.requests + Cardinality(q.excluded) = q.total
               /\ q.ok + q.errors = q.total /\ q.withCanonical <= q.ok
               /\ rate[1] <= rate[2]
               /\ q.actionable[1] > q.actionable[2] =>
                    \E k \in DOMAIN list : list[k].status = "ok" /\ list[k].covered > list[k].actionable
    BY <2>3, <2>5, <2>6, BatchAddsUp
  <2>8. ASSUME NEW k \in DOMAIN list, list[k].status = "ok", list[k].covered > list[k].actionable
        PROVE  \/ \E j \in DOMAIN earlier : earlier[j].status = "ok" /\ earlier[j].covered > earlier[j].actionable
               \/ \E i \in DOMAIN entries : IsCovered(i) /\ files[i].excluded
    <3>1. CASE k \in 1..Len(earlier)
      BY <2>3, <2>8, <3>1
    <3>2. CASE k \notin 1..Len(earlier)
      <4>1. s.covered > s.actionable
        <5>1. k = Len(list)
          BY <2>3, <3>2
        <5> QED BY <2>3, <2>8, <5>1
      <4> DEFINE taken == {i \in DOMAIN entries : IsCovered(i)}
                 counted == {i \in DOMAIN entries : ~ files[i].excluded}
      <4>2. PICK x, y, z : x = Cardinality(taken) /\ y = Cardinality(counted) /\ z = AtLeastOne(y)
        OBVIOUS
      <4>3. s.covered = x /\ s.actionable = z /\ x \in Nat /\ y \in Nat /\ z \in Nat /\ y <= z
        <5>1. x \in Nat /\ y \in Nat
          BY <4>2, FilePart
        <5> QED BY <1>1, <4>2, <5>1, SummaryIs, AtLeastOneFacts
      <4>4. x > y
        BY <4>1, <4>3
      <4>5. ~ (taken \subseteq counted)
        <5>1. ASSUME taken \subseteq counted PROVE x <= y
          <6>1. taken \in SUBSET DOMAIN entries /\ counted \in SUBSET DOMAIN entries
            OBVIOUS
          <6> HIDE DEF taken, counted
          <6> QED BY <4>2, <5>1, <6>1, CountOfFiles
        <5> HIDE DEF taken, counted
        <5> QED BY <4>3, <4>4, <5>1
      <4> QED BY <4>5
    <3> QED BY <3>1, <3>2
  <2> QED BY <2>7, <2>8
<1> QED
  BY <1>1, <1>2, <1>3, <1>4, <1>5, <1>6 DEF QualityAddsUp

\* Every request of a batch is answered, whatever the files, the indexes and the requests before
\* it: every file has its entry, and the gap, the verdict and the numbers agree with the entries.
\* "ok" is said before the ranking; what is ranked away afterwards is so only for full buckets.
THEOREM RequestsAreAnswered == SelectingSpec => []RequestIsAnswered
<1>1. ReqInv => RequestIsAnswered
  BY AccountFacts, GapFacts, VerdictFacts, QualityFacts DEF RequestIsAnswered
<1> QED
  BY <1>1, RequestInvariance, PTL

-------------------------------------------------------------------------------
\* A candidate that a resolver makes, and a file's own result.
IsCandidate(c) ==
  /\ c.target \in Nat /\ c.bucket \in {"recommended", "possible"}
  /\ c.source \in {"direct_xts_usage", "infra_profile"} /\ c.strength \in {"medium", "weak"}

IsResult(r) ==
  r.bucket \in {"unresolved", "possible", "recommended"} /\ ~ (r.profiled /\ r.topics)

\* What has been found, and what the report says of it.
FoundInv ==
  /\ changed = <<>> \/ changed \in ChangeSets
  /\ perFile \in Seq(Range(perFile)) /\ \A k \in DOMAIN perFile : IsResult(perFile[k])
  /\ candidates \in Seq(Range(candidates))
  /\ \A k \in DOMAIN candidates :
       /\ IsCandidate(candidates[k])
       /\ \E n \in DOMAIN perFile : perFile[n].bucket = candidates[k].bucket
  /\ report # NoReport => report = [level |-> Level, best |-> MaxBucket]

\* The candidates are taken in the order of their rank, each once.
Judgement == Range(kept) \cup Range(suppressed)
JudgedInv ==
  /\ kept \in Seq(Range(kept)) /\ suppressed \in Seq(Range(suppressed))
  /\ report = NoReport => ranked = {} /\ Judgement = {}
  /\ report # NoReport => ranked \cup Judgement = RankedCandidates(candidates)
  /\ \A c \in Judgement, d \in ranked : RankedBefore(c, d)
  /\ \A j, k \in DOMAIN kept : j < k => RankedBefore(kept[j], kept[k])
  /\ \A j, k \in DOMAIN suppressed : j < k => RankedBefore(suppressed[j], suppressed[k])
  /\ Range(kept) \cap Range(suppressed) = {}

\* Nothing is over its caps, and what is dropped met one.
Dropped(c) ==
  \/ Cardinality({j \in Rest(c) : Group(kept[j]) = Group(c)}) = GroupCap(c)
  \/ Cardinality({j \in Rest(c) : kept[j].bucket = c.bucket}) = TotalCap(c)
CapsInv ==
  /\ \A k \in DOMAIN kept :
       InGroup(kept[k]) <= GroupCap(kept[k]) /\ InBucket(kept[k]) <= TotalCap(kept[k])
  /\ \A k \in DOMAIN suppressed : Dropped(suppressed[k])

UniversalInv == FoundInv /\ JudgedInv /\ CapsInv

-------------------------------------------------------------------------------
\* The order of the candidates: their bucket, source and strength weigh more than
\* the number of their target.
Weight(c) == 100 * BucketOrder(c) + 10 * SourceRank(c) + StrengthRank(c)

LEMMA PlacesOfCandidates ==
  ASSUME NEW c, IsCandidate(c)
  PROVE  BucketOrder(c) \in {2, 3} /\ SourceRank(c) \in {2, 4} /\ StrengthRank(c) \in {2, 3}
<1>1. BucketOrder(c) \in {2, 3}
  <2> DEFINE order == <<"must_run", "recommended", "possible", "unresolved">>
  <2>1. /\ DOMAIN order = 1..4 /\ order[1] = "must_run" /\ order[2] = "recommended"
        /\ order[3] = "possible" /\ order[4] = "unresolved"
    OBVIOUS
  <2>2. \E k \in DOMAIN order : order[k] = c.bucket
    BY <2>1 DEF IsCandidate
  <2>3. Place(c.bucket, order) \in 1..4 /\ order[Place(c.bucket, order)] = c.bucket
    <3> HIDE DEF order
    <3> QED BY <2>1, <2>2 DEF Place
  <2> HIDE DEF order
  <2>4. Place(c.bucket, order) \in {2, 3}
    BY <2>1, <2>3 DEF IsCandidate
  <2> QED BY <2>4 DEF BucketOrder, order
<1>2. SourceRank(c) \in {2, 4}
  <2> DEFINE order == <<"coverage_equivalence", "direct_xts_usage", "sdk_plus_usage", "infra_profile",
                        "fallback">>
  <2>1. /\ DOMAIN order = 1..5 /\ order[1] = "coverage_equivalence" /\ order[2] = "direct_xts_usage"
        /\ order[3] = "sdk_plus_usage" /\ order[4] = "infra_profile" /\ order[5] = "fallback"
    OBVIOUS
  <2>2. \E k \in DOMAIN order : order[k] = c.source
    BY <2>1 DEF IsCandidate
  <2>3. Place(c.source, order) \in 1..5 /\ order[Place(c.source, order)] = c.source
    <3> HIDE DEF order
    <3> QED BY <2>1, <2>2 DEF Place
  <2> HIDE DEF order
  <2>4. Place(c.source, order) \in {2, 4}
    BY <2>1, <2>3 DEF IsCandidate
  <2> QED BY <2>4 DEF SourceRank, order
<1>3. StrengthRank(c) \in {2, 3}
  <2> DEFINE order == <<"strong", "medium", "weak">>
  <2>1. /\ DOMAIN order = 1..3 /\ order[1] = "strong" /\ order[2] = "medium" /\ order[3] = "weak"
    OBVIOUS
  <2>2. \E k \in DOMAIN order : order[k] = c.strength
    BY <2>1 DEF IsCandidate
  <2>3. Place(c.strength, order) \in 1..3 /\ order[Place(c.strength, order)] = c.strength
    <3> HIDE DEF order
    <3> QED BY <2>1, <2>2 DEF Place
  <2> HIDE DEF order
  <2>4. Place(c.strength, order) \in {2, 3}
    BY <2>1, <2>3 DEF IsCandidate
  <2> QED BY <2>4 DEF StrengthRank, order
<1> QED BY <1>1, <1>2, <1>3

LEMMA BeforeByWeight ==
  ASSUME NEW c, NEW d, IsCandidate(c), IsCandidate(d)
  PROVE  /\ Weight(c) \in Nat /\ Weight(d) \in Nat /\ c.target \in Nat /\ d.target \in Nat
         /\ RankedBefore(c, d) <=>
              Weight(c) < Weight(d) \/ (Weight(c) = Weight(d) /\ c.target < d.target)
<1>1. PICK b, s, t, u : b = BucketOrder(c) /\ s = SourceRank(c) /\ t = StrengthRank(c) /\ u = c.target
  OBVIOUS
<1>2. PICK x, y, z, w : x = BucketOrder(d) /\ y = SourceRank(d) /\ z = StrengthRank(d) /\ w = d.target
  OBVIOUS
<1>3. /\ b \in {2, 3} /\ s \in {2, 4} /\ t \in {2, 3} /\ u \in Nat
      /\ x \in {2, 3} /\ y \in {2, 4} /\ z \in {2, 3} /\ w \in Nat
  BY <1>1, <1>2, PlacesOfCandidates DEF IsCandidate
<1>4. RankKey(c) = <<b, s, t, u>> /\ RankKey(d) = <<x, y, z, w>>
  BY <1>1, <1>2 DEF RankKey
<1>5. RankedBefore(c, d) <=>
        \/ b < x
        \/ b = x /\ s < y
        \/ b = x /\ s = y /\ t < z
        \/ b = x /\ s = y /\ t = z /\ u < w
  <2>1. PICK p, q : p = RankKey(c) /\ q = RankKey(d)
    OBVIOUS
  <2>2. p[1] = b /\ p[2] = s /\ p[3] = t /\ p[4] = u /\ q[1] = x /\ q[2] = y /\ q[3] = z /\ q[4] = w
    BY <1>4, <2>1
  <2>3. RankedBefore(c, d) <=> \E n \in 1..4 : p[n] < q[n] /\ \A m \in 1..n - 1 : p[m] = q[m]
    BY <2>1 DEF RankedBefore
  <2>4. (\E n \in 1..4 : p[n] < q[n] /\ \A m \in 1..n - 1 : p[m] = q[m]) <=>
          \/ p[1] < q[1]
          \/ p[1] = q[1] /\ p[2] < q[2]
          \/ p[1] = q[1] /\ p[2] = q[2] /\ p[3] < q[3]
          \/ p[1] = q[1] /\ p[2] = q[2] /\ p[3] = q[3] /\ p[4] < q[4]
    <3>1. 1..4 = {1, 2, 3, 4}
      OBVIOUS
    <3>2. 1..1 - 1 = {} /\ 1..2 - 1 = {1} /\ 1..3 - 1 = {1, 2} /\ 1..4 - 1 = {1, 2, 3}
      OBVIOUS
    <3>3. /\ (\A m \in 1..1 - 1 : p[m] = q[m])
          /\ (\A m \in 1..2 - 1 : p[m] = q[m]) <=> p[1] = q[1]
          /\ (\A m \in 1..3 - 1 : p[m] = q[m]) <=> p[1] = q[1] /\ p[2] = q[2]
          /\ (\A m \in 1..4 - 1 : p[m] = q[m]) <=> p[1] = q[1] /\ p[2] = q[2] /\ p[3] = q[3]
      BY <3>2
    <3> DEFINE A(n) == \A m \in 1..n - 1 : p[m] = q[m]
    <3>4. /\ A(1) /\ (A(2) <=> p[1] = q[1]) /\ (A(3) <=> p[1] = q[1] /\ p[2] = q[2])
          /\ (A(4) <=> p[1] = q[1] /\ p[2] = q[2] /\ p[3] = q[3])
      BY <3>3
    <3>5. (\E n \in 1..4 : p[n] < q[n] /\ A(n)) <=>
            \/ p[1] < q[1] /\ A(1)
            \/ p[2] < q[2] /\ A(2)
            \/ p[3] < q[3] /\ A(3)
            \/ p[4] < q[4] /\ A(4)
      <4> HIDE DEF A
      <4> QED BY <3>1
    <3> QED BY <3>4, <3>5
  <2> QED BY <2>2, <2>3, <2>4
<1>6. Weight(c) = 100 * b + 10 * s + t /\ Weight(d) = 100 * x + 10 * y + z
  BY <1>1, <1>2 DEF Weight
<1>7. Weight(c) \in Nat /\ Weight(d) \in Nat
  BY <1>3, <1>6
<1>8. (\/ b < x
       \/ b = x /\ s < y
       \/ b = x /\ s = y /\ t < z
       \/ b = x /\ s = y /\ t = z /\ u < w)
      <=> Weight(c) < Weight(d) \/ (Weight(c) = Weight(d) /\ u < w)
  <2>1. PICK v, r : v = 100 * b + 10 * s + t /\ r = 100 * x + 10 * y + z
    OBVIOUS
  <2>2. /\ b \in Int /\ s \in Int /\ t \in Int /\ x \in Int /\ y \in Int /\ z \in Int
        /\ 2 <= b /\ b <= 3 /\ 2 <= x /\ x <= 3 /\ 2 <= s /\ s <= 4 /\ 2 <= y /\ y <= 4
        /\ 2 <= t /\ t <= 3 /\ 2 <= z /\ z <= 3
    BY <1>3
  <2>3. v \in Int /\ r \in Int
    BY <2>1, <2>2
  <2>4. /\ b < x => v < r
        /\ b = x /\ s < y => v < r
        /\ b = x /\ s = y /\ t < z => v < r
        /\ b = x /\ s = y /\ t = z => v = r
    BY <2>1, <2>2
  <2>5. /\ x < b => r < v
        /\ b = x /\ y < s => r < v
        /\ b = x /\ s = y /\ z < t => r < v
    BY <2>1, <2>2
  <2>6. b < x \/ x < b \/ b = x
    BY <2>2
  <2>7. s < y \/ y < s \/ s = y
    BY <2>2
  <2>8. t < z \/ z < t \/ t = z
    BY <2>2
  <2>9. v = Weight(c) /\ r = Weight(d)
    BY <1>6, <2>1
  <2>10. (v < r \/ (v = r /\ u < w)) <=>
           \/ b < x
           \/ b = x /\ s < y
           \/ b = x /\ s = y /\ t < z
           \/ b = x /\ s = y /\ t = z /\ u < w
    BY <2>2, <2>3, <2>4, <2>5, <2>6, <2>7, <2>8
  <2> QED BY <2>9, <2>10
<1> QED BY <1>1, <1>2, <1>3, <1>5, <1>7, <1>8

LEMMA BeforeIsAnOrder ==
  ASSUME NEW c, NEW d, IsCandidate(c), IsCandidate(d)
  PROVE  /\ ~ RankedBefore(c, c)
         /\ ~ (RankedBefore(c, d) /\ RankedBefore(d, c))
         /\ c.target # d.target => RankedBefore(c, d) \/ RankedBefore(d, c)
<1>1. PICK x, y, p, q : x = Weight(c) /\ y = Weight(d) /\ p = c.target /\ q = d.target
  OBVIOUS
<1>2. x \in Nat /\ y \in Nat /\ p \in Nat /\ q \in Nat
  BY <1>1, BeforeByWeight
<1>3. /\ RankedBefore(c, c) <=> x < x \/ (x = x /\ p < p)
      /\ RankedBefore(c, d) <=> x < y \/ (x = y /\ p < q)
      /\ RankedBefore(d, c) <=> y < x \/ (y = x /\ q < p)
  BY <1>1, BeforeByWeight
<1> QED BY <1>1, <1>2, <1>3

\* Of some candidates of different targets one comes first.
LEMMA OneIsForemost ==
  ASSUME NEW R, R # {}, \A c \in R : IsCandidate(c),
         \A c, d \in R : c.target = d.target => c = d
  PROVE  \E c \in R : \A d \in R : d = c \/ RankedBefore(c, d)
<1> DEFINE weights == {Weight(c) : c \in R}
<1>1. weights \in SUBSET Nat /\ weights # {}
  BY BeforeByWeight
<1>2. PICK w : w \in weights /\ \A x \in weights : w <= x
  <2> HIDE DEF weights
  <2> QED BY <1>1, LeastNumber
<1> DEFINE targets == {d.target : d \in {e \in R : Weight(e) = w}}
<1>3. targets \in SUBSET Nat /\ targets # {}
  BY <1>2, BeforeByWeight
<1>4. PICK t : t \in targets /\ \A x \in targets : t <= x
  <2> HIDE DEF targets
  <2> QED BY <1>3, LeastNumber
<1>5. PICK c \in R : Weight(c) = w /\ c.target = t
  BY <1>4
<1>6. ASSUME NEW d \in R PROVE d = c \/ RankedBefore(c, d)
  <2>1. PICK y, u : y = Weight(d) /\ u = d.target
    OBVIOUS
  <2>2. w \in Nat /\ y \in Nat /\ t \in Nat /\ u \in Nat
    BY <1>5, <2>1, BeforeByWeight
  <2>3. RankedBefore(c, d) <=> w < y \/ (w = y /\ t < u)
    BY <1>5, <2>1, BeforeByWeight
  <2>4. w <= y /\ (y = w => t <= u)
    BY <1>2, <1>4, <2>1
  <2>5. u = t => d = c
    BY <1>5, <2>1
  <2> QED BY <2>2, <2>3, <2>4, <2>5
<1> QED BY <1>6

\* One candidate is taken for each target, on its strongest evidence.
LEMMA StrongestFacts ==
  ASSUME NEW cs, cs \in Seq(Range(cs)), \A k \in DOMAIN cs : IsCandidate(cs[k])
  PROVE  /\ \A c \in RankedCandidates(cs) : \E k \in DOMAIN cs : c = cs[k]
         /\ \A c, d \in RankedCandidates(cs) : c.target = d.target => c = d
         /\ \A j \in DOMAIN cs : \E c \in RankedCandidates(cs) : c.target = cs[j].target
         /\ \A c \in RankedCandidates(cs), j \in DOMAIN cs :
              cs[j].target = c.target => StrengthRank(c) <= StrengthRank(cs[j])
<1>1. DOMAIN cs \in SUBSET Nat /\ \A k \in DOMAIN cs : StrengthRank(cs[k]) \in Nat
  BY PlacesOfCandidates
<1>2. \A c \in RankedCandidates(cs) : \E k \in Strongest(cs) : k \in DOMAIN cs /\ c = cs[k]
  BY DEF RankedCandidates, Strongest
<1>3. ASSUME NEW c \in RankedCandidates(cs), NEW d \in RankedCandidates(cs), c.target = d.target
      PROVE  c = d
  <2>1. PICK j \in Strongest(cs) : j \in DOMAIN cs /\ c = cs[j]
    BY <1>2
  <2>2. PICK k \in Strongest(cs) : k \in DOMAIN cs /\ d = cs[k]
    BY <1>2
  <2>3. PICK x, y : x = StrengthRank(cs[j]) /\ y = StrengthRank(cs[k])
    OBVIOUS
  <2>4. (x < y \/ (x = y /\ j <= k)) /\ (y < x \/ (y = x /\ k <= j))
    <3>1. cs[j].target = cs[k].target
      BY <1>3, <2>1, <2>2
    <3>2. StrengthRank(cs[j]) < StrengthRank(cs[k]) \/ (StrengthRank(cs[j]) = StrengthRank(cs[k]) /\ j <= k)
      BY <2>1, <2>2, <3>1 DEF Strongest
    <3>3. StrengthRank(cs[k]) < StrengthRank(cs[j]) \/ (StrengthRank(cs[k]) = StrengthRank(cs[j]) /\ k <= j)
      BY <2>1, <2>2, <3>1 DEF Strongest
    <3> QED BY <2>3, <3>2, <3>3
  <2>5. x \in Nat /\ y \in Nat /\ j \in Nat /\ k \in Nat
    BY <1>1, <2>1, <2>2, <2>3
  <2>6. j = k
    BY <2>4, <2>5
  <2> QED BY <2>1, <2>2, <2>6
<1>4. ASSUME NEW j \in DOMAIN cs PROVE \E c \in RankedCandidates(cs) : c.target = cs[j].target
  <2> DEFINE same == {k \in DOMAIN cs : cs[k].target = cs[j].target}
             strengths == {StrengthRank(cs[k]) : k \in same}
  <2>1. strengths \in SUBSET Nat /\ strengths # {}
    BY <1>1
  <2>2. PICK s : s \in strengths /\ \A x \in strengths : s <= x
    <3> HIDE DEF strengths
    <3> QED BY <2>1, LeastNumber
  <2> DEFINE best == {k \in same : StrengthRank(cs[k]) = s}
  <2>3. best \in SUBSET Nat /\ best # {}
    BY <1>1, <2>2
  <2>4. PICK b : b \in best /\ \A x \in best : b <= x
    <3> HIDE DEF best
    <3> QED BY <2>3, LeastNumber
  <2>5. ASSUME NEW k \in DOMAIN cs, cs[k].target = cs[b].target
        PROVE  s < StrengthRank(cs[k]) \/ (s = StrengthRank(cs[k]) /\ b <= k)
    <3>1. k \in same /\ StrengthRank(cs[k]) \in strengths
      BY <2>4, <2>5
    <3>2. StrengthRank(cs[k]) \in Nat /\ s \in Nat /\ s <= StrengthRank(cs[k])
      BY <1>1, <2>1, <2>2, <3>1
    <3>3. s = StrengthRank(cs[k]) => b <= k
      BY <2>4, <3>1
    <3> QED BY <3>2, <3>3
  <2>6. b \in Strongest(cs)
    BY <2>4, <2>5 DEF Strongest
  <2> QED BY <2>4, <2>6 DEF RankedCandidates
<1>5. ASSUME NEW c \in RankedCandidates(cs), NEW j \in DOMAIN cs, cs[j].target = c.target
      PROVE  StrengthRank(c) <= StrengthRank(cs[j])
  <2>1. PICK k \in Strongest(cs) : k \in DOMAIN cs /\ c = cs[k]
    BY <1>2
  <2>2. PICK x, y : x = StrengthRank(cs[k]) /\ y = StrengthRank(cs[j])
    OBVIOUS
  <2>3. x < y \/ (x = y /\ k <= j)
    <3>1. cs[j].target = cs[k].target
      BY <1>5, <2>1
    <3>2. StrengthRank(cs[k]) < StrengthRank(cs[j]) \/ (StrengthRank(cs[k]) = StrengthRank(cs[j]) /\ k <= j)
      BY <2>1, <3>1 DEF Strongest
    <3> QED BY <2>2, <3>2
  <2>4. x \in Nat /\ y \in Nat
    BY <1>1, <2>1, <2>2
  <2> QED BY <2>1, <2>2, <2>3, <2>4
<1> QED BY <1>2, <1>3, <1>4, <1>5

LEMMA SequenceWithin ==
  ASSUME NEW S, NEW s, NEW n \in Nat, s = [i \in 1..n |-> s[i]], \A i \in 1..n : s[i] \in S
  PROVE  s \in Seq(S)
BY IsASeq

\* What a resolver finds keeps the invariant.
LEMMA MoreIsFound ==
  ASSUME UniversalInv, report = NoReport, NEW r, NEW n \in Nat, NEW more,
         IsResult(r), more = [k \in 1..n |-> more[k]],
         \A k \in 1..n : IsCandidate(more[k]) /\ more[k].bucket = r.bucket,
         RecordFile(r, more)
  PROVE  UniversalInv'
<1>1. /\ perFile \in Seq(Range(perFile)) /\ candidates \in Seq(Range(candidates))
      /\ \A k \in DOMAIN perFile : IsResult(perFile[k])
      /\ \A k \in DOMAIN candidates :
           /\ IsCandidate(candidates[k])
           /\ \E m \in DOMAIN perFile : perFile[m].bucket = candidates[k].bucket
  BY DEF UniversalInv, FoundInv
<1>2. /\ perFile' = Append(perFile, r) /\ candidates' = candidates \o more
      /\ UNCHANGED <<changed, report>> /\ UNCHANGED <<ranked, kept, suppressed>>
  BY DEF RecordFile, limiterVars
<1>3. more \in Seq(Range(more)) /\ Len(more) = n
  BY RangeOfAnySeq
<1>4. PICK a, b : a = Len(perFile) /\ b = Len(candidates)
  OBVIOUS
<1>5. /\ a \in Nat /\ DOMAIN perFile = 1..a /\ DOMAIN perFile' = 1..a + 1
      /\ perFile'[a + 1] = r /\ \A k \in 1..a : perFile'[k] = perFile[k]
      /\ Len(perFile') = a + 1
  BY <1>1, <1>2, <1>4
<1>6. /\ b \in Nat /\ DOMAIN candidates = 1..b /\ DOMAIN candidates' = 1..b + n
      /\ \A k \in 1..b : candidates'[k] = candidates[k]
      /\ \A k \in 1..n : candidates'[b + k] = more[k]
      /\ Len(candidates') = b + n
  BY <1>1, <1>2, <1>3, <1>4
<1>7. perFile' \in Seq(Range(perFile')) /\ candidates' \in Seq(Range(candidates'))
  <2>1. perFile' = [k \in 1..a + 1 |-> perFile'[k]] /\ a + 1 \in Nat
    <3>1. perFile' \in Seq(Range(perFile) \cup {r})
      <4>1. perFile \in Seq(Range(perFile) \cup {r})
        BY <1>1
      <4> QED BY <1>2, <4>1
    <3> QED BY <1>5, <3>1
  <2>2. candidates' = [k \in 1..b + n |-> candidates'[k]] /\ b + n \in Nat
    <3>1. candidates' \in Seq(Range(candidates) \cup Range(more))
      <4>1. PICK S : S = Range(candidates) \cup Range(more)
        OBVIOUS
      <4>2. candidates \in Seq(S) /\ more \in Seq(S)
        <5>1. Range(candidates) \subseteq S /\ Range(more) \subseteq S
          BY <4>1
        <5>2. (\A k \in 1..b : candidates[k] \in S) /\ \A k \in 1..n : more[k] \in S
          BY <1>3, <1>6, <5>1 DEF Range
        <5>3. candidates = [k \in 1..b |-> candidates[k]]
          BY <1>1, <1>6
        <5>4. candidates \in Seq(S)
          BY <1>6, <5>2, <5>3, SequenceWithin
        <5>5. more \in Seq(S)
          BY <5>2, SequenceWithin
        <5> QED BY <5>4, <5>5
      <4> QED BY <1>2, <4>1, <4>2
    <3> QED BY <1>6, <3>1
  <2> QED BY <2>1, <2>2, RangeOfAnySeq
<1>8. \A k \in DOMAIN perFile' : IsResult(perFile'[k])
  <2> TAKE k \in DOMAIN perFile'
  <2>1. k \in 1..a \/ k = a + 1
    BY <1>5
  <2> QED BY <1>1, <1>5, <2>1
<1>9. ASSUME NEW k \in DOMAIN candidates'
      PROVE  /\ IsCandidate(candidates'[k])
             /\ \E m \in DOMAIN perFile' : perFile'[m].bucket = candidates'[k].bucket
  <2>1. k \in 1..b \/ k - b \in 1..n
    BY <1>6
  <2>2. CASE k \in 1..b
    <3>1. IsCandidate(candidates[k]) /\ \E m \in DOMAIN perFile : perFile[m].bucket = candidates[k].bucket
      BY <1>1, <1>6, <2>2
    <3> QED BY <1>5, <1>6, <2>2, <3>1
  <2>3. CASE k - b \in 1..n
    <3>1. candidates'[k] = more[k - b]
      <4>1. candidates'[b + (k - b)] = more[k - b] /\ b + (k - b) = k
        BY <1>6, <2>3
      <4> QED BY <4>1
    <3>2. a + 1 \in DOMAIN perFile' /\ perFile'[a + 1].bucket = more[k - b].bucket
      BY <1>5, <2>3
    <3> QED BY <2>3, <3>1, <3>2
  <2> QED BY <2>1, <2>2, <2>3
<1>10. FoundInv'
  <2>1. report' = NoReport /\ (changed' = <<>> \/ changed' \in ChangeSets)
    BY <1>2 DEF UniversalInv, FoundInv
  <2> QED BY <1>7, <1>8, <1>9, <2>1 DEF FoundInv
<1>11. JudgedInv'
  BY <1>2 DEF UniversalInv, JudgedInv, Judgement
<1>12. CapsInv'
  BY <1>2 DEF UniversalInv, CapsInv, InGroup, InBucket, Dropped, Rest
<1> QED BY <1>10, <1>11, <1>12 DEF UniversalInv

\* The next file is one of those that the SDK and the tests were read for.
LEMMA CurrentFacts ==
  ASSUME UniversalInv, Pending
  PROVE  /\ Current.tests \in Seq(Range(Current.tests))
         /\ \A k \in DOMAIN Current.tests : Current.tests[k].target \in Nat
         /\ \A n \in 0..Len(Current.tests) :
              /\ SubSeq(Current.tests, 1, n) = [k \in 1..n |-> SubSeq(Current.tests, 1, n)[k]]
              /\ \A k \in 1..n : SubSeq(Current.tests, 1, n)[k] = Current.tests[k]
              /\ DOMAIN SubSeq(Current.tests, 1, n) = 1..n
<1>1. perFile \in Seq(Range(perFile)) /\ Len(perFile) \in Nat /\ Len(perFile) < Len(changed)
  BY DEF UniversalInv, FoundInv, Pending
<1>2. changed # <<>>
  BY <1>1
<1>3. changed \in ChangeSets
  BY <1>2 DEF UniversalInv, FoundInv
<1>4. changed \in Seq(Range(changed))
  BY <1>3, LimitsAssumption
<1>5. Len(perFile) + 1 \in DOMAIN changed
  BY <1>1, <1>4
<1>6. /\ Current.tests \in Seq(Range(Current.tests))
      /\ \A k \in DOMAIN Current.tests : Current.tests[k].target \in Nat
  BY <1>3, <1>5, LimitsAssumption DEF Current
<1>7. PICK tests : tests = Current.tests
  OBVIOUS
<1>8. ASSUME NEW n \in 0..Len(tests)
      PROVE  /\ SubSeq(tests, 1, n) = [k \in 1..n |-> SubSeq(tests, 1, n)[k]]
             /\ \A k \in 1..n : SubSeq(tests, 1, n)[k] = tests[k]
             /\ DOMAIN SubSeq(tests, 1, n) = 1..n
  BY <1>6, <1>7
<1> QED BY <1>6, <1>7, <1>8

LEMMA ResolveTopicKeeps == UniversalInv /\ ResolveTopic => UniversalInv'
<1> SUFFICES ASSUME UniversalInv, ResolveTopic PROVE UniversalInv'
  OBVIOUS
<1>1. Pending /\ report = NoReport
  BY DEF ResolveTopic, Pending
<1> DEFINE T(n) == Scanned(Current, n)
           B(n) == TopicBucket(Current, T(n))
<1>a. PICK n \in 0..Len(Current.tests) :
        RecordFile(Result(Current, B(n), Current.layer, Current.routed, FALSE),
                   [k \in DOMAIN T(n) |-> TopicCandidate(Current, B(n), T(n)[k])])
  BY DEF ResolveTopic
<1>b. PICK tests, bucket : tests = T(n) /\ bucket = B(n)
  OBVIOUS
<1>c. PICK r, more : /\ r = Result(Current, bucket, Current.layer, Current.routed, FALSE)
                     /\ more = [k \in DOMAIN tests |-> TopicCandidate(Current, bucket, tests[k])]
  OBVIOUS
<1>2. /\ tests = Scanned(Current, n) /\ bucket = TopicBucket(Current, tests)
      /\ r = Result(Current, bucket, Current.layer, Current.routed, FALSE)
      /\ more = [k \in DOMAIN tests |-> TopicCandidate(Current, bucket, tests[k])]
      /\ RecordFile(r, more)
  BY <1>a, <1>b, <1>c
<1>3. PICK m : m \in Nat /\ DOMAIN tests = 1..m /\ (m > 0 => Current.routed)
               /\ \A k \in 1..m : tests[k].target \in Nat
  <2>1. CASE Current.routed /\ Current.named
    <3>1. tests = SubSeq(Current.tests, 1, n)
      BY <1>2, <2>1 DEF Scanned
    <3>2. n \in Nat /\ \A k \in 1..n : k \in DOMAIN Current.tests
      BY <1>1, CurrentFacts
    <3>3. DOMAIN tests = 1..n /\ \A k \in 1..n : tests[k].target \in Nat
      BY <1>1, <3>1, <3>2, CurrentFacts
    <3> QED BY <2>1, <3>2, <3>3
  <2>2. CASE ~ (Current.routed /\ Current.named)
    <3>1. tests = <<>>
      BY <1>2, <2>2 DEF Scanned
    <3>2. DOMAIN tests = 1..0 /\ 0 \in Nat /\ ~ (0 > 0) /\ 1..0 = {}
      BY <3>1
    <3> QED BY <3>2
  <2> QED BY <2>1, <2>2
<1>4. IsResult(r) /\ r.bucket = bucket /\ bucket \in {"unresolved", "possible", "recommended"}
  BY <1>2 DEF Result, IsResult, TopicBucket
<1>5. m > 0 => bucket \in {"possible", "recommended"}
  BY <1>2, <1>3 DEF TopicBucket
<1>6. ASSUME NEW k \in 1..m PROVE IsCandidate(more[k]) /\ more[k].bucket = r.bucket
  <2>1. PICK c : c = TopicCandidate(Current, bucket, tests[k])
    OBVIOUS
  <2>2. more[k] = c /\ m > 0 /\ tests[k].target \in Nat
    BY <1>2, <1>3, <2>1
  <2>3. /\ c.target = tests[k].target /\ c.bucket = bucket
        /\ c.source \in {"direct_xts_usage", "infra_profile"} /\ c.strength \in {"medium", "weak"}
    BY <2>1 DEF TopicCandidate
  <2> QED BY <1>4, <1>5, <2>2, <2>3 DEF IsCandidate
<1>7. m \in Nat /\ more = [k \in 1..m |-> more[k]]
  BY <1>2, <1>3
<1>8. IsResult(r) /\ RecordFile(r, more)
  BY <1>2, <1>4
<1> HIDE DEF T, B
<1> QED BY <1>1, <1>6, <1>7, <1>8, MoreIsFound

LEMMA ResolveProfileKeeps == UniversalInv /\ ResolveProfile => UniversalInv'
<1> SUFFICES ASSUME UniversalInv, ResolveProfile PROVE UniversalInv'
  OBVIOUS
<1>1. Pending /\ report = NoReport
  BY DEF ResolveProfile, Pending
<1> DEFINE T(n) == Discovered(Current, n)
           B(n) == ProfileBucket(Current, T(n))
<1>a. PICK n \in 0..Len(Current.tests) :
        RecordFile(Result(Current, B(n), Current.layer, FALSE, TRUE),
                   [k \in DOMAIN T(n) |-> ProfileCandidate(Current, B(n), T(n)[k])])
  BY DEF ResolveProfile
<1>b. PICK tests, bucket : tests = T(n) /\ bucket = B(n)
  OBVIOUS
<1>c. PICK r, more : /\ r = Result(Current, bucket, Current.layer, FALSE, TRUE)
                     /\ more = [k \in DOMAIN tests |-> ProfileCandidate(Current, bucket, tests[k])]
  OBVIOUS
<1>2. /\ tests = Discovered(Current, n) /\ bucket = ProfileBucket(Current, tests)
      /\ r = Result(Current, bucket, Current.layer, FALSE, TRUE)
      /\ more = [k \in DOMAIN tests |-> ProfileCandidate(Current, bucket, tests[k])]
      /\ RecordFile(r, more)
  BY <1>a, <1>b, <1>c
<1>3. PICK m : m \in Nat /\ DOMAIN tests = 1..m /\ (m > 0 => Current.profile # NoProfile)
               /\ \A k \in 1..m : tests[k].target \in Nat
  <2>1. CASE Current.profile # NoProfile
    <3>1. tests = SubSeq(Current.tests, 1, n)
      BY <1>2, <2>1 DEF Discovered
    <3>2. n \in Nat /\ \A k \in 1..n : k \in DOMAIN Current.tests
      BY <1>1, CurrentFacts
    <3>3. DOMAIN tests = 1..n /\ \A k \in 1..n : tests[k].target \in Nat
      BY <1>1, <3>1, <3>2, CurrentFacts
    <3> QED BY <2>1, <3>2, <3>3
  <2>2. CASE Current.profile = NoProfile
    <3>1. tests = <<>>
      BY <1>2, <2>2 DEF Discovered
    <3>2. DOMAIN tests = 1..0 /\ 0 \in Nat /\ ~ (0 > 0) /\ 1..0 = {}
      BY <3>1
    <3> QED BY <3>2
  <2> QED BY <2>1, <2>2
<1>4. IsResult(r) /\ r.bucket = bucket /\ bucket \in {"unresolved", "possible", "recommended"}
  BY <1>2 DEF Result, IsResult, ProfileBucket
<1>5. m > 0 => bucket \in {"possible", "recommended"}
  BY <1>2, <1>3 DEF ProfileBucket
<1>6. ASSUME NEW k \in 1..m PROVE IsCandidate(more[k]) /\ more[k].bucket = r.bucket
  <2>1. PICK c : c = ProfileCandidate(Current, bucket, tests[k])
    OBVIOUS
  <2>2. more[k] = c /\ m > 0 /\ tests[k].target \in Nat
    BY <1>2, <1>3, <2>1
  <2>3. /\ c.target = tests[k].target /\ c.bucket = bucket
        /\ c.source \in {"direct_xts_usage", "infra_profile"} /\ c.strength \in {"medium", "weak"}
    BY <2>1 DEF ProfileCandidate
  <2> QED BY <1>4, <1>5, <2>2, <2>3 DEF IsCandidate
<1>7. m \in Nat /\ more = [k \in 1..m |-> more[k]]
  BY <1>2, <1>3
<1>8. IsResult(r) /\ RecordFile(r, more)
  BY <1>2, <1>4
<1> HIDE DEF T, B
<1> QED BY <1>1, <1>6, <1>7, <1>8, MoreIsFound

LEMMA NothingFoundKeeps == UniversalInv /\ (ResolveUnknown \/ ResolverFails) => UniversalInv'
<1> SUFFICES ASSUME UniversalInv, ResolveUnknown \/ ResolverFails PROVE UniversalInv'
  OBVIOUS
<1>1. report = NoReport
  BY DEF ResolveUnknown, ResolverFails, Pending
<1>2. PICK layer, r : /\ r = Result(Current, "unresolved", layer, FALSE, FALSE)
                      /\ RecordFile(r, <<>>)
  BY DEF ResolveUnknown, ResolverFails
<1>3. IsResult(r)
  BY <1>2 DEF Result, IsResult
<1>4. <<>> = [k \in 1..0 |-> <<>>[k]]
  OBVIOUS
<1>5. PICK more : more = <<>>
  OBVIOUS
<1>6. more = [k \in 1..0 |-> more[k]] /\ RecordFile(r, more)
  BY <1>2, <1>4, <1>5
<1>7. \A k \in 1..0 : IsCandidate(more[k]) /\ more[k].bucket = r.bucket
  OBVIOUS
<1>8. 0 \in Nat
  OBVIOUS
<1> QED BY <1>1, <1>3, <1>6, <1>7, <1>8, MoreIsFound

\* What is judged next is before all the rest, and after all that was judged.
LEMMA ForemostFacts ==
  ASSUME UniversalInv, ranked # {}
  PROVE  /\ report # NoReport
         /\ Foremost \in ranked /\ IsCandidate(Foremost)
         /\ \A d \in ranked \ {Foremost} : RankedBefore(Foremost, d)
         /\ \A c \in Judgement : IsCandidate(c) /\ RankedBefore(c, Foremost) /\ ~ RankedBefore(Foremost, c)
         /\ Foremost \notin Judgement
         /\ ranked \cup Judgement = RankedCandidates(candidates)
<1>1. /\ report # NoReport
      /\ ranked \cup Judgement = RankedCandidates(candidates)
      /\ \A c \in Judgement, d \in ranked : RankedBefore(c, d)
  BY DEF UniversalInv, JudgedInv
<1>2. candidates \in Seq(Range(candidates)) /\ \A k \in DOMAIN candidates : IsCandidate(candidates[k])
  BY DEF UniversalInv, FoundInv
<1>3. /\ \A c \in RankedCandidates(candidates) : IsCandidate(c)
      /\ \A c, d \in RankedCandidates(candidates) : c.target = d.target => c = d
  BY <1>2, StrongestFacts
<1>4. \E c \in ranked : \A d \in ranked : d = c \/ RankedBefore(c, d)
  BY <1>1, <1>3, OneIsForemost
<1>5. Foremost \in ranked /\ \A d \in ranked : d = Foremost \/ RankedBefore(Foremost, d)
  BY <1>4 DEF Foremost
<1>6. IsCandidate(Foremost) /\ \A c \in Judgement : IsCandidate(c)
  BY <1>1, <1>3, <1>5
<1>7. ASSUME NEW c \in Judgement PROVE RankedBefore(c, Foremost) /\ ~ RankedBefore(Foremost, c) /\ c # Foremost
  <2>1. RankedBefore(c, Foremost)
    BY <1>1, <1>5
  <2> QED BY <1>6, <2>1, BeforeIsAnOrder
<1> QED BY <1>1, <1>5, <1>6, <1>7

LEMMA GroupCapFacts ==
  ASSUME NEW c, NEW d
  PROVE  /\ GroupCap(c) \in Nat /\ TotalCap(c) \in Nat
         /\ Group(c) = Group(d) => GroupCap(c) = GroupCap(d)
         /\ c.bucket = d.bucket => TotalCap(c) = TotalCap(d)
<1>1. GroupCap(c) \in Nat
  BY LimitsAssumption, Zenon DEF GroupCap
<1>2. Group(c) = Group(d) => GroupCap(c) = GroupCap(d)
  BY Zenon DEF GroupCap
<1>3. TotalCap(c) \in Nat
  BY LimitsAssumption DEF TotalCap
<1>4. c.bucket = d.bucket => TotalCap(c) = TotalCap(d)
  BY DEF TotalCap
<1> QED BY <1>1, <1>2, <1>3, <1>4

\* Of the first n numbers and of one more.
LEMMA OneMoreIndex ==
  ASSUME NEW n \in Nat, NEW A \in SUBSET (1..n), NEW B \in SUBSET (1..n + 1),
         \A k \in 1..n : k \in A <=> k \in B
  PROVE  /\ Cardinality(A) \in Nat /\ Cardinality(B) \in Nat
         /\ n + 1 \in B => Cardinality(B) = Cardinality(A) + 1
         /\ n + 1 \notin B => Cardinality(B) = Cardinality(A)
<1>1. IsFiniteSet(A)
  <2>1. IsFiniteSet(1..n)
    <3>1. 1 \in Int /\ n \in Int
      OBVIOUS
    <3> QED BY <3>1, FS_Interval
  <2> QED BY <2>1, FS_Subset
<1>2. Cardinality(A) \in Nat
  BY <1>1, FS_CardinalityType
<1>3. CASE n + 1 \notin B
  <2>1. B = A
    <3>1. \A k \in 1..n + 1 : k \in 1..n \/ k = n + 1
      OBVIOUS
    <3> QED BY <1>3, <3>1
  <2> QED BY <1>2, <1>3, <2>1
<1>4. CASE n + 1 \in B
  <2>1. B = A \cup {n + 1} /\ n + 1 \notin A
    <3>1. \A k \in 1..n + 1 : k \in 1..n \/ k = n + 1
      OBVIOUS
    <3>2. n + 1 \notin 1..n
      OBVIOUS
    <3> QED BY <1>4, <3>1, <3>2
  <2>2. Cardinality(A \cup {n + 1}) = Cardinality(A) + 1
    BY <1>1, <2>1, FS_AddElement
  <2> QED BY <1>2, <1>4, <2>1, <2>2
<1> QED BY <1>3, <1>4

LEMMA LimitKeeps == UniversalInv /\ Limit => UniversalInv'
<1> SUFFICES ASSUME UniversalInv, Limit PROVE UniversalInv'
  OBVIOUS
<1>1. /\ report = NoReport /\ ranked' = RankedCandidates(candidates)
      /\ report' = [level |-> Level, best |-> MaxBucket]
      /\ UNCHANGED <<changed, perFile, candidates, kept, suppressed>>
  BY DEF Limit
<1>2. FoundInv'
  BY <1>1 DEF UniversalInv, FoundInv, Level, MaxBucket
<1>3. Judgement = {} /\ Judgement' = {}
  BY <1>1 DEF UniversalInv, JudgedInv, Judgement
<1>4. report' # NoReport
  <2>1. report'.level # "none"
    BY <1>1 DEF Level
  <2> QED BY <2>1 DEF NoReport
<1>5. JudgedInv'
  BY <1>1, <1>3, <1>4 DEF UniversalInv, JudgedInv
<1>6. CapsInv'
  BY <1>1 DEF UniversalInv, CapsInv, InGroup, InBucket, Dropped, Rest
<1> QED BY <1>2, <1>5, <1>6 DEF UniversalInv

\* The candidate that is judged goes to the end of the one list or of the other.
Lengthened(s, t) ==
  /\ s \in Seq(Range(s)) /\ Len(s) \in Nat /\ DOMAIN s = 1..Len(s)
  /\ t \in Seq(Range(t)) /\ Len(t) = Len(s) + 1 /\ DOMAIN t = 1..Len(s) + 1
  /\ Range(t) = Range(s) \cup {Foremost}
  /\ t[Len(s) + 1] = Foremost /\ \A k \in 1..Len(s) : t[k] = s[k] /\ s[k] \in Judgement
  /\ \A j, k \in DOMAIN t : j < k => RankedBefore(t[j], t[k])

LEMMA NextIsJudged ==
  ASSUME UniversalInv, ranked # {}, NEW s, NEW t, s = kept \/ s = suppressed,
         t = Append(s, Foremost)
  PROVE  Lengthened(s, t)
<1>1. s \in Seq(Range(s)) /\ Range(s) \subseteq Judgement /\ \A j, k \in DOMAIN s : j < k => RankedBefore(s[j], s[k])
  BY DEF UniversalInv, JudgedInv, Judgement
<1>2. PICK n : n = Len(s)
  OBVIOUS
<1>3. PICK F : F = Foremost
  OBVIOUS
<1>4. n \in Nat /\ DOMAIN s = 1..n
  BY <1>1, <1>2
<1>5. t \in Seq(Range(s) \cup {F})
  <2>1. PICK S : S = Range(s) \cup {F}
    OBVIOUS
  <2>2. s \in Seq(S)
    <3>1. s = [k \in 1..n |-> s[k]] /\ \A k \in 1..n : s[k] \in S
      BY <1>1, <1>2, <1>4, <2>1 DEF Range
    <3> QED BY <1>4, <3>1, SequenceWithin
  <2> QED BY <1>3, <2>1, <2>2
<1>6. /\ Len(t) = n + 1 /\ DOMAIN t = 1..n + 1
      /\ t[n + 1] = F /\ \A k \in 1..n : t[k] = s[k]
  BY <1>1, <1>2, <1>3
<1>7. Range(t) = Range(s) \cup {F}
  <2>1. \A k \in 1..n + 1 : k \in 1..n \/ k = n + 1
    BY <1>4
  <2> QED BY <1>4, <1>6, <2>1 DEF Range
<1>8. \A k \in 1..n : s[k] \in Judgement
  BY <1>1, <1>4 DEF Range
<1>9. ASSUME NEW j \in DOMAIN t, NEW k \in DOMAIN t, j < k PROVE RankedBefore(t[j], t[k])
  <2>1. j \in 1..n /\ (k \in 1..n \/ k = n + 1)
    BY <1>4, <1>6, <1>9
  <2>2. t[j] = s[j] /\ s[j] \in Judgement
    BY <1>6, <1>8, <2>1
  <2>3. CASE k \in 1..n
    BY <1>1, <1>4, <1>6, <1>9, <2>1, <2>3
  <2>4. CASE k = n + 1
    BY <1>3, <1>6, <2>2, <2>4, ForemostFacts
  <2> QED BY <2>1, <2>3, <2>4
<1>10. t \in Seq(Range(t))
  BY <1>5, <1>7, <1>3
<1> QED BY <1>1, <1>2, <1>3, <1>4, <1>6, <1>7, <1>8, <1>9, <1>10 DEF Lengthened

LEMMA KeepKeeps ==
  ASSUME UniversalInv, Keep, UNCHANGED <<changed, perFile, candidates, report>>
  PROVE  UniversalInv'
<1>1. PICK F, n : F = Foremost /\ n = Len(kept)
  OBVIOUS
<1>2. /\ ranked # {} /\ ~ NoRoom(F) /\ kept' = Append(kept, F) /\ ranked' = ranked \ {F}
      /\ suppressed' = suppressed
  BY <1>1 DEF Keep
<1>3. /\ report # NoReport /\ F \in ranked /\ IsCandidate(F)
      /\ \A d \in ranked \ {F} : RankedBefore(F, d)
      /\ \A c \in Judgement : IsCandidate(c) /\ RankedBefore(c, F) /\ ~ RankedBefore(F, c)
      /\ F \notin Judgement
      /\ ranked \cup Judgement = RankedCandidates(candidates)
  BY <1>1, <1>2, ForemostFacts
<1>4. /\ n \in Nat /\ DOMAIN kept = 1..n
      /\ kept' \in Seq(Range(kept')) /\ DOMAIN kept' = 1..n + 1
      /\ Range(kept') = Range(kept) \cup {F}
      /\ kept'[n + 1] = F /\ \A k \in 1..n : kept'[k] = kept[k] /\ kept[k] \in Judgement
      /\ \A j, k \in DOMAIN kept' : j < k => RankedBefore(kept'[j], kept'[k])
  <2>1. PICK s, t : s = kept /\ t = kept'
    OBVIOUS
  <2>2. (s = kept \/ s = suppressed) /\ t = Append(s, Foremost)
    BY <1>1, <1>2, <2>1
  <2>3. ranked # {}
    BY <1>2
  <2>4. \A x, y : (x = kept \/ x = suppressed) /\ y = Append(x, Foremost) => Lengthened(x, y)
    BY <2>3, NextIsJudged
  <2>5. Lengthened(s, t)
    BY <2>2, <2>4
  <2> QED BY <1>1, <2>1, <2>5 DEF Lengthened
<1>5. FoundInv'
  <2>1. changed' = changed /\ perFile' = perFile /\ candidates' = candidates /\ report' = report
    OBVIOUS
  <2>2. Level' = Level /\ MaxBucket' = MaxBucket
    BY <2>1 DEF Level, MaxBucket
  <2> QED BY <2>1, <2>2 DEF UniversalInv, FoundInv
<1>6. Judgement' = Judgement \cup {F}
  BY <1>2, <1>4 DEF Judgement
<1>7. JudgedInv'
  <2>1. /\ suppressed \in Seq(Range(suppressed)) /\ Range(kept) \cap Range(suppressed) = {}
        /\ \A c \in Judgement, d \in ranked : RankedBefore(c, d)
        /\ \A j, k \in DOMAIN suppressed : j < k => RankedBefore(suppressed[j], suppressed[k])
    BY DEF UniversalInv, JudgedInv
  <2>2. Range(kept') \cap Range(suppressed') = {}
    BY <1>2, <1>3, <1>4, <2>1 DEF Judgement
  <2>3. ranked' \cup Judgement' = RankedCandidates(candidates')
    BY <1>2, <1>3, <1>6
  <2>4. \A c \in Judgement', d \in ranked' : RankedBefore(c, d)
    BY <1>2, <1>3, <1>6, <2>1
  <2> QED BY <1>2, <1>3, <1>4, <2>1, <2>2, <2>3, <2>4 DEF JudgedInv
<1>8. ASSUME NEW k \in DOMAIN kept'
      PROVE  InGroup(kept[k])' <= GroupCap(kept'[k]) /\ InBucket(kept[k])' <= TotalCap(kept'[k])
  <2>1. PICK c : c = kept'[k]
    OBVIOUS
  <2> DEFINE A == {j \in DOMAIN kept : Group(kept[j]) = Group(c)}
             B == {j \in DOMAIN kept' : Group(kept'[j]) = Group(c)}
             C == {j \in DOMAIN kept : kept[j].bucket = c.bucket}
             D == {j \in DOMAIN kept' : kept'[j].bucket = c.bucket}
  <2>2. InGroup(kept[k])' = Cardinality(B) /\ InBucket(kept[k])' = Cardinality(D)
    BY <2>1 DEF InGroup, InBucket
  <2>3. /\ A \in SUBSET (1..n) /\ B \in SUBSET (1..n + 1) /\ C \in SUBSET (1..n) /\ D \in SUBSET (1..n + 1)
        /\ \A j \in 1..n : (j \in A <=> j \in B) /\ (j \in C <=> j \in D)
        /\ n + 1 \in B <=> Group(F) = Group(c)
        /\ n + 1 \in D <=> F.bucket = c.bucket
    <3>1. \A j \in 1..n : j \in 1..n + 1
      BY <1>4
    <3>2. n + 1 \in 1..n + 1
      BY <1>4
    <3> QED BY <1>4, <3>1, <3>2
  <2>4. /\ Cardinality(A) \in Nat /\ Cardinality(B) \in Nat
        /\ n + 1 \in B => Cardinality(B) = Cardinality(A) + 1
        /\ n + 1 \notin B => Cardinality(B) = Cardinality(A)
    <3> HIDE DEF A, B
    <3> QED BY <1>4, <2>3, OneMoreIndex
  <2>5. /\ Cardinality(C) \in Nat /\ Cardinality(D) \in Nat
        /\ n + 1 \in D => Cardinality(D) = Cardinality(C) + 1
        /\ n + 1 \notin D => Cardinality(D) = Cardinality(C)
    <3> HIDE DEF C, D
    <3> QED BY <1>4, <2>3, OneMoreIndex
  <2>6. k \in 1..n \/ k = n + 1
    BY <1>4
  <2>7. Capped(F)
    BY <1>3 DEF Capped, IsCandidate
  <2>8. Cardinality(B) <= GroupCap(c)
    <3>1. CASE Group(F) = Group(c)
      <4>1. InGroup(F) = Cardinality(A) /\ GroupCap(F) = GroupCap(c) /\ GroupCap(c) \in Nat
        BY <3>1, GroupCapFacts DEF InGroup
      <4>2. ~ (InGroup(F) >= GroupCap(F))
        BY <1>2, <2>7 DEF NoRoom
      <4> HIDE DEF A, B
      <4> QED BY <2>3, <2>4, <3>1, <4>1, <4>2
    <3>2. CASE Group(F) # Group(c)
      <4>1. k \in DOMAIN kept /\ c = kept[k]
        BY <1>4, <2>1, <2>6, <3>2
      <4>2. InGroup(kept[k]) <= GroupCap(kept[k])
        BY <4>1 DEF UniversalInv, CapsInv
      <4>3. InGroup(kept[k]) = Cardinality(A)
        BY <4>1 DEF InGroup
      <4> HIDE DEF A, B
      <4> QED BY <2>3, <2>4, <3>2, <4>1, <4>2, <4>3
    <3> QED BY <3>1, <3>2
  <2>9. Cardinality(D) <= TotalCap(c)
    <3>1. CASE F.bucket = c.bucket
      <4>1. InBucket(F) = Cardinality(C) /\ TotalCap(F) = TotalCap(c) /\ TotalCap(c) \in Nat
        BY <3>1, GroupCapFacts DEF InBucket
      <4>2. ~ (InBucket(F) >= TotalCap(F))
        BY <1>2, <2>7 DEF NoRoom
      <4> HIDE DEF C, D
      <4> QED BY <2>3, <2>5, <3>1, <4>1, <4>2
    <3>2. CASE F.bucket # c.bucket
      <4>1. k \in DOMAIN kept /\ c = kept[k]
        BY <1>4, <2>1, <2>6, <3>2
      <4>2. InBucket(kept[k]) <= TotalCap(kept[k])
        BY <4>1 DEF UniversalInv, CapsInv
      <4>3. InBucket(kept[k]) = Cardinality(C)
        BY <4>1 DEF InBucket
      <4> HIDE DEF C, D
      <4> QED BY <2>3, <2>5, <3>2, <4>1, <4>2, <4>3
    <3> QED BY <3>1, <3>2
  <2> QED BY <2>1, <2>2, <2>8, <2>9
<1>9. ASSUME NEW k \in DOMAIN suppressed' PROVE Dropped(suppressed[k])'
  <2>1. PICK c : c = suppressed[k]
    OBVIOUS
  <2>2. suppressed'[k] = c /\ k \in DOMAIN suppressed /\ Dropped(c) /\ c \in Judgement
    BY <1>2, <2>1 DEF UniversalInv, CapsInv, Judgement, Range
  <2>3. {j \in DOMAIN kept' : RankedBefore(kept'[j], c)} = Rest(c)
    <3>1. ~ RankedBefore(kept'[n + 1], c)
      BY <1>3, <1>4, <2>2
    <3>2. \A j \in 1..n + 1 : j \in 1..n \/ j = n + 1
      BY <1>4
    <3>3. \A j \in 1..n : j \in 1..n + 1
      BY <1>4
    <3> QED BY <1>4, <3>1, <3>2, <3>3 DEF Rest
  <2>4. \A j \in Rest(c) : kept'[j] = kept[j]
    BY <1>4 DEF Rest
  <2>5. /\ {j \in Rest(c) : Group(kept'[j]) = Group(c)} = {j \in Rest(c) : Group(kept[j]) = Group(c)}
        /\ {j \in Rest(c) : kept'[j].bucket = c.bucket} = {j \in Rest(c) : kept[j].bucket = c.bucket}
    BY <2>4
  <2>6. \/ Cardinality({j \in Rest(c) : Group(kept'[j]) = Group(c)}) = GroupCap(c)
        \/ Cardinality({j \in Rest(c) : kept'[j].bucket = c.bucket}) = TotalCap(c)
    BY <2>2, <2>5 DEF Dropped
  <2>7. Rest(suppressed[k])' = Rest(c)
    BY <2>2, <2>3 DEF Rest
  <2> QED BY <2>2, <2>6, <2>7 DEF Dropped
<1>10. CapsInv'
  BY <1>8, <1>9 DEF CapsInv
<1> QED BY <1>5, <1>7, <1>10 DEF UniversalInv

LEMMA SuppressKeeps ==
  ASSUME UniversalInv, Suppress, UNCHANGED <<changed, perFile, candidates, report>>
  PROVE  UniversalInv'
<1>1. PICK F, n : F = Foremost /\ n = Len(suppressed)
  OBVIOUS
<1>2. /\ ranked # {} /\ NoRoom(F) /\ suppressed' = Append(suppressed, F) /\ ranked' = ranked \ {F}
      /\ kept' = kept
  BY <1>1 DEF Suppress
<1>3. /\ report # NoReport /\ F \in ranked /\ IsCandidate(F)
      /\ \A d \in ranked \ {F} : RankedBefore(F, d)
      /\ \A c \in Judgement : IsCandidate(c) /\ RankedBefore(c, F) /\ ~ RankedBefore(F, c)
      /\ F \notin Judgement
      /\ ranked \cup Judgement = RankedCandidates(candidates)
  BY <1>1, <1>2, ForemostFacts
<1>4. /\ n \in Nat /\ DOMAIN suppressed = 1..n
      /\ suppressed' \in Seq(Range(suppressed')) /\ DOMAIN suppressed' = 1..n + 1
      /\ Range(suppressed') = Range(suppressed) \cup {F}
      /\ suppressed'[n + 1] = F /\ \A k \in 1..n : suppressed'[k] = suppressed[k]
      /\ \A j, k \in DOMAIN suppressed' : j < k => RankedBefore(suppressed'[j], suppressed'[k])
  <2>1. PICK s, t : s = suppressed /\ t = suppressed'
    OBVIOUS
  <2>2. (s = kept \/ s = suppressed) /\ t = Append(s, Foremost)
    BY <1>1, <1>2, <2>1
  <2>3. ranked # {}
    BY <1>2
  <2>4. \A x, y : (x = kept \/ x = suppressed) /\ y = Append(x, Foremost) => Lengthened(x, y)
    BY <2>3, NextIsJudged
  <2>5. Lengthened(s, t)
    BY <2>2, <2>4
  <2> QED BY <1>1, <2>1, <2>5 DEF Lengthened
<1>5. FoundInv'
  <2>1. changed' = changed /\ perFile' = perFile /\ candidates' = candidates /\ report' = report
    OBVIOUS
  <2>2. Level' = Level /\ MaxBucket' = MaxBucket
    BY <2>1 DEF Level, MaxBucket
  <2> QED BY <2>1, <2>2 DEF UniversalInv, FoundInv
<1>6. Judgement' = Judgement \cup {F}
  BY <1>2, <1>4 DEF Judgement
<1>7. JudgedInv'
  <2>1. /\ kept \in Seq(Range(kept)) /\ Range(kept) \cap Range(suppressed) = {}
        /\ \A c \in Judgement, d \in ranked : RankedBefore(c, d)
        /\ \A j, k \in DOMAIN kept : j < k => RankedBefore(kept[j], kept[k])
    BY DEF UniversalInv, JudgedInv
  <2>2. Range(kept') \cap Range(suppressed') = {}
    BY <1>2, <1>3, <1>4, <2>1 DEF Judgement
  <2>3. ranked' \cup Judgement' = RankedCandidates(candidates')
    BY <1>2, <1>3, <1>6
  <2>4. \A c \in Judgement', d \in ranked' : RankedBefore(c, d)
    BY <1>2, <1>3, <1>6, <2>1
  <2> QED BY <1>2, <1>3, <1>4, <2>1, <2>2, <2>3, <2>4 DEF JudgedInv
<1>8. Rest(F) = DOMAIN kept
  <2>1. \A k \in DOMAIN kept : kept[k] \in Judgement
    BY DEF Judgement, Range
  <2> QED BY <1>3, <2>1 DEF Rest
\* Its group or its bucket is exactly full: no kept one of either is over the cap.
<1>9. Dropped(F)
  <2> DEFINE A == {j \in DOMAIN kept : Group(kept[j]) = Group(F)}
             C == {j \in DOMAIN kept : kept[j].bucket = F.bucket}
  <2>1. PICK m : m \in Nat /\ DOMAIN kept = 1..m
    BY DEF UniversalInv, JudgedInv
  <2>2. A \in SUBSET (1..m) /\ C \in SUBSET (1..m)
    BY <2>1
  <2>3. Cardinality(A) \in Nat /\ Cardinality(C) \in Nat /\ IsFiniteSet(A) /\ IsFiniteSet(C)
    <3>1. IsFiniteSet(1..m)
      <4>1. 1 \in Int /\ m \in Int
        BY <2>1
      <4> QED BY <4>1, FS_Interval
    <3> HIDE DEF A, C
    <3> QED BY <2>2, <3>1, FS_Subset, FS_CardinalityType
  <2>4. GroupCap(F) \in Nat /\ TotalCap(F) \in Nat
    BY GroupCapFacts
  <2>5. Cardinality(A) <= GroupCap(F)
    <3>1. CASE A = {}
      <4>1. Cardinality(A) = 0
        BY <3>1, FS_EmptySet
      <4> HIDE DEF A
      <4> QED BY <2>4, <4>1
    <3>2. CASE A # {}
      <4>1. PICK k \in DOMAIN kept : Group(kept[k]) = Group(F)
        BY <3>2
      <4>2. InGroup(kept[k]) <= GroupCap(kept[k])
        BY DEF UniversalInv, CapsInv
      <4>3. InGroup(kept[k]) = Cardinality(A)
        BY <4>1 DEF InGroup
      <4>4. GroupCap(kept[k]) = GroupCap(F)
        BY <4>1, GroupCapFacts
      <4> HIDE DEF A
      <4> QED BY <4>2, <4>3, <4>4
    <3> QED BY <3>1, <3>2
  <2>6. Cardinality(C) <= TotalCap(F)
    <3>1. CASE C = {}
      <4>1. Cardinality(C) = 0
        BY <3>1, FS_EmptySet
      <4> HIDE DEF C
      <4> QED BY <2>4, <4>1
    <3>2. CASE C # {}
      <4>1. PICK k \in DOMAIN kept : kept[k].bucket = F.bucket
        BY <3>2
      <4>2. InBucket(kept[k]) <= TotalCap(kept[k])
        BY DEF UniversalInv, CapsInv
      <4>3. InBucket(kept[k]) = Cardinality(C)
        BY <4>1 DEF InBucket
      <4>4. TotalCap(kept[k]) = TotalCap(F)
        BY <4>1, GroupCapFacts
      <4> HIDE DEF C
      <4> QED BY <4>2, <4>3, <4>4
    <3> QED BY <3>1, <3>2
  <2>7. Cardinality(A) >= GroupCap(F) \/ Cardinality(C) >= TotalCap(F)
    BY <1>2 DEF NoRoom, InGroup, InBucket
  <2>8. Cardinality(A) = GroupCap(F) \/ Cardinality(C) = TotalCap(F)
    <3> HIDE DEF A, C
    <3> QED BY <2>3, <2>4, <2>5, <2>6, <2>7
  <2> QED BY <1>8, <2>8 DEF Dropped
<1>10. ASSUME NEW k \in DOMAIN suppressed' PROVE Dropped(suppressed[k])'
  <2>1. PICK c : c = suppressed'[k]
    OBVIOUS
  <2>2. k \in 1..n \/ k = n + 1
    BY <1>4
  <2>3. Dropped(c)
    <3>1. CASE k \in 1..n
      BY <1>4, <2>1, <3>1 DEF UniversalInv, CapsInv
    <3>2. CASE k = n + 1
      BY <1>4, <1>9, <2>1, <3>2
    <3> QED BY <2>2, <3>1, <3>2
  <2>4. Rest(suppressed[k])' = Rest(c)
    BY <1>2, <2>1 DEF Rest
  <2> QED BY <1>2, <2>1, <2>3, <2>4 DEF Dropped
<1>11. \A k \in DOMAIN kept' : InGroup(kept[k])' <= GroupCap(kept'[k]) /\ InBucket(kept[k])' <= TotalCap(kept'[k])
  BY <1>2 DEF UniversalInv, CapsInv, InGroup, InBucket
<1>12. CapsInv'
  BY <1>10, <1>11 DEF CapsInv
<1> QED BY <1>5, <1>7, <1>12 DEF UniversalInv

\* The first state, and the ways that leave the changed files alone.
LEMMA UniversalInitial == SelectingInit => UniversalInv
<1> SUFFICES ASSUME SelectingInit PROVE UniversalInv
  OBVIOUS
<1>1. /\ changed = <<>> \/ changed \in ChangeSets
      /\ perFile = <<>> /\ candidates = <<>> /\ report = NoReport /\ ranked = {}
      /\ kept = <<>> /\ suppressed = <<>>
  BY DEF SelectingInit, NoUniversalQuery, UniversalInit, LimiterInit
<1>2. <<>> \in Seq(Range(<<>>)) /\ DOMAIN <<>> = {} /\ Range(<<>>) = {}
  BY DEF Range
<1>3. FoundInv
  BY <1>1, <1>2 DEF FoundInv
<1>4. JudgedInv
  BY <1>1, <1>2 DEF JudgedInv, Judgement
<1>5. CapsInv
  BY <1>1, <1>2 DEF CapsInv
<1> QED BY <1>3, <1>4, <1>5 DEF UniversalInv

LEMMA OnlyUniversal == UniversalInv /\ [SelectingNext]_selectingVars => UniversalInv'
<1> SUFFICES ASSUME UniversalInv, [SelectingNext]_selectingVars PROVE UniversalInv'
  OBVIOUS
<1>1. CASE Universal
  <2>1. UniversalNext
    BY <1>1 DEF Universal
  <2> QED
    BY <2>1, ResolveTopicKeeps, ResolveProfileKeeps, NothingFoundKeeps, LimitKeeps, KeepKeeps,
       SuppressKeeps DEF UniversalNext
<1>2. CASE UNCHANGED universalVars
  <2>1. /\ changed' = changed /\ perFile' = perFile /\ candidates' = candidates /\ report' = report
        /\ ranked' = ranked /\ kept' = kept /\ suppressed' = suppressed
    BY <1>2 DEF universalVars, limiterVars
  <2>2. Level' = Level /\ MaxBucket' = MaxBucket
    BY <2>1 DEF Level, MaxBucket
  <2>3. FoundInv'
    BY <2>1, <2>2 DEF UniversalInv, FoundInv
  <2>4. JudgedInv'
    BY <2>1 DEF UniversalInv, JudgedInv, Judgement
  <2>5. CapsInv'
    BY <2>1 DEF UniversalInv, CapsInv, InGroup, InBucket, Dropped, Rest
  <2> QED BY <2>3, <2>4, <2>5 DEF UniversalInv
<1>3. SelectingNext => Universal \/ UNCHANGED universalVars
  BY DEF SelectingNext, Make, AskMade, Ask, Answer, Request, Report, Topics, Indexes, Look
<1>4. UNCHANGED selectingVars => UNCHANGED universalVars
  BY DEF selectingVars
<1> QED
  BY <1>1, <1>2, <1>3, <1>4

\* What holds of the universal impact of any changed files, under any caps: what is judged so far
\* is the better part of what was found, and no cap is passed.
THEOREM UniversalInvariance == SelectingSpec => []UniversalInv
<1>1. SelectingInit => UniversalInv
  BY UniversalInitial
<1>2. UniversalInv /\ [SelectingNext]_selectingVars => UniversalInv'
  BY OnlyUniversal
<1> QED
  BY <1>1, <1>2, PTL DEF SelectingSpec

LEMMA BucketsInOrder ==
  /\ BucketValue("unresolved") = 1 /\ BucketValue("possible") = 2 /\ BucketValue("recommended") = 3
<1> DEFINE order == <<"unresolved", "possible", "recommended", "must_run">>
<1>1. /\ DOMAIN order = 1..4 /\ order[1] = "unresolved" /\ order[2] = "possible"
      /\ order[3] = "recommended" /\ order[4] = "must_run"
  OBVIOUS
<1>2. ASSUME NEW b \in {"unresolved", "possible", "recommended"}
      PROVE  Place(b, order) \in 1..4 /\ order[Place(b, order)] = b
  <2> HIDE DEF order
  <2>1. \E k \in DOMAIN order : order[k] = b
    BY <1>1
  <2> QED BY <1>1, <2>1 DEF Place
<1> HIDE DEF order
<1>3. /\ Place("unresolved", order) = 1 /\ Place("possible", order) = 2
      /\ Place("recommended", order) = 3
  BY <1>1, <1>2
<1> QED BY <1>3 DEF BucketValue, order

\* No file has a better bucket than the report admits.
LEMMA BestIsAdmitted ==
  ASSUME UniversalInv, NEW k \in DOMAIN perFile
  PROVE  BucketValue(perFile[k].bucket) <= BucketValue(MaxBucket)
<1> DEFINE buckets == {perFile[n].bucket : n \in DOMAIN perFile}
<1>1. buckets # {} /\ buckets \subseteq {"unresolved", "possible", "recommended"}
  BY DEF UniversalInv, FoundInv, IsResult
<1>2. \E b \in buckets : \A c \in buckets : BucketValue(c) <= BucketValue(b)
  <2> HIDE DEF buckets
  <2>1. CASE "recommended" \in buckets
    BY <1>1, <2>1, BucketsInOrder
  <2>2. CASE "recommended" \notin buckets /\ "possible" \in buckets
    BY <1>1, <2>2, BucketsInOrder
  <2>3. CASE "recommended" \notin buckets /\ "possible" \notin buckets
    <3>1. PICK b \in buckets : \A c \in buckets : c = b /\ b = "unresolved"
      BY <1>1, <2>3
    <3> QED BY <3>1, BucketsInOrder
  <2> QED BY <2>1, <2>2, <2>3
<1>3. \A c \in buckets : BucketValue(c) <= BucketValue(MaxBucket)
  <2>1. MaxBucket = CHOOSE b \in buckets : \A c \in buckets : BucketValue(c) <= BucketValue(b)
    BY <1>1 DEF MaxBucket
  <2> HIDE DEF buckets
  <2> QED BY <1>2, <2>1
<1>4. perFile[k].bucket \in buckets
  OBVIOUS
<1> QED BY <1>3, <1>4

LEMMA CapsFollow == UniversalInv => CapsKeepTheBest
<1> SUFFICES ASSUME UniversalInv PROVE CapsKeepTheBest
  OBVIOUS
<1>1. PICK a, b : a = Len(kept) /\ b = Len(suppressed)
  OBVIOUS
<1>2. /\ a \in Nat /\ DOMAIN kept = 1..a /\ b \in Nat /\ DOMAIN suppressed = 1..b
      /\ DOMAIN Judged = 1..a + b
      /\ \A k \in 1..a : Judged[k] = kept[k]
      /\ \A k \in 1..b : Judged[a + k] = suppressed[k]
  BY <1>1 DEF UniversalInv, JudgedInv, Judged
<1>3. candidates \in Seq(Range(candidates)) /\ \A k \in DOMAIN candidates : IsCandidate(candidates[k])
  BY DEF UniversalInv, FoundInv
<1>4. /\ \A c \in RankedCandidates(candidates) : \E k \in DOMAIN candidates : c = candidates[k]
      /\ \A c, d \in RankedCandidates(candidates) : c.target = d.target => c = d
      /\ \A j \in DOMAIN candidates : \E c \in RankedCandidates(candidates) : c.target = candidates[j].target
      /\ \A c \in RankedCandidates(candidates), j \in DOMAIN candidates :
           candidates[j].target = c.target => StrengthRank(c) <= StrengthRank(candidates[j])
  BY <1>3, StrongestFacts
<1>5. ASSUME NEW k \in DOMAIN Judged
      PROVE  \/ k \in 1..a /\ Judged[k] = kept[k]
             \/ k - a \in 1..b /\ Judged[k] = suppressed[k - a]
  <2>1. k \in 1..a \/ k - a \in 1..b
    BY <1>2
  <2>2. CASE k - a \in 1..b
    <3>1. Judged[a + (k - a)] = suppressed[k - a] /\ a + (k - a) = k
      BY <1>2, <2>2
    <3> QED BY <2>2, <3>1
  <2> QED BY <1>2, <2>1, <2>2
<1>6. \A k \in DOMAIN Judged : Judged[k] \in Judgement
  BY <1>2, <1>5 DEF Judgement, Range
<1>7. \A c \in Judgement : \E k \in DOMAIN Judged : Judged[k] = c
  <2> TAKE c \in Judgement
  <2>1. CASE c \in Range(kept)
    <3>1. PICK k \in 1..a : c = kept[k]
      BY <1>2, <2>1 DEF Range
    <3>2. k \in DOMAIN Judged
      BY <1>2
    <3> QED BY <1>2, <3>1, <3>2
  <2>2. CASE c \in Range(suppressed)
    <3>1. PICK k \in 1..b : c = suppressed[k]
      BY <1>2, <2>2 DEF Range
    <3>2. a + k \in DOMAIN Judged
      BY <1>2
    <3> QED BY <1>2, <3>1, <3>2
  <2> QED BY <2>1, <2>2 DEF Judgement
<1>8. /\ report = NoReport => Judgement = {}
      /\ Judgement \subseteq RankedCandidates(candidates) \/ report = NoReport
      /\ ranked = {} /\ report # NoReport => Judgement = RankedCandidates(candidates)
      /\ Range(kept) \cap Range(suppressed) = {}
  BY DEF UniversalInv, JudgedInv
<1>9. \A c \in Judgement : c \in RankedCandidates(candidates) /\ IsCandidate(c)
  BY <1>3, <1>4, <1>8
<1>10. ASSUME NEW j \in DOMAIN Judged, NEW k \in DOMAIN Judged, j # k
       PROVE  Judged[j].target # Judged[k].target
  <2>1. Judged[j] \in Judgement /\ Judged[k] \in Judgement
    BY <1>6
  <2>2. Judged[j] # Judged[k]
    <3>1. CASE j \in 1..a /\ k \in 1..a
      <4>1. Judged[j] = kept[j] /\ Judged[k] = kept[k] /\ j \in DOMAIN kept /\ k \in DOMAIN kept
        BY <1>2, <3>1
      <4>2. RankedBefore(kept[j], kept[k]) \/ RankedBefore(kept[k], kept[j])
        <5>1. j < k \/ k < j
          BY <1>2, <1>10, <3>1
        <5> QED BY <4>1, <5>1 DEF UniversalInv, JudgedInv
      <4> QED BY <1>9, <2>1, <4>1, <4>2, BeforeIsAnOrder
    <3>2. CASE j \in 1..a /\ k \notin 1..a
      <4>1. Judged[j] = kept[j] /\ Judged[k] = suppressed[k - a] /\ k - a \in 1..b
        BY <1>2, <1>5, <3>2
      <4> QED BY <1>2, <1>8, <3>2, <4>1 DEF Range
    <3>3. CASE j \notin 1..a /\ k \in 1..a
      <4>1. Judged[k] = kept[k] /\ Judged[j] = suppressed[j - a] /\ j - a \in 1..b
        BY <1>2, <1>5, <3>3
      <4> QED BY <1>2, <1>8, <3>3, <4>1 DEF Range
    <3>4. CASE j \notin 1..a /\ k \notin 1..a
      <4>1. PICK m, n : m = j - a /\ n = k - a
        OBVIOUS
      <4>2. /\ Judged[j] = suppressed[m] /\ Judged[k] = suppressed[n]
            /\ m \in DOMAIN suppressed /\ n \in DOMAIN suppressed /\ m \in 1..b /\ n \in 1..b
        BY <1>2, <1>5, <3>4, <4>1
      <4>3. m < n \/ n < m
        <5>1. j \in Nat /\ k \in Nat
          BY <1>2
        <5> QED BY <1>2, <1>10, <4>1, <5>1
      <4>4. RankedBefore(suppressed[m], suppressed[n]) \/ RankedBefore(suppressed[n], suppressed[m])
        BY <4>2, <4>3 DEF UniversalInv, JudgedInv
      <4> QED BY <1>9, <2>1, <4>2, <4>4, BeforeIsAnOrder
    <3> QED BY <3>1, <3>2, <3>3, <3>4
  <2> QED BY <1>4, <1>9, <2>1, <2>2
<1>11. ASSUME ranked = {}, report # NoReport
       PROVE  {Judged[k].target : k \in DOMAIN Judged} = {candidates[k].target : k \in DOMAIN candidates}
  <2>1. Judgement = RankedCandidates(candidates)
    BY <1>8, <1>11
  <2>2. ASSUME NEW k \in DOMAIN Judged PROVE \E j \in DOMAIN candidates : Judged[k].target = candidates[j].target
    <3>1. PICK j \in DOMAIN candidates : Judged[k] = candidates[j]
      BY <1>4, <1>6, <2>1
    <3> QED BY <3>1
  <2>3. ASSUME NEW j \in DOMAIN candidates PROVE \E k \in DOMAIN Judged : Judged[k].target = candidates[j].target
    <3>1. PICK c \in Judgement : c.target = candidates[j].target
      BY <1>4, <2>1
    <3>2. PICK k \in DOMAIN Judged : Judged[k] = c
      BY <1>7
    <3> QED BY <3>1, <3>2
  <2> QED BY <2>2, <2>3
<1>12. \A j, k \in DOMAIN kept : j < k => RankedBefore(kept[j], kept[k])
  BY DEF UniversalInv, JudgedInv
<1>13. \A k \in DOMAIN Judged, j \in DOMAIN candidates :
         candidates[j].target = Judged[k].target => StrengthRank(Judged[k]) <= StrengthRank(candidates[j])
  BY <1>4, <1>6, <1>9
<1>14. ASSUME NEW k \in DOMAIN suppressed
       PROVE  LET c == suppressed[k]
                  better == Rest(c)
              IN \/ Cardinality({j \in better : Group(kept[j]) = Group(c)}) = GroupCap(c)
                 \/ Cardinality({j \in better : kept[j].bucket = c.bucket}) = TotalCap(c)
  BY DEF UniversalInv, CapsInv, Dropped
<1>15. ASSUME NEW k \in DOMAIN kept
       PROVE  /\ kept[k].bucket # "must_run"
              /\ BucketValue(kept[k].bucket) <= BucketValue(report.best)
              /\ InGroup(kept[k]) <= GroupCap(kept[k]) /\ InBucket(kept[k]) <= TotalCap(kept[k])
  <2>1. kept[k] \in Judgement
    BY DEF Judgement, Range
  <2>2. PICK j \in DOMAIN candidates : kept[k] = candidates[j]
    BY <1>4, <1>9, <2>1
  <2>3. PICK n \in DOMAIN perFile : perFile[n].bucket = kept[k].bucket
    BY <2>2 DEF UniversalInv, FoundInv
  <2>4. report.best = MaxBucket
    BY <1>8, <2>1 DEF UniversalInv, FoundInv
  <2>5. kept[k].bucket # "must_run"
    BY <1>9, <2>1 DEF IsCandidate
  <2> QED BY <2>3, <2>4, <2>5, BestIsAdmitted DEF UniversalInv, CapsInv
<1>16. ASSUME report.level = "deep", NEW k \in DOMAIN perFile
       PROVE  perFile[k].layer # "unknown" /\ ~ perFile[k].profiled
  <2>1. Level = "deep"
    <3>1. report # NoReport
      BY <1>16 DEF NoReport
    <3> QED BY <1>16, <3>1 DEF UniversalInv, FoundInv
  <2>2. ~ Unresolved(perFile[k]) /\ ~ Shallow(perFile[k])
    BY <2>1 DEF Level
  <2>3. ~ (perFile[k].profiled /\ perFile[k].topics)
    BY DEF UniversalInv, FoundInv, IsResult
  <2> QED BY <2>2, <2>3 DEF Unresolved, Shallow
<1> QED
  BY <1>10, <1>11, <1>12, <1>13, <1>14, <1>15, <1>16 DEF CapsKeepTheBest

\* For any changed files, tests and caps: the universal impact and the ranking of a request cut a
\* target off only where a cap is used up, by targets that come before it in the order of that cap.
THEOREM LimitsStay == SelectingSpec => []LimitsKeepTheBest
<1>1. UniversalInv /\ ReqInv => LimitsKeepTheBest
  BY CapsFollow, SurvivalFacts DEF LimitsKeepTheBest
<1> QED
  BY <1>1, UniversalInvariance, RequestInvariance, PTL

-------------------------------------------------------------------------------
\* What the resolver of a changed file has of its topics, of their names and of the sources.
ResolverSources == Sources(LayerResolver.linker)
IsFirst(test, h) == \A j \in 1..h - 1 : test.mentions[j].name # test.mentions[h].name

TopicTypes ==
  /\ scan = [topic |-> scan.topic, seen |-> scan.seen, cut |-> scan.cut] /\ scan.topic \in Nat
  /\ tree \in TestTrees \cup {NoXts}
  /\ scan.topic = 0 =>
       topicIds = <<>> /\ sdkTopics = <<>> /\ usage = {} /\ scan.seen = {}
  /\ scan.topic > 0 =>
       /\ LayerResolver \in {GestureApiResolver, NativePeerResolver, AniBridgeResolver, NativeEventResolver}
       /\ ~ Unroutable(LayerResolver) /\ topicIds = RouteOf(LayerResolver, engineFile)
       /\ sdkTopics = [k \in {n \in DOMAIN topicIds : Configured(topicIds[n])} |->
                         Validated(SdkTopic(LayerResolver, topicIds[k]), sdk)]

\* An edge is of the first mention of a name that is sought, in a source of the scan.
EdgeOrigin(e, k, p, h) ==
  /\ k \in DOMAIN sdkTopics /\ p \in ResolverSources /\ h \in Hits(tree[p[3]], sdkTopics[k].names)
  /\ IsFirst(tree[p[3]], h) /\ e = EdgeOf(sdkTopics[k], tree[p[3]], tree[p[3]].mentions[h])
EdgesInv == \A e \in usage : tree # NoXts /\ \E k \in DOMAIN sdkTopics, p \in ResolverSources : \E h \in DOMAIN tree[p[3]].mentions : EdgeOrigin(e, k, p, h)

\* While no scan was cut short, each name that a source mentions has its edge.
IsRead(k, p) == k < scan.topic \/ (k = scan.topic /\ p \in scan.seen)
EdgeIn(edges, k, p, n) ==
  \E e \in edges : e.topic = sdkTopics[k].topic /\ e.file = tree[p[3]].file /\ e.name = n
HasEdge(k, p, n) == EdgeIn(usage, k, p, n)
ScanInv ==
  /\ tree = NoXts \/ scan.seen \subseteq ResolverSources
  /\ ~ scan.cut /\ tree # NoXts =>
       \A k \in DOMAIN sdkTopics, p \in ResolverSources :
         IsRead(k, p) =>
           \A h \in Hits(tree[p[3]], sdkTopics[k].names) : HasEdge(k, p, tree[p[3]].mentions[h].name)

AnswerInv ==
  resolution # Unanswered =>
    \/ scan.topic = 0 /\ Unroutable(LayerResolver) /\ resolution = Empty("no_route")
    \/ /\ scan.topic > 0 /\ (tree = NoXts \/ scan.topic > Len(topicIds))
       /\ resolution =
            [bucket |-> MaxTopicBucket(topicIds, sdkTopics, usage),
             modules |-> {e.project : e \in usage},
             families |-> RecommendedFamilies(topicIds, usage), reasons |-> TopicReasons(LayerResolver)]

TopicInv == TopicTypes /\ EdgesInv /\ ScanInv /\ AnswerInv

\* Each route has topics, as a sequence.
IsTopicList(topics) == topics # <<>> /\ \E n \in Nat : DOMAIN topics = 1..n /\ Len(topics) = n

LEMMA RoutesHaveTopics ==
  ASSUME NEW routes \in {GestureRoutes, NativePeerRoutes, AniRoutes, NativeEventRoutes}
  PROVE  DOMAIN routes \subseteq Nat /\ \A k \in DOMAIN routes : IsTopicList(routes[k].topics)
<1>1. \A a : IsTopicList(<<a>>)
  <2> TAKE a
  <2>1. DOMAIN <<a>> = 1..1 /\ Len(<<a>>) = 1 /\ <<a>> # <<>> /\ 1 \in Nat
    OBVIOUS
  <2> QED BY <2>1 DEF IsTopicList
<1>2. \A a, b : IsTopicList(<<a, b>>)
  <2> TAKE a, b
  <2>1. DOMAIN <<a, b>> = 1..2 /\ Len(<<a, b>>) = 2 /\ <<a, b>> # <<>> /\ 2 \in Nat
    OBVIOUS
  <2> QED BY <2>1 DEF IsTopicList
<1>3. \A a, b, c : IsTopicList(<<a, b, c>>)
  <2> TAKE a, b, c
  <2>1. DOMAIN <<a, b, c>> = 1..3 /\ Len(<<a, b, c>>) = 3 /\ <<a, b, c>> # <<>> /\ 3 \in Nat
    OBVIOUS
  <2> QED BY <2>1 DEF IsTopicList
<1>4. \A t, s : Route(t, s).topics = s
  BY DEF Route
<1>5. CASE routes = GestureRoutes
  <2>1. /\ DOMAIN routes = 1..10
        /\ IsTopicList(routes[1].topics) /\ IsTopicList(routes[2].topics)
        /\ IsTopicList(routes[3].topics) /\ IsTopicList(routes[4].topics)
        /\ IsTopicList(routes[5].topics) /\ IsTopicList(routes[6].topics)
        /\ IsTopicList(routes[7].topics) /\ IsTopicList(routes[8].topics)
        /\ IsTopicList(routes[9].topics) /\ IsTopicList(routes[10].topics)
    BY <1>1, <1>2, <1>3, <1>4, <1>5 DEF GestureRoutes
  <2> QED BY <2>1
<1>6. CASE routes = NativePeerRoutes
  <2>1. /\ DOMAIN routes = 1..7
        /\ IsTopicList(routes[1].topics) /\ IsTopicList(routes[2].topics)
        /\ IsTopicList(routes[3].topics) /\ IsTopicList(routes[4].topics)
        /\ IsTopicList(routes[5].topics) /\ IsTopicList(routes[6].topics)
        /\ IsTopicList(routes[7].topics)
    BY <1>1, <1>2, <1>4, <1>6 DEF NativePeerRoutes
  <2> QED BY <2>1
<1>7. CASE routes = AniRoutes
  <2>1. /\ DOMAIN routes = 1..3
        /\ IsTopicList(routes[1].topics) /\ IsTopicList(routes[2].topics)
        /\ IsTopicList(routes[3].topics)
    BY <1>1, <1>4, <1>7 DEF AniRoutes
  <2> QED BY <2>1
<1>8. CASE routes = NativeEventRoutes
  <2>1. /\ DOMAIN routes = 1..3
        /\ IsTopicList(routes[1].topics) /\ IsTopicList(routes[2].topics)
        /\ IsTopicList(routes[3].topics)
    BY <1>1, <1>2, <1>4, <1>8 DEF NativeEventRoutes
  <2> QED BY <2>1
<1> QED BY <1>5, <1>6, <1>7, <1>8

LEMMA RouteFacts ==
  ASSUME NEW r \in {GestureApiResolver, NativePeerResolver, AniBridgeResolver, NativeEventResolver},
         NEW entity, RouteOf(r, entity) # <<>>
  PROVE  IsTopicList(RouteOf(r, entity))
<1>1. r.routes \in {GestureRoutes, NativePeerRoutes, AniRoutes, NativeEventRoutes}
  BY DEF GestureApiResolver, NativePeerResolver, AniBridgeResolver, NativeEventResolver
<1> DEFINE hits == {k \in DOMAIN r.routes : r.routes[k].token \in entity.tokens}
<1>2. hits # {} /\ hits \in SUBSET Nat /\ RouteOf(r, entity) = r.routes[Min(hits)].topics
  BY <1>1, RoutesHaveTopics DEF RouteOf
<1>3. Min(hits) \in hits
  <2> HIDE DEF hits
  <2> QED BY <1>2, LeastNumber
<1> QED BY <1>1, <1>2, <1>3, RoutesHaveTopics

\* The resolver at work is that of the layer.
TopicStep(r) == Refuse(r) \/ TakeRoute(r) \/ ScanSource(r) \/ NextTopic(r) \/ Conclude(r)

LEMMA StepOfTheLayer ==
  TopicNext => /\ TopicStep(LayerResolver)
               /\ LayerResolver \in {GestureApiResolver, NativePeerResolver, AniBridgeResolver, NativeEventResolver}
<1> SUFFICES ASSUME TopicNext
             PROVE  /\ TopicStep(LayerResolver)
                    /\ LayerResolver \in {GestureApiResolver, NativePeerResolver, AniBridgeResolver, NativeEventResolver}
  OBVIOUS
<1>1. PICK r \in {GestureApiResolver, NativePeerResolver, AniBridgeResolver, NativeEventResolver} :
        LayerResolver = r /\ TopicStep(r)
  BY DEF TopicNext, ResolveGesture, ResolveNativePeer, ResolveAniBridge, ResolveNativeEvent,
         RouteGesture, LinkGesture, ConcludeGesture, RouteNativePeer, LinkNativePeer, ConcludeNativePeer,
         RouteAniBridge, LinkAniBridge, ConcludeAniBridge, RouteNativeEvent, LinkNativeEvent,
         ConcludeNativeEvent, Begin, Link, TopicStep
<1> QED BY <1>1

\* What the names of a topic are.
LEMMA TopicNames ==
  ASSUME TopicTypes, NEW k \in DOMAIN sdkTopics
  PROVE  /\ k \in DOMAIN topicIds /\ Configured(topicIds[k])
         /\ sdkTopics[k].topic = topicIds[k]
         /\ \A n : n \in sdkTopics[k].names <=>
                     /\ n \in TopicConfig[topicIds[k]].names /\ n \notin LayerResolver.internal
                     /\ sdk = NoSdk \/ n \in sdk
<1>1. scan.topic > 0
  <2>1. DOMAIN <<>> = {} /\ (scan.topic \in Nat => scan.topic = 0 \/ scan.topic > 0)
    OBVIOUS
  <2> QED BY <2>1 DEF TopicTypes
<1>2. k \in DOMAIN topicIds /\ Configured(topicIds[k])
  BY <1>1 DEF TopicTypes
<1>3. PICK t : t = SdkTopic(LayerResolver, topicIds[k])
  OBVIOUS
<1>4. sdkTopics[k] = Validated(t, sdk)
  BY <1>1, <1>3 DEF TopicTypes
<1>5. /\ t.topic = topicIds[k] /\ t.names = TopicConfig[topicIds[k]].names \ LayerResolver.internal
      /\ DOMAIN t = {"topic", "names", "confidence", "reasons"}
  BY <1>3 DEF SdkTopic
<1>6. CASE sdk = NoSdk
  <2>1. Validated(t, sdk).topic = t.topic /\ Validated(t, sdk).names = t.names
    BY <1>5, <1>6 DEF Validated
  <2> QED BY <1>2, <1>4, <1>5, <1>6, <2>1
<1>7. CASE sdk # NoSdk
  <2>1. Validated(t, sdk).topic = t.topic /\ Validated(t, sdk).names = t.names \cap sdk
    BY <1>5, <1>7 DEF Validated
  <2> QED BY <1>2, <1>4, <1>5, <1>7, <2>1
<1> QED BY <1>6, <1>7

LEMMA SoughtNames ==
  ASSUME TopicTypes
  PROVE  \A n : n \in Sought <=> \E k \in DOMAIN sdkTopics : n \in sdkTopics[k].names
<1> TAKE n
<1>1. ASSUME NEW k \in DOMAIN sdkTopics, n \in sdkTopics[k].names PROVE n \in Sought
  <2>1. k \in DOMAIN topicIds /\ Configured(topicIds[k]) /\ n \in TopicConfig[topicIds[k]].names
        /\ n \notin LayerResolver.internal /\ (sdk = NoSdk \/ n \in sdk)
    BY <1>1, TopicNames
  <2>2. topicIds[k] \in Range(topicIds)
    BY <2>1 DEF Range
  <2> QED BY <2>1, <2>2 DEF Sought
<1>2. ASSUME n \in Sought PROVE \E k \in DOMAIN sdkTopics : n \in sdkTopics[k].names
  <2>1. PICK t \in Range(topicIds) : /\ Configured(t) /\ n \in TopicConfig[t].names
                                    /\ n \notin LayerResolver.internal /\ (sdk = NoSdk \/ n \in sdk)
    BY <1>2 DEF Sought
  <2>2. PICK k \in DOMAIN topicIds : topicIds[k] = t
    BY <2>1 DEF Range
  <2>3. k \in DOMAIN sdkTopics
    <3>1. scan.topic > 0
      <4>1. DOMAIN <<>> = {} /\ (scan.topic \in Nat => scan.topic = 0 \/ scan.topic > 0)
        OBVIOUS
      <4> QED BY <2>2, <4>1 DEF TopicTypes
    <3> QED BY <2>1, <2>2, <3>1 DEF TopicTypes
  <2> QED BY <2>1, <2>2, <2>3, TopicNames
<1> QED BY <1>1, <1>2

LEMMA TopicRefuses ==
  ASSUME TopicInv, Refuse(LayerResolver) PROVE TopicInv'
<1>1. /\ resolution = Unanswered /\ scan.topic = 0 /\ Unroutable(LayerResolver)
      /\ resolution' = Empty("no_route")
      /\ UNCHANGED <<engineFile, sdk, tree, topicIds, sdkTopics, usage, scan>>
  BY DEF Refuse
<1>2. LayerResolver' = LayerResolver /\ ResolverSources' = ResolverSources
  BY <1>1 DEF LayerResolver, ResolverSources, Sources, InDir, OfExt
<1>3. Unroutable(LayerResolver)' = Unroutable(LayerResolver)
  BY <1>1 DEF Unroutable, GestureScope, LayerResolver
<1>4. TopicTypes'
  BY <1>1, <1>2, <1>3 DEF TopicInv, TopicTypes
<1>5. EdgesInv'
  BY <1>1, <1>2 DEF TopicInv, EdgesInv, EdgeOrigin
<1>6. ScanInv'
  BY <1>1, <1>2 DEF TopicInv, ScanInv, IsRead, HasEdge, EdgeIn
<1>7. AnswerInv'
  BY <1>1, <1>3 DEF AnswerInv
<1> QED BY <1>4, <1>5, <1>6, <1>7 DEF TopicInv

LEMMA TopicTakesRoute ==
  ASSUME TopicInv, TakeRoute(LayerResolver),
         LayerResolver \in {GestureApiResolver, NativePeerResolver, AniBridgeResolver, NativeEventResolver}
  PROVE  TopicInv'
<1>1. /\ resolution = Unanswered /\ scan.topic = 0 /\ ~ Unroutable(LayerResolver)
      /\ topicIds' = RouteOf(LayerResolver, engineFile)
      /\ sdkTopics' = [k \in {n \in DOMAIN topicIds' : Configured(topicIds'[n])} |->
                         Validated(SdkTopic(LayerResolver, topicIds'[k]), sdk)]
      /\ scan' = [scan EXCEPT !.topic = 1]
      /\ UNCHANGED <<engineFile, sdk, tree, usage, resolution>>
  BY DEF TakeRoute
<1>2. LayerResolver' = LayerResolver /\ ResolverSources' = ResolverSources
  BY <1>1 DEF LayerResolver, ResolverSources, Sources, InDir, OfExt
<1>3. Unroutable(LayerResolver)' = Unroutable(LayerResolver)
  BY <1>1 DEF Unroutable, GestureScope, LayerResolver
<1>4. usage = {} /\ scan.seen = {} /\ scan = [topic |-> scan.topic, seen |-> scan.seen, cut |-> scan.cut]
  BY <1>1 DEF TopicInv, TopicTypes
<1>5. scan' = [topic |-> 1, seen |-> {}, cut |-> scan.cut]
  BY <1>1, <1>4
<1>6. TopicTypes'
  <2>1. tree' \in TestTrees \cup {NoXts}
    BY <1>1 DEF TopicInv, TopicTypes
  <2>2. /\ scan' = [topic |-> scan'.topic, seen |-> scan'.seen, cut |-> scan'.cut] /\ scan'.topic \in Nat
        /\ scan'.topic # 0
    BY <1>5
  <2> QED BY <1>1, <1>2, <1>3, <2>1, <2>2 DEF TopicTypes
<1>7. EdgesInv'
  BY <1>1, <1>4 DEF EdgesInv
<1>8. ScanInv'
  <2>1. ASSUME NEW k \in DOMAIN sdkTopics', NEW p PROVE ~ IsRead(k, p)'
    <3>1. k \in DOMAIN topicIds'
      BY <1>1
    <3>2. k \in Nat /\ k >= 1
      <4>1. IsTopicList(topicIds')
        <5>1. RouteOf(LayerResolver, engineFile) # <<>>
          BY <1>1 DEF Unroutable
        <5> QED BY <1>1, <5>1, RouteFacts
      <4> QED BY <3>1, <4>1 DEF IsTopicList
    <3> QED BY <1>5, <3>2 DEF IsRead
  <2> QED BY <1>5, <2>1 DEF ScanInv
<1>9. AnswerInv'
  BY <1>1 DEF AnswerInv
<1> QED BY <1>6, <1>7, <1>8, <1>9 DEF TopicInv

LEMMA TopicGoesOn ==
  ASSUME TopicInv, NextTopic(LayerResolver),
         LayerResolver \in {GestureApiResolver, NativePeerResolver, AniBridgeResolver, NativeEventResolver}
  PROVE  TopicInv'
<1>1. /\ resolution = Unanswered /\ scan.topic \in DOMAIN topicIds /\ tree # NoXts
      /\ scan' = [topic |-> scan.topic + 1, seen |-> {},
                  cut |-> scan.cut \/ (NamesOf(scan.topic) # {} /\ scan.seen # ResolverSources)]
      /\ UNCHANGED <<engineFile, sdk, tree, topicIds, sdkTopics, usage, resolution>>
  BY DEF NextTopic, Scanning, ResolverSources
<1>2. LayerResolver' = LayerResolver /\ ResolverSources' = ResolverSources
  BY <1>1 DEF LayerResolver, ResolverSources, Sources, InDir, OfExt
<1>3. Unroutable(LayerResolver)' = Unroutable(LayerResolver)
  BY <1>1 DEF Unroutable, GestureScope, LayerResolver
<1>4. scan.topic \in Nat /\ scan.topic > 0 /\ ~ Unroutable(LayerResolver)
  <2>1. DOMAIN <<>> = {} /\ (scan.topic \in Nat => scan.topic = 0 \/ scan.topic > 0)
    OBVIOUS
  <2> QED BY <1>1, <2>1 DEF TopicInv, TopicTypes
<1>5. scan'.topic = scan.topic + 1 /\ scan'.seen = {} /\ (~ scan'.cut => ~ scan.cut)
  BY <1>1
<1>6. TopicTypes'
  <2>1. /\ scan' = [topic |-> scan'.topic, seen |-> scan'.seen, cut |-> scan'.cut] /\ scan'.topic \in Nat
        /\ scan'.topic # 0
    BY <1>1, <1>4, <1>5
  <2> QED BY <1>1, <1>2, <1>3, <1>4, <2>1 DEF TopicInv, TopicTypes
<1>7. EdgesInv'
  BY <1>1, <1>2 DEF TopicInv, EdgesInv, EdgeOrigin
<1>8. ScanInv'
  <2>1. ASSUME ~ scan'.cut, NEW k \in DOMAIN sdkTopics, NEW p \in ResolverSources, IsRead(k, p)'
        PROVE  \A h \in Hits(tree[p[3]], sdkTopics[k].names) : HasEdge(k, p, tree[p[3]].mentions[h].name)
    <3>1. k \in Nat
      <4>1. IsTopicList(topicIds)
        <5>1. RouteOf(LayerResolver, engineFile) # <<>>
          BY <1>4 DEF Unroutable
        <5> QED BY <1>4, <5>1, RouteFacts DEF TopicInv, TopicTypes
      <4>2. k \in DOMAIN topicIds
        BY TopicNames DEF TopicInv
      <4> QED BY <4>1, <4>2 DEF IsTopicList
    <3>2. k < scan.topic \/ k = scan.topic
      BY <1>4, <1>5, <2>1, <3>1 DEF IsRead
    <3>3. CASE IsRead(k, p)
      BY <1>1, <1>5, <2>1, <3>3 DEF TopicInv, ScanInv
    <3>4. CASE ~ IsRead(k, p)
      <4>1. k = scan.topic /\ p \notin scan.seen
        BY <3>2, <3>4 DEF IsRead
      <4>2. sdkTopics[k].names = {}
        <5>1. NamesOf(scan.topic) = {} \/ scan.seen = ResolverSources
          BY <1>1, <2>1
        <5> QED BY <4>1, <5>1 DEF NamesOf
      <4> QED BY <4>2 DEF Hits
    <3> QED BY <3>3, <3>4
  <2> QED BY <1>1, <1>2, <1>5, <2>1 DEF ScanInv, HasEdge, EdgeIn
<1>9. AnswerInv'
  BY <1>1 DEF AnswerInv
<1> QED BY <1>6, <1>7, <1>8, <1>9 DEF TopicInv

LEMMA TopicConcludes ==
  ASSUME TopicInv, Conclude(LayerResolver) PROVE TopicInv'
<1>1. /\ resolution = Unanswered /\ scan.topic > 0
      /\ tree = NoXts \/ scan.topic > Len(topicIds)
      /\ resolution' =
           [bucket |-> MaxTopicBucket(topicIds, sdkTopics, usage),
            modules |-> {e.project : e \in usage},
            families |-> RecommendedFamilies(topicIds, usage), reasons |-> TopicReasons(LayerResolver)]
      /\ UNCHANGED <<engineFile, sdk, tree, topicIds, sdkTopics, usage, scan>>
  BY DEF Conclude
<1>2. LayerResolver' = LayerResolver /\ ResolverSources' = ResolverSources
  BY <1>1 DEF LayerResolver, ResolverSources, Sources, InDir, OfExt
<1>3. Unroutable(LayerResolver)' = Unroutable(LayerResolver)
  BY <1>1 DEF Unroutable, GestureScope, LayerResolver
<1>4. TopicTypes'
  BY <1>1, <1>2, <1>3 DEF TopicInv, TopicTypes
<1>5. EdgesInv'
  BY <1>1, <1>2 DEF TopicInv, EdgesInv, EdgeOrigin
<1>6. ScanInv'
  BY <1>1, <1>2 DEF TopicInv, ScanInv, IsRead, HasEdge, EdgeIn
<1>7. TopicReasons(LayerResolver)' = TopicReasons(LayerResolver)
  BY <1>1, <1>2 DEF TopicReasons
<1>8. AnswerInv'
  BY <1>1, <1>7 DEF AnswerInv
<1> QED BY <1>4, <1>5, <1>6, <1>8 DEF TopicInv

LEMMA TopicScans ==
  ASSUME TopicInv, ScanSource(LayerResolver) PROVE TopicInv'
<1>1. PICK p \in ResolverSources :
        /\ usage' = usage \cup EdgesOf(sdkTopics[scan.topic], tree[p[3]])
        /\ scan' = [scan EXCEPT !.seen = @ \cup {p}]
  BY DEF ScanSource, ResolverSources
<1>2. /\ resolution = Unanswered /\ scan.topic \in DOMAIN topicIds /\ tree # NoXts /\ NamesOf(scan.topic) # {}
      /\ UNCHANGED <<engineFile, sdk, tree, topicIds, sdkTopics, resolution>>
  BY DEF ScanSource, Scanning
<1>3. LayerResolver' = LayerResolver /\ ResolverSources' = ResolverSources
  BY <1>2 DEF LayerResolver, ResolverSources, Sources, InDir, OfExt
<1>4. Unroutable(LayerResolver)' = Unroutable(LayerResolver)
  BY <1>2 DEF Unroutable, GestureScope, LayerResolver
<1>5. scan = [topic |-> scan.topic, seen |-> scan.seen, cut |-> scan.cut] /\ scan.topic \in Nat /\ scan.topic > 0
  <2>1. DOMAIN <<>> = {} /\ (scan.topic \in Nat => scan.topic = 0 \/ scan.topic > 0)
    OBVIOUS
  <2> QED BY <1>2, <2>1 DEF TopicInv, TopicTypes
<1>6. scan'.topic = scan.topic /\ scan'.seen = scan.seen \cup {p} /\ scan'.cut = scan.cut
      /\ scan' = [topic |-> scan'.topic, seen |-> scan'.seen, cut |-> scan'.cut]
  BY <1>1, <1>5
<1>7. PICK k : k = scan.topic
  OBVIOUS
<1>8. PICK test : test = tree[p[3]]
  OBVIOUS
<1>9. k \in DOMAIN sdkTopics
  BY <1>2, <1>7 DEF NamesOf
<1>10. TopicTypes'
  BY <1>2, <1>3, <1>4, <1>5, <1>6 DEF TopicInv, TopicTypes
<1>11. EdgesInv'
  <2>1. ASSUME NEW e \in usage'
        PROVE  \E n \in DOMAIN sdkTopics, q \in ResolverSources : \E h \in DOMAIN tree[q[3]].mentions : EdgeOrigin(e, n, q, h)
    <3>1. CASE e \in usage
      BY <3>1 DEF TopicInv, EdgesInv
    <3>2. CASE e \notin usage
      <4>1. PICK h \in Hits(test, sdkTopics[k].names) :
              IsFresh(sdkTopics[k], test, h) /\ e = EdgeOf(sdkTopics[k], test, test.mentions[h])
        BY <1>1, <1>7, <1>8, <2>1, <3>2 DEF EdgesOf
      <4>2. h \in DOMAIN tree[p[3]].mentions /\ IsFirst(test, h)
        BY <1>8, <4>1 DEF Hits, IsFresh, IsFirst
      <4>3. EdgeOrigin(e, k, p, h)
        BY <1>1, <1>8, <1>9, <4>1, <4>2 DEF EdgeOrigin
      <4> QED BY <1>1, <1>9, <4>2, <4>3
    <3> QED BY <3>1, <3>2
  <2>2. ASSUME NEW e, NEW n, NEW q, NEW h, EdgeOrigin(e, n, q, h) PROVE EdgeOrigin(e, n, q, h)'
    BY <1>2, <1>3, <2>2 DEF EdgeOrigin
  <2> QED BY <1>2, <1>3, <2>1, <2>2 DEF EdgesInv
<1>12. ScanInv'
  <2>0. PICK after : after = usage'
    OBVIOUS
  <2>1. ASSUME NEW n \in DOMAIN sdkTopics, NEW q, NEW name, HasEdge(n, q, name)
        PROVE  EdgeIn(after, n, q, name)
    BY <1>1, <2>0, <2>1 DEF HasEdge, EdgeIn
  <2>2. ASSUME NEW h \in Hits(test, sdkTopics[k].names) PROVE EdgeIn(after, k, p, test.mentions[h].name)
    <3>1. PICK name : name = test.mentions[h].name
      OBVIOUS
    <3> DEFINE at == {j \in DOMAIN test.mentions : test.mentions[j].name = name}
    <3>2. at # {} /\ at \in SUBSET Nat /\ \A j \in DOMAIN test.mentions : \A i \in 1..j - 1 : i \in DOMAIN test.mentions
      <4>1. p[3] \in DOMAIN tree
        BY <1>1, <1>2 DEF ResolverSources, Sources, InDir, OfExt
      <4>2. test.mentions \in Seq(Range(test.mentions))
        BY <1>2, <1>8, <4>1, TreesAssumption DEF TopicInv, TopicTypes
      <4> QED BY <3>1, <4>2 DEF Hits
    <3>3. PICK f : f \in at /\ \A x \in at : f <= x
      <4> HIDE DEF at
      <4> QED BY <3>2, LeastNumber
    <3>4. \A j \in 1..f - 1 : test.mentions[j].name # test.mentions[f].name
      BY <3>2, <3>3
    <3>5. f \in Hits(test, sdkTopics[k].names)
      BY <3>1, <3>3 DEF Hits
    <3>6. CASE IsFresh(sdkTopics[k], test, f)
      <4>1. PICK e : e = EdgeOf(sdkTopics[k], test, test.mentions[f])
        OBVIOUS
      <4>2. e \in usage'
        BY <1>1, <1>7, <1>8, <3>5, <3>6, <4>1 DEF EdgesOf
      <4>3. e.topic = sdkTopics[k].topic /\ e.file = test.file /\ e.name = name
        BY <3>3, <4>1 DEF EdgeOf
      <4> QED BY <1>8, <2>0, <3>1, <4>2, <4>3 DEF EdgeIn
    <3>7. CASE ~ IsFresh(sdkTopics[k], test, f)
      <4>1. PICK e \in usage : e.topic = sdkTopics[k].topic /\ e.file = test.file /\ e.name = name
        BY <3>3, <3>4, <3>7 DEF IsFresh
      <4>2. HasEdge(k, p, name)
        BY <1>8, <4>1 DEF HasEdge, EdgeIn
      <4> QED BY <1>9, <2>1, <3>1, <4>2
    <3> QED BY <3>6, <3>7
  <2>3. ASSUME ~ scan'.cut, NEW n \in DOMAIN sdkTopics, NEW q \in ResolverSources, IsRead(n, q)',
               NEW h \in Hits(tree[q[3]], sdkTopics[n].names)
        PROVE  EdgeIn(after, n, q, tree[q[3]].mentions[h].name)
    <3>1. PICK name : name = tree[q[3]].mentions[h].name
      OBVIOUS
    <3>2. CASE IsRead(n, q)
      <4>1. HasEdge(n, q, name)
        BY <1>2, <1>6, <2>3, <3>1, <3>2 DEF TopicInv, ScanInv
      <4> QED BY <2>1, <3>1, <4>1
    <3>3. CASE ~ IsRead(n, q)
      <4>1. n = k /\ q = p
        BY <1>6, <1>7, <2>3, <3>3 DEF IsRead
      <4>2. h \in Hits(test, sdkTopics[k].names) /\ name = test.mentions[h].name
        BY <1>8, <2>3, <3>1, <4>1
      <4>3. EdgeIn(after, k, p, name)
        BY <2>2, <4>2
      <4> QED BY <3>1, <4>1, <4>3
    <3> QED BY <3>2, <3>3
  <2>4. scan'.seen \subseteq ResolverSources
    BY <1>1, <1>2, <1>6 DEF TopicInv, ScanInv
  <2>5. ASSUME NEW n, NEW q, NEW name, EdgeIn(after, n, q, name) PROVE HasEdge(n, q, name)'
    BY <1>2, <2>0, <2>5 DEF HasEdge, EdgeIn
  <2>6. ASSUME ~ scan'.cut, NEW n \in DOMAIN sdkTopics', NEW q \in ResolverSources', IsRead(n, q)',
               NEW h \in Hits(tree[q[3]], sdkTopics[n].names)'
        PROVE  HasEdge(n, q, tree[q[3]].mentions[h].name)'
    <3>1. h \in Hits(tree[q[3]], sdkTopics[n].names) /\ n \in DOMAIN sdkTopics /\ q \in ResolverSources
      BY <1>2, <1>3, <2>6 DEF Hits
    <3>2. PICK name : name = tree[q[3]].mentions[h].name
      OBVIOUS
    <3>3. HasEdge(n, q, name)'
      <4>1. EdgeIn(after, n, q, name)
        BY <2>3, <2>6, <3>1, <3>2
      <4> QED BY <2>5, <4>1
    <3> QED BY <1>2, <3>2, <3>3
  <2> QED BY <1>2, <1>3, <2>4, <2>6 DEF ScanInv
<1>13. AnswerInv'
  BY <1>2 DEF AnswerInv
<1> QED BY <1>10, <1>11, <1>12, <1>13 DEF TopicInv

\* The first state, and the ways that leave the topics alone.
LEMMA TopicInitial == SelectingInit => TopicInv
<1> SUFFICES ASSUME SelectingInit PROVE TopicInv
  OBVIOUS
<1>1. /\ topicIds = <<>> /\ sdkTopics = <<>> /\ usage = {} /\ scan = NotScanned
      /\ resolution = Unanswered /\ tree \in TestTrees \cup {NoXts}
  BY DEF SelectingInit, NoTopics, TopicInit
<1>2. scan = [topic |-> 0, seen |-> {}, cut |-> FALSE]
  BY <1>1 DEF NotScanned
<1>3. scan.topic = 0 /\ scan.seen = {} /\ scan.cut = FALSE /\ DOMAIN sdkTopics = {}
  BY <1>1, <1>2
<1>4. TopicTypes
  BY <1>1, <1>2, <1>3 DEF TopicTypes
<1>5. EdgesInv
  BY <1>1 DEF EdgesInv
<1>6. ScanInv
  BY <1>3 DEF ScanInv
<1>7. AnswerInv
  BY <1>1 DEF AnswerInv
<1> QED BY <1>4, <1>5, <1>6, <1>7 DEF TopicInv

LEMMA OnlyTopics == TopicInv /\ [SelectingNext]_selectingVars => TopicInv'
<1> SUFFICES ASSUME TopicInv, [SelectingNext]_selectingVars PROVE TopicInv'
  OBVIOUS
<1>1. CASE Topics
  <2>1. /\ TopicStep(LayerResolver)
        /\ LayerResolver \in {GestureApiResolver, NativePeerResolver, AniBridgeResolver, NativeEventResolver}
    BY <1>1, StepOfTheLayer DEF Topics
  <2> QED
    BY <2>1, TopicRefuses, TopicTakesRoute, TopicScans, TopicGoesOn, TopicConcludes DEF TopicStep
<1>2. CASE UNCHANGED topicVars
  <2>1. UNCHANGED <<engineFile, sdk, tree, topicIds, sdkTopics, usage, scan, resolution>>
    BY <1>2 DEF topicVars
  <2>2. LayerResolver' = LayerResolver /\ ResolverSources' = ResolverSources
    BY <2>1 DEF LayerResolver, ResolverSources, Sources, InDir, OfExt
  <2>3. Unroutable(LayerResolver)' = Unroutable(LayerResolver)
    BY <2>1 DEF Unroutable, GestureScope, LayerResolver
  <2>4. TopicReasons(LayerResolver)' = TopicReasons(LayerResolver)
    BY <2>1, <2>2 DEF TopicReasons
  <2>5. TopicTypes'
    BY <2>1, <2>2, <2>3 DEF TopicInv, TopicTypes
  <2>6. EdgesInv'
    BY <2>1, <2>2 DEF TopicInv, EdgesInv, EdgeOrigin
  <2>7. ScanInv'
    BY <2>1, <2>2 DEF TopicInv, ScanInv, IsRead, HasEdge, EdgeIn
  <2>8. AnswerInv'
    BY <2>1, <2>3, <2>4 DEF TopicInv, AnswerInv
  <2> QED BY <2>5, <2>6, <2>7, <2>8 DEF TopicInv
<1>3. SelectingNext => Topics \/ UNCHANGED topicVars
  BY DEF SelectingNext, Make, AskMade, Ask, Answer, Universal, Request, Report, Indexes, Look
<1>4. UNCHANGED selectingVars => UNCHANGED topicVars
  BY DEF selectingVars
<1> QED
  BY <1>1, <1>2, <1>3, <1>4

\* What holds of the topics of any changed file, under any rules, configuration, SDK and tree: each
\* edge is of a first mention, and no mention of a source that was read is without one.
THEOREM TopicInvariance == SelectingSpec => []TopicInv
<1>1. SelectingInit => TopicInv
  BY TopicInitial
<1>2. TopicInv /\ [SelectingNext]_selectingVars => TopicInv'
  BY OnlyTopics
<1> QED
  BY <1>1, <1>2, PTL DEF SelectingSpec

\* A name's first mention in a source is that of its edge.
LEMMA MentionOfEdge ==
  ASSUME TopicInv, NEW e \in usage, NEW k, NEW p, NEW h, EdgeOrigin(e, k, p, h)
  PROVE  /\ tree # NoXts /\ p \in ResolverSources /\ e.file = tree[p[3]].file
         /\ e.project = tree[p[3]].project
         /\ e.name \in Sought \ Compound
         /\ Mentions(tree[p[3]], e.name) # {}
         /\ e.kind = tree[p[3]].mentions[Min(Mentions(tree[p[3]], e.name))].kind
<1>1. PICK test : test = tree[p[3]]
  OBVIOUS
<1>2. /\ k \in DOMAIN sdkTopics /\ p \in ResolverSources /\ h \in DOMAIN test.mentions
      /\ test.mentions[h].name \in sdkTopics[k].names \ Compound
      /\ IsFirst(test, h) /\ e = EdgeOf(sdkTopics[k], test, test.mentions[h])
  BY <1>1 DEF EdgeOrigin, Hits
<1>3. /\ e.name = test.mentions[h].name /\ e.file = test.file /\ e.project = test.project
      /\ e.kind = test.mentions[h].kind
  BY <1>2 DEF EdgeOf
<1>4. tree # NoXts /\ tree \in TestTrees
  BY DEF TopicInv, EdgesInv, TopicTypes
<1>5. test.mentions \in Seq(Range(test.mentions))
  <2>1. p[3] \in DOMAIN tree
    BY <1>2 DEF ResolverSources, Sources, InDir, OfExt
  <2> QED BY <1>1, <1>4, <2>1, TreesAssumption
<1>6. e.name \in Sought
  BY <1>2, <1>3, SoughtNames DEF TopicInv
<1>7. h \in Mentions(test, e.name)
  BY <1>2, <1>3 DEF Mentions
<1>8. Mentions(test, e.name) \in SUBSET Nat /\ \A j \in Mentions(test, e.name) : j >= 1
  BY <1>5 DEF Mentions
<1>9. Min(Mentions(test, e.name)) \in Mentions(test, e.name) /\ Min(Mentions(test, e.name)) <= h
  BY <1>7, <1>8, LeastNumber
<1>10. Min(Mentions(test, e.name)) = h
  <2>1. PICK m : m = Min(Mentions(test, e.name))
    OBVIOUS
  <2>2. m \in Nat /\ h \in Nat /\ 1 <= m /\ m <= h /\ test.mentions[m].name = e.name
    BY <1>7, <1>8, <1>9, <2>1 DEF Mentions
  <2>3. ~ (m \in 1..h - 1)
    BY <1>2, <1>3, <2>2 DEF IsFirst
  <2> QED BY <2>1, <2>2, <2>3
<1> QED BY <1>1, <1>2, <1>3, <1>4, <1>6, <1>7, <1>10

LEMMA AnyUseIsFound ==
  ASSUME TopicInv, ~ scan.cut, tree # NoXts, scan.topic > 0, scan.topic > Len(topicIds),
         LayerResolver \in {GestureApiResolver, NativePeerResolver, AniBridgeResolver, NativeEventResolver},
         NEW p \in ResolverSources, UsedIn(tree[p[3]])
  PROVE  /\ \E e \in usage : IsStrong(e) /\ e.project = tree[p[3]].project
         /\ \E k \in DOMAIN sdkTopics : sdkTopics[k].names # {}
<1>1. PICK test : test = tree[p[3]]
  OBVIOUS
<1>2. PICK n \in Sought \ Compound :
        Mentions(test, n) # {} /\ test.mentions[Min(Mentions(test, n))].kind # "import_only"
  BY <1>1 DEF UsedIn
<1>3. PICK k \in DOMAIN sdkTopics : n \in sdkTopics[k].names
  BY <1>2, SoughtNames DEF TopicInv
<1>4. k < scan.topic
  <2>1. IsTopicList(topicIds)
    <3>1. RouteOf(LayerResolver, engineFile) # <<>>
      BY DEF TopicInv, TopicTypes, Unroutable
    <3> QED BY <3>1, RouteFacts DEF TopicInv, TopicTypes
  <2>2. k \in DOMAIN topicIds
    BY TopicNames DEF TopicInv
  <2>3. k \in Nat /\ k <= Len(topicIds) /\ Len(topicIds) \in Nat
    BY <2>1, <2>2 DEF IsTopicList
  <2> QED BY <2>3 DEF TopicInv, TopicTypes
<1>5. PICK h : h \in Mentions(test, n)
  BY <1>2
<1>6. h \in Hits(test, sdkTopics[k].names) /\ test.mentions[h].name = n
  BY <1>2, <1>3, <1>5 DEF Hits, Mentions
<1>7. PICK e \in usage : e.file = test.file /\ e.name = n
  <2>1. IsRead(k, p)
    BY <1>4 DEF IsRead
  <2>2. HasEdge(k, p, n)
    BY <1>1, <1>6, <2>1 DEF TopicInv, ScanInv
  <2> QED BY <1>1, <2>2 DEF HasEdge, EdgeIn
<1>8. PICK m, q, i : EdgeOrigin(e, m, q, i)
  BY DEF TopicInv, EdgesInv
<1>9. PICK other : other = tree[q[3]]
  OBVIOUS
<1>10. /\ q \in ResolverSources /\ e.file = other.file /\ e.project = other.project
       /\ e.kind = other.mentions[Min(Mentions(other, e.name))].kind
  BY <1>8, <1>9, MentionOfEdge
<1>11. other = test
  <2>1. p[3] \in DOMAIN tree /\ q[3] \in DOMAIN tree
    BY <1>10 DEF ResolverSources, Sources, InDir, OfExt
  <2>2. tree \in TestTrees \ {NoXts}
    BY DEF TopicInv, TopicTypes
  <2>3. PICK t, i1, i2 : t = tree /\ i1 = p[3] /\ i2 = q[3]
    OBVIOUS
  <2>4. t \in TestTrees \ {NoXts} /\ i1 \in DOMAIN t /\ i2 \in DOMAIN t /\ t[i1].file = t[i2].file
    BY <1>1, <1>7, <1>9, <1>10, <2>1, <2>2, <2>3
  <2>5. t[i1] = t[i2]
    BY <2>4, TreesAssumption
  <2> QED BY <1>1, <1>9, <2>3, <2>5
<1>12. IsStrong(e) /\ e.project = tree[p[3]].project
  BY <1>1, <1>2, <1>7, <1>10, <1>11 DEF IsStrong
<1> QED BY <1>3, <1>12

\* What was found is what the sources say, and for what was not, a scan was cut short.
LEMMA EdgesAreUses ==
  ASSUME TopicInv, NEW e \in usage
  PROVE  \E p \in ResolverSources :
           /\ tree # NoXts /\ e.project = tree[p[3]].project /\ MentionedIn(tree[p[3]])
           /\ IsStrong(e) => UsedIn(tree[p[3]])
<1>1. PICK k, p, h : EdgeOrigin(e, k, p, h)
  BY DEF TopicInv, EdgesInv
<1>2. PICK test : test = tree[p[3]]
  OBVIOUS
<1>3. /\ tree # NoXts /\ p \in ResolverSources /\ e.project = test.project
      /\ e.name \in Sought \ Compound /\ Mentions(test, e.name) # {}
      /\ e.kind = test.mentions[Min(Mentions(test, e.name))].kind
  BY <1>1, <1>2, MentionOfEdge
<1>4. MentionedIn(test)
  BY <1>3 DEF MentionedIn
<1>5. IsStrong(e) => UsedIn(test)
  BY <1>3 DEF IsStrong, UsedIn
<1> QED BY <1>2, <1>3, <1>4, <1>5

LEMMA RefusalFindsNothing ==
  ASSUME TopicInv, resolution = Empty("no_route"), scan.topic = 0, Unroutable(LayerResolver)
  PROVE  UsesAreFound /\ MaxTopicBucket(topicIds, sdkTopics, usage) = resolution.bucket
<1>1. /\ topicIds = <<>> /\ resolution.modules = {} /\ resolution.bucket = "unresolved"
      /\ "unresolved" # "recommended"
  BY DEF TopicInv, TopicTypes, Empty
<1>2. Sought = {}
  <2>1. Range(topicIds) = {}
    <3>1. DOMAIN <<>> = {}
      OBVIOUS
    <3> QED BY <1>1, <3>1 DEF Range
  <2> QED BY <2>1 DEF Sought
<1>3. \A t : ~ UsedIn(t)
  BY <1>2 DEF UsedIn
<1>4. \A k \in DOMAIN sdkTopics : sdkTopics[k].names \subseteq Sought
  BY SoughtNames DEF TopicInv
<1>5. UsesAreFound
  BY <1>1, <1>3, <1>4 DEF UsesAreFound
<1> QED BY <1>1, <1>5 DEF MaxTopicBucket

LEMMA ConclusionFinds ==
  ASSUME TopicInv, scan.topic > 0, tree = NoXts \/ scan.topic > Len(topicIds),
         resolution =
            [bucket |-> MaxTopicBucket(topicIds, sdkTopics, usage),
             modules |-> {e.project : e \in usage},
             families |-> RecommendedFamilies(topicIds, usage), reasons |-> TopicReasons(LayerResolver)]
  PROVE  UsesAreFound
<1> DEFINE tests == IF tree = NoXts THEN {} ELSE {tree[p[3]] : p \in ResolverSources}
<1>1. /\ resolution.bucket = MaxTopicBucket(topicIds, sdkTopics, usage)
      /\ resolution.modules = {e.project : e \in usage}
      /\ resolution.families = RecommendedFamilies(topicIds, usage)
      /\ resolution.reasons = TopicReasons(LayerResolver)
  OBVIOUS
<1>2. scan.topic \in Nat /\ ~ Unroutable(LayerResolver) /\ topicIds # <<>>
  <2>1. ~ Unroutable(LayerResolver) /\ topicIds = RouteOf(LayerResolver, engineFile)
    BY DEF TopicInv, TopicTypes
  <2> QED BY <2>1 DEF Unroutable, TopicInv, TopicTypes
<1>3. /\ resolution.bucket # "unresolved"
      /\ resolution.bucket = "recommended" <=>
           /\ \E k \in DOMAIN sdkTopics : sdkTopics[k].names # {}
           /\ \E e \in usage : IsStrong(e)
  BY <1>1, <1>2 DEF MaxTopicBucket
<1>4. \A k \in DOMAIN sdkTopics : sdkTopics[k].names \subseteq Sought
  BY SoughtNames DEF TopicInv
<1>5. resolution.modules \subseteq {t.project : t \in {u \in tests : MentionedIn(u)}}
  <2> SUFFICES ASSUME NEW e \in usage
               PROVE  e.project \in {t.project : t \in {u \in tests : MentionedIn(u)}}
    BY <1>1
  <2>1. PICK p \in ResolverSources :
          tree # NoXts /\ e.project = tree[p[3]].project /\ MentionedIn(tree[p[3]])
    BY EdgesAreUses
  <2>2. PICK t : t = tree[p[3]]
    OBVIOUS
  <2>3. t \in tests
    BY <2>1, <2>2
  <2> HIDE DEF tests
  <2> QED BY <2>1, <2>2, <2>3
<1>6. ASSUME resolution.bucket = "recommended"
      PROVE  /\ \E t \in tests : UsedIn(t)
             /\ sdk = NoSdk => "sdk_index_not_available" \in resolution.reasons
  <2>1. PICK e \in usage : IsStrong(e)
    BY <1>3, <1>6
  <2>2. PICK p \in ResolverSources : tree # NoXts /\ UsedIn(tree[p[3]])
    BY <2>1, EdgesAreUses
  <2>3. \E t \in tests : UsedIn(t)
    BY <2>2
  <2>4. ASSUME sdk = NoSdk PROVE "sdk_index_not_available" \in resolution.reasons
    BY <1>1, <2>4 DEF TopicReasons
  <2> QED BY <2>3, <2>4
<1>7. ASSUME ~ scan.cut, NEW t \in tests, UsedIn(t)
      PROVE  /\ resolution.bucket = "recommended"
             /\ t.project \in resolution.modules \cap resolution.families
  <2>1. PICK p \in ResolverSources : tree # NoXts /\ t = tree[p[3]]
    BY <1>7
  <2>2. UsedIn(tree[p[3]]) /\ scan.topic > Len(topicIds)
    BY <1>7, <2>1
  <2>3. /\ \E e \in usage : IsStrong(e) /\ e.project = tree[p[3]].project
        /\ \E k \in DOMAIN sdkTopics : sdkTopics[k].names # {}
    BY <1>7, <2>1, <2>2, AnyUseIsFound DEF TopicInv, TopicTypes
  <2>4. PICK e \in usage : IsStrong(e) /\ e.project = t.project
    BY <2>1, <2>3
  <2>5. t.project \in RecommendedFamilies(topicIds, usage)
    BY <2>4 DEF RecommendedFamilies
  <2> QED BY <1>1, <1>3, <2>3, <2>4, <2>5
<1>8. tests = (IF tree = NoXts THEN {} ELSE {tree[p[3]] : p \in Sources(LayerResolver.linker)})
  BY DEF ResolverSources
<1> HIDE DEF tests
<1> QED BY <1>2, <1>3, <1>4, <1>5, <1>6, <1>7, <1>8 DEF UsesAreFound

LEMMA BucketIsThatOfTheRoute ==
  ASSUME resolution.bucket = MaxTopicBucket(topicIds, sdkTopics, usage)
  PROVE  resolution.bucket =
           TopicBucket([routed |-> topicIds # <<>>,
                        named |-> \E k \in DOMAIN sdkTopics : sdkTopics[k].names # {}],
             [e \in usage |-> [mentions |-> <<IF e.kind = "import_only" THEN "import" ELSE "use">>]])
<1>1. PICK named : named <=> \E k \in DOMAIN sdkTopics : sdkTopics[k].names # {}
  OBVIOUS
<1> DEFINE tests == [e \in usage |-> [mentions |-> <<IF e.kind = "import_only" THEN "import" ELSE "use">>]]
<1>2. DOMAIN tests = usage
  OBVIOUS
<1>3. ASSUME NEW e \in usage PROVE IsUse(tests[e]) <=> IsStrong(e)
  <2>1. PICK word : word = IF e.kind = "import_only" THEN "import" ELSE "use"
    OBVIOUS
  <2>2. tests[e].mentions = <<word>> /\ <<word>>[1] = word
    BY <2>1
  <2>3. word = "use" <=> e.kind # "import_only"
    BY <2>1
  <2> HIDE DEF tests
  <2> QED BY <2>2, <2>3 DEF IsUse, IsStrong
<1>4. (\E e \in DOMAIN tests : IsUse(tests[e])) <=> \E e \in usage : IsStrong(e)
  BY <1>2, <1>3
<1> HIDE DEF tests
<1>6. PICK file : file = [routed |-> topicIds # <<>>,
                          named |-> \E k \in DOMAIN sdkTopics : sdkTopics[k].names # {}]
  OBVIOUS
<1>7. file.routed = (topicIds # <<>>) /\ file.named = (\E k \in DOMAIN sdkTopics : sdkTopics[k].names # {})
  BY <1>6
<1>8. MaxTopicBucket(topicIds, sdkTopics, usage) = TopicBucket(file, tests)
  <2>1. CASE topicIds = <<>>
    BY <1>7, <2>1 DEF MaxTopicBucket, TopicBucket
  <2>2. CASE topicIds # <<>>
    BY <1>4, <1>7, <2>2 DEF MaxTopicBucket, TopicBucket
  <2> QED BY <2>1, <2>2
<1> QED BY <1>6, <1>8 DEF tests

\* For any rules, configuration, SDK and tree the answer of a resolver is what the test sources
\* say: no name the SDK does not declare is sought, no project named without a mention, and
\* with no scan cut short no use is missed.
THEOREM TopicsStayFound == SelectingSpec => []TopicsAreFound
<1>1. TopicInv => TopicsAreFound
  <2> SUFFICES ASSUME TopicInv PROVE TopicsAreFound
    OBVIOUS
  <2>1. CASE resolution = Unanswered
    <3>1. \A k \in DOMAIN sdkTopics : sdkTopics[k].names \subseteq Sought
      BY SoughtNames DEF TopicInv
    <3> QED BY <2>1, <3>1 DEF TopicsAreFound, UsesAreFound
  <2>2. CASE scan.topic = 0 /\ Unroutable(LayerResolver) /\ resolution = Empty("no_route")
    BY <2>2, RefusalFindsNothing, BucketIsThatOfTheRoute DEF TopicsAreFound
  <2>3. CASE /\ scan.topic > 0 /\ (tree = NoXts \/ scan.topic > Len(topicIds))
             /\ resolution =
                  [bucket |-> MaxTopicBucket(topicIds, sdkTopics, usage),
                   modules |-> {e.project : e \in usage},
                   families |-> RecommendedFamilies(topicIds, usage),
                   reasons |-> TopicReasons(LayerResolver)]
    <3>1. UsesAreFound
      BY <2>3, ConclusionFinds
    <3>2. resolution.bucket = MaxTopicBucket(topicIds, sdkTopics, usage)
      BY <2>3
    <3> QED BY <3>1, <3>2, BucketIsThatOfTheRoute DEF TopicsAreFound
  <2> QED BY <2>1, <2>2, <2>3 DEF TopicInv, AnswerInv
<1> QED
  BY <1>1, TopicInvariance, PTL

===============================================================================
