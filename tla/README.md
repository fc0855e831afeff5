# Formal models of the XTS selector

This directory holds TLA+ models of `arkui-xts-selector`, the TLC
configurations that check them on small instances, and theorems about them
that TLAPS proves for all instances. Paths below are relative to
`src/src/arkui_xts_selector/` unless they start with `src/`.

1. [The system](#1-the-system)
2. [The components](#2-the-components)
3. [The modules and the code](#3-the-modules-and-the-code)
4. [The runs](#4-the-runs)
5. [Fairness and deadlock](#5-fairness-and-deadlock)
6. [What is proved](#6-what-is-proved)
7. [Where the code and its documents part](#7-where-the-code-and-its-documents-part)
8. [What is not modelled](#8-what-is-not-modelled)
9. [Plan](#9-plan)

## 1. The system

The program takes changed files of the ArkUI sources (a pull request, a list of
files, a query), finds the XTS test targets that exercise them, orders and
classifies these targets, plans runs of the targets on devices, executes the
plan, and leaves reports that later runs start from. Around this it prepares
packages of tests, SDK and firmware, flashes devices, resolves whole lists of pull
requests, and compares the results of runs. It is a command line
program. Several users start it on one machine, for the same devices; it is
interrupted by Ctrl-C, by terminals that close and by machines that restart.

```
 SDK, engine, tests --- project index, lineage, SDK registry (cached in files)
                                    |
 changed files, queries --+-- signals and scoring ----------+
                          +-- API graph (made by a script) -+-> report
                          +-- universal impact (topics) ----+      |
 list of pull requests ------ pull request resolver -> ranking     |
   (batch, its caches, its quality gate)                           |
                                                            coverage planner
 daily builds -> packages -> flashing                              |
                                                            execution plan, preflight
                                                                   |
                     device queues (threads)  --- inter-process lock per device
                                    |
                                plan items    --- hdc, aa test, xdevice, runtest
                                    |
     runtime history (one file, a lock)    run store (report, selected, manifest)
                                                                   |
                                                        comparison of results
```

Two things make it hard to test. In the lower half, threads of one process and
processes of several users share devices, lock files, a history file, caches and run
directories; commands hang, are killed at a deadline, or fail in the middle of
a sequence; a process can die between any two system calls. In the upper half
nothing runs concurrently, but a result is made by long chains of filters, fallbacks,
caps and tables with defaults, each right by itself, in which a mistake loses a
test silently.

## 2. The components

The status is the one in `PROJECT.json`, which also lists the hazards by line.

| Component | State | Operations, and what it shares | Hard | Correct when | Modules |
| --- | --- | --- | --- | --- | --- |
| Inter-process lock (`runtime_state.py`), modelled | the lock file, its flock, the JSON in it, open handles | acquire, release; called by queues and history | every call is a step of a race; the file is removed on the strength of metadata read earlier; holders die | one holder; a dead holder blocks nobody; every acquisition ends | `ExclusiveLock`, `DeviceLock` |
| Device queues (`execution.py`), modelled | queues, outcomes, summary, pool of threads | plan, submit, run under a lock, gather, interrupt | threads finish in any order; blocked, failing, hanging queues; Ctrl-C | a device executes one item at a time; each item has one outcome and is counted once | `DeviceQueues` |
| Plan item (`execution.py`), modelled | deadline, what is installed, the summary file | install, test, judge, uninstall | a deadline that runs out anywhere; stale files | passed means tested; the timeout holds; nothing stays unnoticed | `PlanItem` |
| Coverage planner, execution plan, preflight (`coverage_planner.py`, `execution.py`), partly | candidates, uncovered units, order; planned rows | greedy order, tiers; groups, options, sharding, tools; checks | ties, shared units, indices into different lists | no unit is lost; no two rows report to one place; a passed preflight means runnable | `CoveragePlanner`, `ExecutionPlan` |
| Runtime history (`runtime_history.py`), partly | one JSON file of samples | read, add, trim and replace under a lock | several users, permissions, kills | no sample of another run is lost | `SampleLog`, `RuntimeHistory` |
| Run store and life of a run (`cli.py`, `run_store.py`), partly | run directories with report, selected tests, manifest | name, write, list, start from a saved report | files are written in place; a run takes over a directory | what is listed is complete and agrees with the exit code | `SelectorRun`, `ComparingRuns` |
| Comparison of results (`xts_compare/`), partly | the runs found and loaded, rows of outcomes | find, order, load, compare, explain, exit | 36 pairs of outcomes and a default; times from two places; broken archives | a failing test is told; the newest run is the target | `XtsCompare`, `ComparingRuns` |
| Packages (`daily_prebuilt.py`, `progress.py`), modelled | `.part` file, archive, extracted directory, local tree | download, resume, extract, find, copy, clean | kills and errors between any two steps | what is used is whole and of the build asked for | `DailyPackage` |
| Flashing (`flashing.py`), partly | mode of the devices, the tool that writes | find a loader, boot into it, stream the tool, time out | a tool outlives its parent; several devices | success means that the image is on the device asked for | `Flashing`, `FirmwareUpdate` |
| Pull request cache (`pr_cache.py`), modelled | a file per request | modes, errors kept as entries | torn entries, prefetch beside a batch | a refresh is fresh | `PrCache` |
| Batch validation (`batch_validate.py`), partly | results list, caches, threads; the quality of the batch | resolve, save, resume; sum up, judge | kills while saving; counters kept apart from the entries | every request is answered; the sums agree | `BatchValidate`, `BatchQuality` |
| Index cache (`indexing/cache.py`), partly | index files by signature | load, build, save | edits the signature does not see | an index used is of the tree, or the edit was deep | `IndexCache` |
| Project index and API lineage (`project_index.py`, `api_lineage.py`), partly | three files of one cache | fast, compatible and slow path; build the map | edits at any time, kills between the writes | what is used is of the present tests | `ProjectIndex`, `ApiLineage` |
| Indexing of SDK, engine and tests (`indexing/`), partly | the registry of the SDK, usages | find a name, map a method, find its users | ambiguous, foreign, nested names | an API is declared; no use is lost without another in its place | `SourceToApi` |
| Pull request resolver (`indexing/pr_resolver.py`, `target_ranking.py`), partly | entries, counters, gap, ranking | nine resolvers, fallbacks, policy, ranking | each branch keeps its own books | every file is accounted for; ok means selected | `PrResolver` |
| Signals, scoring and ranking (`signal_inference.py`, `scoring.py`, `cli.py` `format_report`), partly | the lists of a report | infer signals, score, filter, tabulate, plan | five filters in a row, two tables of one coverage | a must-run test is planned; the tables agree | `Scoring`, `SelectionReport` |
| Impact resolution (`impact/`), partly | results per file, candidates | classify, resolve by topics, scan, cap | scans that stop early, crashing resolvers, caps | what is cut comes after what stays; a bucket is what the uses say | `UniversalPipeline`, `TopicResolver` |
| Selection graph (`graph/`, `hunk_impact.py`, `src/scripts/build_api_graph.py`), partly | nodes and edges in the order of a file | build, validate, store, query | order of edges, shared sources | the best evidence is selected; the graphs made are sound | `GraphFile`, `GraphSelection` |
| Policy and gate (`model/buckets.py`, `gate_adapter.py`), modelled | none | judge evidence | three copies of one policy | the copies agree | `SemanticGate` |

Not modelled, with the reason: git hosts (`git_host.py`; stateless requests to a
service), artifacts and build state (`built_artifacts.py`, `workspace.py`; readings of
directories, a choice in the plan's model), reports (`report_*.py`; layout), quality
measurement (`benchmark.py`, `quality_*.py`, `audit/`, `coverage/`, `validation/`; offline
statistics), the remaining scripts.

### How the components interact

`SelectorRun` is `main()`: it calls the report, the planner and the plan,
the preflight, the execution (`DeviceQueues`, which calls `PlanItem` for each
item and the lock for each queue), the update of the history, and writes the files. Each of these
is modelled in full in a module of its own and, in the module above, as a
choice of its outcome.

* `ExclusiveLock` is what the callers of the lock assume, `DeviceLock` what
  `runtime_state.py` does. `DeviceQueues` is shown to use the lock as
  `ExclusiveLock` prescribes; `DeviceLock` is shown to be an `ExclusiveLock` as long as
  no process has died, and not to be one afterwards (section 7). Results about
  exclusion in `DeviceQueues` and `RuntimeHistory` hold under the abstract lock, hence
  for real runs up to the first crash.
* `Selecting` composes all ways from a change to its tests. They share operators
  (`SemanticGate` with the graph, `Scoring` with the report and the indexes, the map of
  lineage with the builder of graphs) and a behaviour takes one way, except that a graph
  which was made is then asked. Properties that relate two ways are stated there.
* `ComparingRuns` composes the two ends of the run store: the runs that write it and the
  comparison that reads it by label.
* `BatchValidate` composes `PrCache` and `IndexCache`; the resolution of one request is a
  version there, and `PrResolver` with `BatchQuality` says what it is.
* `FirmwareUpdate` composes `DailyPackage` and `Flashing`: the image that is flashed is the
  directory that was extracted.

## 3. The modules and the code

`PROJECT.json` maps every definition to its lines. Here is what the state stands for and
what was abstracted.

### Lock, queues, items

**ExclusiveLock.** `Request`, `Acquire`, `GiveUp`, `Release` over `holders`, `waiting`,
`ended`.

**DeviceLock.** One action for each system call of `acquire_interprocess_lock`:
`link` is the inode that the path names, `flock` and `meta` the owner and the pid of each
inode, `handle`, `seen`, `polls` the local variables. Path and inode are apart because
`flock` excludes on the inode while `unlink` changes the path; `Truncate` and
`WriteMetadata` are apart because a reader in between sees an empty file and one before
them the metadata of the previous holder. `JudgeLive` is also enabled for a dead pid,
which may belong to another program by then; `TimeOut` after any poll, because a slow
process may find its deadline passed.

**DeviceQueues.** `Plan[r]` is the plan of a run, a sequence of items with a queue and
whether they can run; `LockOf` maps labels to lock files, since two labels can sanitise to
one name. `PlanRun` is `execute_planned_targets` up to the submission; `StartQueue`,
`TakeLock`, `LockBusy`, `LockTimeout`, `LockRaises`, `StartItem`, `FinishItem`, `ItemRaises`,
`CloseQueue` are a thread; `Merge`, `GatherRaises`, `Finish` are the main thread, which
gathers in the order of submission; `Interrupt`, `EndInterrupted`, `EndFailed`, `Abandon`
(a second Ctrl-C while the pool is drained) are the ways out.

**PlanItem.** `now` counts ticks; each action is one command that takes up to its time
limit and ends, fails, is killed or raises; `Judge` gives the status from exit code, output
and summary.

### History, run store, comparison

**SampleLog, RuntimeHistory.** The promise is one action that adds the samples of a run to
those before it. The detailed module has `Collect`, `Acquire`, `GiveUp`, `Load`,
`WriteTemporary`, `Replace`, `ReplaceFails`, `Release`, `Die`, with the owner of the file, the
sticky bit and the owner of the directory, and the copy a process has in memory. Two users who
share a directory do not share a log (section 7). What is left is the log of one user, whose file nobody else may replace:
the module refines `SampleLog` for the runs of `Reader`, with `hist` as the file that he sees.

**SelectorRun.** `disk[d]` has the three files of a run directory, each absent, partial or a
document with its run and status. A `write_text` is `OpenFile`, which truncates, and
`FillFile`. Execution, preflight and history are steps that succeed or fail.

**XtsCompare.** `world` is the disk and the store, `command` the arguments; the stages are
`main()` of `xts_compare/cli.py`: the runs are searched (directory scan), ordered by times,
loaded with their duplicates merged, compared row by row, explained (failure types,
fingerprints, trends over several runs), joined with a saved selection, and turned into an
exit code. A message is the set of patterns that match it. `sorted()` puts a run at the `Position`
that as many come before; a path that is given twice is there twice. **ComparingRuns** adds the runs
that write the store.

### Planner and plan

**CoveragePlanner** is `build_global_coverage_recommendations` from the gains on: `Winners`,
`Pick` (one turn of the greedy loop), `EndGreedy`, `Classify`. What the ranking says of a target is
a profile from `Profiles`. **ExecutionPlan** adds `Attach` (groups, priority, names, limit,
sharding, sessions, tools, report paths) and `Preflight` in every environment.

### Packages and flashing

**DailyPackage.** A build has blocks to download and members to extract; `part`, `archive`,
`extracted`, `local` are the files. Each call goes through `download`, `extract`, `discover`,
copy and cleaning; the server sends a range, everything, too little or an error; any step
fails or is killed, and the next call starts from what is there. **Flashing** has devices as
environment (hdc, booting, loader), `flash.py` as the child and the tool that it
starts as another process which outlives it. **FirmwareUpdate** joins them.

### Batches

**PrCache**: the modes, whole and torn entries, entries of failed fetches, the prefetch
script; data are versions of the request. **IndexCache**: files by signature, where the
signature is that of the root and its first directories. **BatchValidate**: threads take
requests, read or fetch, resolve, save every few results; kills, resumption, three modes;
authors push and trees are synced meanwhile. **BatchQuality**: `Summary` is what
`_summarize_result` makes of the entries of a request, `Quality` what the end of the batch
makes of all, the gate included; rates are pairs of numbers, and their sum runs along the requests.

### From a change to its tests

**SelectionReport** is `format_report`: each item (file or query) gets its signals
and the projects their points (**Scoring**), the filters and tables what is shown, and the
planner its candidates. Names are sets, texts the sets of names they contain; weights keep
their values.

**GraphSelection** has a graph as the sequence of its edges and uses, `AskSymbols`, `AskLines`,
`AskFile`, `Lookup`, `SumUp`; **SemanticGate** is the policy for must_run in its three copies
and the adapter; **GraphFile** makes the graphs (the builder script with any of its roots
missing or told to take the committed graph, and the adapters), validates, stores, reads and searches them; it also reads
the lines of the tests, the runnability of projects and the equivalence of a use.

**UniversalPipeline** takes what a resolver finds of a file as a record, judges it and joins the
files; then the fan-out limiter caps the candidates. The sorted list it goes through is the set of those still
to be judged, with the order of the sort key: the next one is the `Foremost`. **TopicResolver** is one file inside the four
resolvers: first matching rule, first matching route, names of the topics in configuration and SDK, a scan of
the tests with a deadline and a limit, in the order of the lines. Names, families and edges are sets. A
scan goes through places `<<directory, extension, source>>`; what it reads next is the first one in their order that it has not
read.

**PrResolver** is `_resolve_pr_core`: a file is a record of what the nine resolvers answer for
it (`matches`), its mappings, risk and importers; `Resolve` takes them in the order of the code,
with the reasons, counters and gaps each branch keeps; then enrichment, fallback and
ranking (`target_ranking.py`), where a target is kept by its rank: the number of those before it. **SourceToApi** is where mappings and consumers come from: names
are values, and what the code does with their texts (prefix, suffix, substring, case) are
relations given as constants.

**ProjectIndex** has the three cache files with their times and states (whole, torn, absent),
the three paths into the cache, and the two calls of `build_api_lineage_map` in a run with changed
files; a tree may be edited before any step, also between the reading of the tests and their
signature or between the signature of the inputs and the map, and a run be killed at any
step, with a file opened and empty. **ApiLineage** is what a map is built from. **Selecting** is their composition, with the
ways "report", "graph", "making", "universal", "topics", "request", "indexes" and "lookup".

### MC modules

The modules whose names begin with `MC` hold the instances. Definitions with `Variant` in
their comment are plausible mistakes; nothing refers to them. Each is named under `mutants`
in `PROJECT.json` with the definition it replaces and the property that then fails.

## 4. The runs

Nine instances, all of which stop within four minutes on two workers, and three runs
for a statement that the code does not keep.

| Run | Instance | Distinct states |
| --- | --- | --- |
| `DeviceLock` | 3 processes, 4 inodes, 1 poll | 242,000 |
| `DeviceLock_mutex` | the same, safety only | violation |
| `DeviceQueues` | 2 runs, 3 queues on 2 lock files, one run with 2 threads | 243,000 |
| `PlanItem` | every item, 2 HAPs, timeout 6 ticks or none | 27,000 |
| `RuntimeHistory` | 3 runs of 2 users, a sticky directory of the first, 2 samples kept | 1,400 |
| `RuntimeHistory_shared` | the same, 3 samples, the log of both users | violation |
| `SelectorRun` | 2 labelled runs and one from the latest saved report; or comparisons of 2 or 3 results of 3 tests | 646,000 |
| `ExecutionPlan` | 3 targets of 13 profiles, 2 changed files, 2 devices, 15 command lines | 193,000 |
| `FirmwareUpdate` | 2 builds (tests, SDK or firmware), 2 blocks, 3 members, 2 devices, 2 tools | 1,033,000 |
| `Batch` | 2 batches over lists of 1 and 2 requests, 2 threads, 1 event | 888,000 |
| `Selecting` | the eight ways, see below | 767,000 |
| `SelectionReport_paths` | the reports of `Selecting` | violation |

What the properties say (each is stated in full at its definition):

* *DeviceLock*: `ExclusionWhileAllLive`; `SettledUntilReleased` (a holder whose metadata are
  written is never displaced, whoever dies); `ActsAsLockWhileAllLive` (refinement of `ExclusiveLock`);
  `AcquireTerminates`; `TypeOK`.
* *DeviceQueues*: `DeviceExclusive`; `CompleteReport` (when the call has returned, every item has
  one outcome, counted once, of the queue's fate, and nothing runs on); `OutcomesAreFinal`;
  `UsesLocks` (refinement); `TimedRunsEnd`.
* *PlanItem*: `PassedMeansTested`; `WithinTimeout`; `CleanAfterTest`; `OutcomeOK` (a timeout is
  told only when no time was left; the summary that is told is of this test).
* *RuntimeHistory*: `ReaderKeepsLog` (refinement: the user that made the root finds the log of his own runs,
  whatever others do); `UpdateOK` (an update that returns has
  recorded; nothing is left behind).
* *SelectorRun*: `RunOK` (what is listed has its report; manifest and exit code agree);
  `ManifestFollowsReport`; `VerdictIsSound` (the exit code tells the regressions; failures are on a list, up to the silent
  pairs of outcomes that it names; the comparison the other way round mirrors it; predictions are accounted for; trends
  have witnesses); `RunsAreTheNewest` (runs are in the order of the times that all have, and the limit
  on runs drops the oldest).
* *ExecutionPlan*: `UncoveredMeansUntestable`; `BestFirst`; `PlanOK` (report paths are distinct, a
  wider tier runs at least what a narrower one runs); `PassedMeansConnected`.
* *FirmwareUpdate*: `PackagesOK` (a `.part` file is a beginning of its package, whatever was interrupted or resumed; the files
  that a call uses are of one whole build, up to the two ways that it names); `CacheOutlivesCopy`; `FlashedIsWhole`;
  `OnlyAskedDevice` (a call that names a device writes no other, up to devices that were in loader mode or booting
  before it).
* *Batch*: `SavedWorkIsUsed` (what was saved whole is neither fetched nor resolved again);
  `EveryRequestIsAnswered` (a batch that returns has saved one result for each request, whenever one before was
  killed); `RefreshIsFresh` (a refresh uses nothing older than itself).
* *Selecting*: `MustRunIsPlanned` (a project with a must-run score in a report is planned,
  unless a filter that the property names has dropped it); `CoverageIsTold` (dropping duplicates loses no type or member of
  the change; the table of gaps agrees with that of functions); `EvidenceIsSound` (a query finds the best
  evidence in the graph; the graphs made are valid, pass through the file unchanged, and hold all that their roots
  give); `LimitsKeepTheBest` (a target is cut only where a cap is used up by targets that
  come before it in the order of that cap; the ranking never cuts one with canonical and direct evidence from one file);
  `RequestIsAnswered` (every file of a request has an entry or is listed as unresolved; the gap names the APIs without tests; "ok" means that
  each file selects something or needs nothing, and that a ranked answer has lost all tests of a file only to full buckets; the quality of a batch adds up); `TopicsAreFound` (the uses of a topic are
  in the tests and what the resolver answers is what the pipeline takes it for); `IndexesAreCurrent` (what a run without
  edits takes from the caches is of the present tests, or empty of them, whatever was edited or killed in the runs
  before; left aside is what a run left that signed tests edited since it had read them); `IndexesServeTheReport` (the map
  of lineage agrees with itself and the SDK; a query by surface loses no project; the registries give a method its own API
  and every user of it).

**Bounds, and why they are enough.**

* *DeviceLock.* Three processes are a dead holder and two that race for its
  file, the smallest set in which the stale-lock race shows; the fourth inode
  lets each process create a file while the last is still open. One poll lets
  the loop be taken both ways. The proofs of section 6 lift the bounds.
* *DeviceQueues.* Two threads for three queues make one queue wait for a thread;
  two queues on one lock file block each other inside a run; the second run has a
  queue of two items on a device that the first wants.
* *PlanItem.* A timeout of 6 ticks lies between the smallest budget (2, for 0.05 s)
  plus the cut-off (3, for 0.06 s) and the fixed timeout of `install_command`
  (8). Two HAPs let the deadline fall into every command.
* *RuntimeHistory.* Three runs with two samples kept make the oldest fall out; one run
  reports a target twice, one reports a result that does not count.
* *SelectorRun.* Two runs with directories of their own and a third that takes over either. Three tests,
  all pairs of outcomes; a third run for trends.
* *ExecutionPlan.* Three targets are the least for a greedy order in which a pick changes
  the comparison of the two left. Limits of 0, 1 and 2 lie below and at the number of targets.
* *FirmwareUpdate.* Two builds can be mixed; two blocks give a part of a download, three members a part of an archive; a
  second tool can still write when the next call begins.
* *Batch.* Two batches are a kill and a resumption; the second list holds a request of another repository
  with the same number. One push, sync or prefetch, at any point.
* *Selecting.* Four of ten kinds of test project in a report, since a filter needs one to keep and one to drop; three uses and two sources in any order
  in a graph; three changed files for the pipeline and for a request, since the third can be
  affected by what two have left in the counters; caps of one or two targets; three test sources with up to three
  mentions in each for a scan, cut at any of them; two edits, which bring every tree to another version or one to its third, and any number of kills; eleven names in each of
  eleven pairs of role and prefix, four families and four registries for the lookups, with every kind of
  ambiguity (two parents, overloads, cases, a type with the name of a member).

All bounds are constants of the modules, given in the `.cfg` files or the `MC` modules.

## 5. Fairness and deadlock

Safety runs use the plain specification. Fairness is stated in two modules.

* `DeviceLock!FairSpec`: weak fairness of `AcquireStep(p)`, for each process. A process
  in `acquire_interprocess_lock` makes non-blocking calls and short sleeps, so the
  operating system lets it go on. Nothing says when a process starts, how long it holds the
  lock, or whether it dies.
* `DeviceQueues!FairSpec`: weak fairness of the main thread and of each queue's
  thread, for which an error of the lock file does not count (`QueueAdvances`). The end of an item is fair only for runs with `--run-timeout`, because only then
  does `subprocess.run` kill a command; without it a test may hang for ever, and
  `TimedRunsEnd` promises nothing for that run. That a lock is given up comes from the
  deadline of the lock, not from fairness of its holder.

All runs set `CHECK_DEADLOCK FALSE`: the modelled calls return and
processes end, after which nothing is left to happen. That nobody is stuck before is what
`AcquireTerminates` and `TimedRunsEnd` say, where the code justifies them.

## 6. What is proved

TLAPS checks these for every value of the constants that the assumptions of the modules
allow: any number of processes, runs, devices, files, targets and requests, and any bound. Each
theorem on a run's property has the form `Spec => []P`, and follows from an invariant that the initial
states satisfy and every step keeps. The properties are not inductive themselves; the invariants
were first checked by TLC on the instances of section 4. The assumptions on the constants are stated
in the module that declares them, and TLC evaluates them on every run. The ones that are more than types:
units, names and threads are finite; no device is given twice on a command line; the server
has no empty packages, and every package but that of no kind has the file by which its
kind is recognised; the smallest budget of a command is positive and below the cut-off of a test; the test projects are finitely
many, and numbered where the code sorts their paths; a rule of the overrides names a target, and the resolvers of bridges and of C++ files never
state a low risk; a summary of an earlier request counts no part beyond its whole; a source of a tree
has a path of its own; and a time, a size and a duration of a result are natural numbers, 0 where there is none.

**`DeviceLockProofs`.** `Invariance`: `Spec => []IInv`, where `IInv` is

* `TypeOK`;
* `HandleInv`: a process has a file open exactly where the code has one, and none when it is idle or ended;
* `FlockInv`: a process past `flock` owns the flock of the inode it has open; the dead own nothing;
* `LinkInv`: while all processes live, nobody is about to unlink and whatever is open is what the path names;
* `MetaInv`: the metadata in the file of a holder are its own.

`ExclusionWhileAllLive` is not inductive by itself: flock excludes on an inode, and two holders of two
inodes are excluded only because, with nobody dead, no metadata make a lock stale, so nothing is
unlinked and all handles are of one file (`LinkInv`); then `FlockInv` gives one owner. `Exclusion` and
`TypeCorrect` follow. `SettledIsStable` proves `Spec => SettledUntilReleased`, with crashes: to displace a
settled holder a process would have to judge its metadata stale. A process that reads the path later
reads the holder's own pid (`MetaInv`), and the holder lives (`FlockInv`). `ImplementsLock` proves the
refinement `ActsAsLockWhileAllLive`: each system call maps to a step of `ExclusiveLock` or to a
stutter, where taking the flock is `Acquire` because then no other process is past it.

**`DeviceQueuesProofs`.** `Invariance` relates four things: the holders and waiters of a lock file and
the threads that are in a call of it; what is left of the queue of a thread and the item it is
at; the outcomes an item can have by where its queue is; and the counters of the report and the
outcomes gathered. From it: `Exclusive` (`DeviceExclusive`; two items on a device are in queues of one
lock file), `Complete` (`CompleteReport`; the counters are cardinalities of sets of items, so each
`Merge` adds the items of one queue, which no other queue has), `Final`
(`OutcomesAreFinal`, an action property) and `LocksAreUsed` (`UsesLocks`, the refinement for
each lock file).

Of `PlanItem`, which a queue executes, `ItemInvariance` has, for each place in `_execute_plan`, what is settled there: what
was installed, whether the summary on disk is of this test, and how the clock stands to the deadline.
`PassedIsTested`, `EndsInTime`, `CleansUp`, `OutcomeIsRight`. The bound on the clock is arithmetic over
any durations: a command gets the rest of the time, but at least the smallest budget, so only
the last command can pass the deadline, and by less than that budget.

**`SelectorRunProofs`.** `Invariance` says where each run writes, which of its files are whole at each place
in `main()`, and which manifests the list stands on. `RunsAgree` (`RunOK`) is proved for runs that keep to directories of their own (`OwnDirectories`): two labelled
runs of one second get one directory (section 7), and then neither it nor `ManifestFollowsReport` holds.
`ManifestIsLast` (`ManifestFollowsReport`) is proved for these and at most one run at a time that starts from a saved report
(`OneReuser`): two of them rewrite the same files, and one can list what the other has
truncated. Both hypotheses hold in the instance that TLC checks: two runs have directories of their own and
one starts from the latest report saved.

The same module has the theorems about the comparison that reads what these runs left (`ComparingRuns`).
`CompareInvariance` has, for each stage of `main()`, what is settled there: which codes and what output go
with it (`StageInv`); that the runs to load are the end of a sort of all paths that were given or found
(`SourcesInv`: while a directory is searched, the archives found and those among the entries left are together
all of them); that each loaded run is what `Load` reads at its place (`LoadedInv`); and that what is shown was
computed from the loaded runs (`ShownInv`). `VerdictsAreSound` (`VerdictIsSound`) then needs what the
computations return for any results: a regression is a pass that became a failure and nothing else
(`OfKindFacts`, over all pairs of outcomes); the causes are a partition of the failures, each under its shortest
message (`ClusterFacts`); the comparison backwards is the mirror (`ComparisonMirrors`); a regression is charged or
missed (`PredictionsAccounted`); and an improving, regressing or flaky row turns (`TrendFacts`: the halves of a
row differ by one run at most, so unless all passed, the half with fewer passes has a run without one).
`RunsStayNewest` (`RunsAreTheNewest`) rests on the sort: positions are cardinalities, they are below
the length and differ, so that they are a permutation (`SortedFacts`, by counting), and times ascend along
them; the limit cuts the beginning of that list.

**`ExecutionPlanProofs`.** `RecommendationLosesNoUnit`: `Spec => []UncoveredMeansUntestable`.
The invariant `CoverInv` is `OrderInv` (the ordered and the remaining targets are together all candidates;
an ordered target lists as new all that was planned with it; nothing planned with a remaining target has
been crossed off) and `StatusInv` (of the candidates, all those with a planned unit are recommended, and
nobody else). A unit that some target covers has a winner (`WinnerExists`: the keys are compared
lexicographically, so a winner is found by four successive minima over well-founded orders), and only one
(`WinnerUnique`), which is why crossing off the units of one target takes none from another.
`GreedyIsBestFirst` (`BestFirst`): the gain of a target is a sum over the units that are still uncovered; it
can only fall when units are crossed off, so a target picked later cannot have had more to add.
`PlanIsRight` (`PlanOK`): the groups, the names and the priority filter one list, so the lists of a narrower
priority are contained in those of a wider one, also below a limit; and a report path is named after
shard, target, device and session, from which each of them can be read back.
`PreflightIsSound`: `Spec => []PassedMeansConnected`, from `RowInv`, which relates
the tool of every planned row to the profile of its target.

The same module has the theorems about the gate (`SemanticGate`). The policy is written three times; the
theorems are about all evidence, not about runs. `GateAgreesWithPolicy`: the list of reasons that
forbids a must-run test is empty exactly when the policy allows it. `GraphMustRunPassesGate`: a relation
that the graph's own copy calls must_run passes the gate. `LegacyMustRun`: which evidence of the older
scoring the adapter lets be must_run, its shortcut included. `ScoreFollowsBucket`: a better bucket
never has a lower score.

**`FirmwareUpdateProofs`.** `Invariance` says for each step of a call what each file of the cache and of the
local tree can hold, which copies the call uses, and which parts of which image a device has.
`PackagesAreRight`, `FlashIsWhole`, `CacheIsCleanedLast`, `AskedDeviceOnly`. The hard part is what survives a
call: a `.part` file is a beginning of its package because every way to extend it starts at its end or
truncates it, and an extracted directory without a mark of an interrupted call is whole.

**`RuntimeHistoryProofs`.** `Invariance`: the file holds samples of recorded runs only, a process is in the
update exactly while it has the lock, and a copy between load and replacement is the file with the
samples of its process (`CopyInv`), since whoever changed the file in between would have the lock.
`UpdateIsOK` (`UpdateOK`) needs no more. `ReaderHasALog` (`ReaderKeepsLog`) assumes that no other user may replace
the history of the reader (`ReaderIsSafe`: the root is sticky and the others do not own it, or there are no others); this
is the case of the run. `ImplementsLog` (`ImplementsSampleLog`), the log of all users, needs more: that nobody can replace
what he cannot read (`OwnHistory`: one user, or a sticky root whose owner runs nothing). The default root
does not meet it, and the run `RuntimeHistory_shared` is the counterexample.

**`BatchValidateProofs`.** `InductiveInvariant` has seven parts: types; what each phase of the main thread
has behind it (`PhaseInv`); the account of the requests (`AccountInv`: for every number, the results
collected or waiting and the threads at work are as many as the requests taken); what there
was when the batch started (`StartedInv`); the indexes (`IndexInv`: a stored index is at least as new as its key,
which is taken before it is built); what a refresh has (`FreshInv`); and what a batch before
has saved (`SavedInv`). `RequestsAnswered` (`EveryRequestIsAnswered`) is the account with
nothing at work and nothing waiting; `Freshness` (`RefreshIsFresh`); `SavedWork` (`SavedWorkIsUsed`): an
answer saved is torn only by a thread that resolves its number, and no thread has a number whose
answer was whole at the start.

**`SelectingProofs`** has a part for each of four ways from a change to its tests.

*The indexes.* `IndexInv` says of each of the three files of the cache of which state of the trees it can
be, whatever was edited and killed before: that of the projects of some state of the tests (`CacheInv`), the
one with their signatures of no later state than that (`MetaInv`), that of the lineage of the trees as
they were when the inputs were signed (`LineageInv`). States of the tests are vectors of counts of edits (`Past`), and "no
later" is their order (`Upto`). `RunInv` and `MapInv` say the same of what a run has in memory. With them
`CurrentInv`, and with it `IndexesStayCurrent` (`IndexesAreCurrent`), is inductive. A run that was killed
between its two files leaves new projects with old signatures; the next run then finds as
changed what it has already, which is why the invariant needs the order of the two files and not only what is in each.

*A request.* `ReqInv` relates each entry to what the resolvers answer for its file (`EntryInv`), the counters,
the gap and the risk of the whole to the entries (`TotalsInv`), and the targets after the ranking to those before
it (`RankInv`). `RequestsAreAnswered` (`RequestIsAnswered`) has its parts as theorems of their own: `FilesAreAnswered`
needs of the ranking that a bucket from which something is dropped is full; `RankingKeepsTheStrongest` is about ranks as
cardinalities of the sets before a target, which are 0, 1, ... without a gap (`BucketIsFull`, by counting), so that as many
stay as the cap allows; that the quality of a batch adds up is an induction along the entries and along the requests.

*The limits.* `UniversalInv`: what is kept, dropped and still to judge is together all that the resolvers found
(`FoundInv`, `JudgedInv`), in the order of the sort key, which is total because no two
candidates have one key; nothing is above its caps, and what was dropped met a full group or bucket when it was its turn
(`CapsInv`). `LimitsStay` (`LimitsKeepTheBest`): a cap that was met stays met, and what filled it comes earlier.

*Topics.* `TopicInv`: each edge is of the first mention of a sought name in a source of the scan (`EdgesInv`);
while no scan was cut, each name that a read source mentions has its edge (`ScanInv`); the answer is made
from all edges (`AnswerInv`). `TopicsStayFound` (`TopicsAreFound`).

**Recursive definitions.** Sums over sets and lists filtered one by one are recursive functions. What
they return is proved by induction over a set of numbers (the numbers for which the statement holds
contain 0 and the successor of each member), which needs no operator as a parameter: lemma
`Induction` or `LeastNumber` of these modules, the latter through the least counterexample. The operators of the library for
sorting, filtering and joining sequences are opaque to the prover. What the code sorts is therefore modelled, where
a theorem is about it, as a set with the order of its sort key, from which the next element is taken or in which a rank is counted.

**Only model-checked.** Liveness (`AcquireTerminates`, `TimedRunsEnd`) is beyond the
prover. Four safety properties have no theorem. `MustRunIsPlanned` and `CoverageIsTold` are about a report,
`EvidenceIsSound` about queries of a graph, and `IndexesServeTheReport` about the registries. All four are about
computations of one step, from an input to
an output through sorted and filtered sequences and folds whose items are judged by operators; a proof
would have to begin with another form of these modules, as it was done for the comparison and for the four ways above, and
would show little about interleavings or histories, which those modules do not have.

## 7. Where the code and its documents part

Three statements have a run with a counterexample; `PROJECT.json` quotes the lines.

1. *`DeviceLock_mutex`.* `src/README.md:26` promises crash-safe locking. After a crash, two processes read
   the dead pid; the first unlinks, creates and locks a new file, the second unlinks
   that file and locks another. Both execute on one device.
2. *`RuntimeHistory_shared`.* The history file is created by `mkstemp` with mode
   0600. The next user cannot read it, takes it for empty and replaces it where he may: in a root without a sticky
   bit always, and in the default root below `/tmp`, which is sticky, if he is the one whose selector made it
   (`runtime_state.py:83-85`), as in the trace. The others' updates fail there instead.
3. *`SelectionReport_paths`.* The document on scoring says that a ubiquitous symbol keeps its
   full points when the path of the file contains it. The path that the scoring looks at is
   empty in every indexed file, because its builder leaves the argument out.

Met while modelling, visible in the models, without a run of their own:

*Runs and plans.*
- An item that runs out of time between its HAPs and its test leaves the HAPs on the device
  without a note (`execution.py:1152`; the comment at line 835 speaks of cleaning).
- An exception of the execution or of the history update ends the program before an executed
  run is written (`cli.py:3591`; `src/docs/CLI_REFERENCE.md:206`).
- The boost for the target's own family reads a variable left over from the previous loop
  (`coverage_planner.py:848`; the comment at line 842).
- A split shard is chosen by the index among all groups, so that selected targets can share a
  device (`execution.py:734`; `CLI_REFERENCE.md:198`).
- `--run-timeout` is "per command" in `CLI_REFERENCE.md:204` and per item in the code; two runs with one
  label in one second share a directory (`run_store.py:67`), where the later one writes over the report of the other. No
  property is about this; `RunOK` and `ManifestFollowsReport` do not hold with it.

*Packages and flashing.*
- A complete `.part` file that was not renamed asks for a range past its end and gets 416 for ever.
- A damaged archive, or a kill, leaves a directory that the next call takes as extracted; a
  failing cleaning leaves a partly removed one.
- Any device in loader mode is taken, also one that an earlier call for another device has left there (`flashing.py:412`):
  `OnlyAskedDevice` leaves such devices aside. A call that timed out leaves the upgrade tool writing.
- Nothing protects the download cache from a second process.

*Batches and caches.*
- A cache file that was cut inside a character of several bytes raises `UnicodeDecodeError`, which the readers do not
  catch (`pr_cache.py:137`, `batch_validate.py:167` and `664`, `indexing/cache.py:78`). The models count every torn
  file as one that cannot be parsed, which is what the files are where they are cut between characters.
- The result cache knows the number of a request only, not its repository or its version.
- A second read-only batch makes requests after all, for entries whose fetch had failed
  (`src/docs/API_XTS_QUALITY_TASK_HANDOFF.md:121`); a resumed batch does not retry failed requests, and
  then ok and errors need not add up to the number of requests.
- The SDK signature in the name of an inverted index is taken after the SDK index was loaded.
- No resolver gives the provenance that the strict canonical hit rate counts, so that it is
  always 0; the rate of the actionable files can exceed 100%; unresolved counts include files
  that are not of the product; a file whose targets the ranking drops counts neither as
  covered nor as unresolved.

*Requests.*
- A bridge of the kind infrastructure clears `has_family`, which an earlier file has set.
- The fallback's docstring says that extra targets are added to the projects of a file; the code
  only reports them. The policy is computed before the ranking, and the ranking keeps the
  reasons of dropped projects. The answer of `cli.py:3108-3183` is reported without a ranking; the results of a batch are ranked
  (`batch_validate.py:759`), and a file can have lost all its tests there while the policy still is "ok".
- The ranking caps its buckets one by one: the 41st target of "recommended" is dropped, a strong target of an override
  among them, while weaker targets of "fallback" stay.
- A comment-only change loses the confirmation by the SDK; an exact provenance is overwritten by
  "member_index".

*Reports.*
- `src/docs/knowledge/SCORING_PIPELINE.md` says that ubiquitous imports are no non-lexical
  evidence; they are, because the reason text is compared with the bare name.
- Projects with 12 to 14 points are shown and counted as covering but never planned.
- The top score of an unresolved file is that of the first entry in the order by scope, so that a file with a must-run
  test can be listed as having only weak matches.
- Removing duplicates keeps the first by scope, not the highest score, and can lose indirect
  coverage; the table of functions ignores hints of members.

*Graph and impact.*
- The builder writes the graph under the key "graph", and the command reads the whole
  document as a graph, which is then empty without a word (`cli.py:3224`).
- The edges of built graphs have no symbol, so that a query by symbol finds nothing; their projects have no
  node of their own, so that all projects that use an API collapse to one selection.
- The confidence of a source is that of the first edge that names the API; `backs_component`
  edges give none; "weak" of a configured rule does not count as shallow.
- The cap for each API acts on all, because candidates have no API name; scans that stop
  early, and layers without or with crashing resolvers, are not told.
- The first mention of a name makes its edge, so that an import line hides a use behind it.
- `NativeEventResolver` documents files that the pipeline sends to another resolver, which
  does not take them; names with an underscore are never found in tests, so that the topics
  of native events and nodes have no uses.
- Routing directories hide all others once one of them exists.

*Indexes.*
- Projects taken from the cache have no files; a map of lineage that is built then has no users
  from the tests and is kept until a test changes. `IndexesAreCurrent` states exactly this.
- A test that is edited after a run has read it and before the run has signed all tests is signed
  as edited but kept as it was, and the file of the projects is newer than the edit if that came before
  the write: later runs use the old project until another test changes. The comment at
  `project_index.py:463-467` says that such a file "cannot be stale". The history variable
  `raced` marks these behaviours, and `IndexesAreCurrent` leaves their projects aside.
- With `--no-cache` the signature of the map has no trace of the tests.
- Hints end in "Impl", but the expression that detects functions swallows the "Impl".
- `find_attribute_member` falls back to any parent if the name is unique in the SDK, so that a
  member of another component is "confirmed"; two overloads make a name ambiguous.
- The users of a longer member hide those of an ambiguous shorter one; an alias in the SDK is
  not looked for under the name that it stands for; parents are never set, so that there are no
  descendants.
- A changed file without mappings takes those of any file with its base name.

*Comparison of results.*
- PASS to ERROR is a regression, though the docstring says a change of status; UNKNOWN to FAIL and
  missing to ERROR are changes of status, on no list and with exit code 0.
- One archive that breaks while it is read ends a directory scan with exit code 2 instead of being skipped; an
  extraction that fails leaves its temporary directory.
- A directory that holds several unpacked runs is taken for one run.
- BLOCKED, PASS, BLOCKED is "improving".

## 8. What is not modelled

Inside the modelled components:

* *Texts.* How names are read from C++, ArkTS or diffs is an input of every module: a file is the
  set of the names that the parsers find in it. Relations between texts (prefix, substring, case) are
  constants where the code depends on them.
* *Planner.* How gains are computed: a profile is any gain and score within the bound, as integers,
  so that rounding and `isclose` do not occur. Every target is taken to be shown.
* *Plan and items.* Command texts, the parsing of `hdc` output, the index of execution
  artifacts; what goes on on the device after a command was killed on the host.
* *History and store.* Estimates of run times, label look-up, `--json-out`.
* *Packages.* The list of builds and the choice among them, which are the server's answer.
* *Requests.* `PrResolver` takes the mappings and users as inputs, `SourceToApi` computes them for
  one file; the two are not composed in one behaviour, because the names of one and the flags
  of the other would multiply the states. Line ranges of methods are a flag.
* *Lineage.* The member index of the sources, which nothing uses. The tests are read in one step, and so
  are the sources for a map.
* *Graph.* The layout of the exported document; `compare_graph_selection`, which only tests call.
* *Comparison.* Formatters; the reading of crash logs; the bonus in the health of a module.
* *Universal impact.* The tables of routes and topics are represented by some entries of each
  kind; the precision entry point is left out.

The other components are at the end of the table in section 2, each with its reason.

## 9. Plan

The models of the first ten steps of the plan exist: lock, queues and item, history, run store,
planner and plan, packages and flashing, batches with their caches, the selection in all its ways, the
comparison of results, and the indexes. What is left:

1. Theorems about the computations of one step: `CoverageIsTold` and `MustRunIsPlanned` of a report,
   then `EvidenceIsSound` and `IndexesServeTheReport`. Each needs its lists as
   sets with an order first (section 6).
2. `RuntimeHistory` over `DeviceLock` instead of the abstract lock.
3. `PrResolver` over `SourceToApi`, on two files.
