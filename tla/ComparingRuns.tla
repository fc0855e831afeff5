---------------------------- MODULE ComparingRuns ----------------------------
(* The two ends of the run store: selector runs that save their results and the
   comparison of results, which finds them by their labels.  A behaviour takes one of
   the two ways; the comparison reads a store that nobody writes meanwhile.    *)
EXTENDS SelectorRun, XtsCompare

VARIABLE end    \* the end of the store that this behaviour is about

comparingVars == <<end, vars, compareVars>>

NoRuns == Init
NoComparison ==
  /\ world = [files |-> <<>>, store |-> {}, folder |-> <<>>]
  /\ command = [base |-> FromPath(0), target |-> FromPath(0), timeline |-> <<>>, paths |-> <<>>]
  /\ stage = "idle" /\ entries = <<>> /\ sources = <<>> /\ loaded = <<>>
  /\ shown = Silence /\ verdict = 3

ComparingInit ==
  \/ end = "save" /\ Init /\ NoComparison
  \/ end = "compare" /\ NoRuns /\ CompareInit

Saving == end = "save" /\ Next /\ UNCHANGED <<end, compareVars>>
Comparing == end = "compare" /\ CompareNext /\ UNCHANGED <<end, vars>>

ComparingNext == Saving \/ Comparing

ComparingSpec == ComparingInit /\ [][ComparingNext]_comparingVars
------------------------------------------------------------------------------
\* docs/CLI_REFERENCE.md:505, README.md:680, the exit code is for a CI job: 1 if and
\* only if some test that passed in the first run fails or ends in an error in the
\* second, 2 exactly when nothing is shown.
ExitTellsRegressions ==
  /\ (verdict \in {0, 1}) <=> (shown # Silence)
  /\ verdict = 1 => shown.kind = "comparison"
  /\ shown.kind = "comparison" =>
       ((verdict = 1) <=>
          \E t \in Tests : /\ OutcomeIn(loaded[1].results, t) = "PASS"
                           /\ OutcomeIn(loaded[2].results, t) \in Failing)

\* Each test that fails in the second run has one cause and a list, whatever it was
\* in the first, UNKNOWN alone excepted.
FailuresAreListed(c, base, target) ==
  /\ \A t \in DOMAIN target :
       target[t].outcome = "FAIL" /\ OutcomeIn(base, t) # "UNKNOWN" =>
         t \in c.regressions \cup c.newFails \cup c.persistent
  /\ UNION {cause.tests : cause \in c.causes} = c.regressions \cup c.newFails \cup c.persistent
  /\ \A x, y \in c.causes : x # y => x.tests \cap y.tests = {}
  /\ \A x \in c.causes : \A t \in x.tests :
       target[t].message.size = 0 \/ x.canonical <= target[t].message.size

\* The comparison has no direction of its own: backwards, regressions are improvements,
\* slowdowns are speedups and what disappeared is new.
Mirrored(c, base, target) ==
  \E back \in {Comparison(target, base)} :
    /\ back.improvements = c.regressions /\ back.regressions = c.improvements
    /\ back.slowdowns = c.speedups /\ back.speedups = c.slowdowns
    /\ back.disappeared = DOMAIN target \ DOMAIN base

\* Every regression is charged to a predicted project or reported as missed, and a
\* project is only called unchanged when nothing moved.
PredictionsAccount(c, file) ==
  LET charged == UNION {file.projects[k].regressions : k \in DOMAIN file.projects}
  IN /\ charged \cup file.missed = c.regressions /\ charged \cap file.missed = {}
     /\ \A k \in DOMAIN file.projects :
          file.projects[k].unchanged =>
            file.projects[k].regressions \cup file.projects[k].improvements = {}

\* A trend has a witness: who improves passes after a run without a pass, who
\* regresses the other way round; who is flaky turns twice.  A row is left out only
\* when the test always passed.
TrendsAreWitnessed(line) ==
  \A t \in DOMAIN line.rows :
    LET row == line.rows[t]
        turns(first, then) ==
          \E j, k \in DOMAIN row : j < k /\ (row[j] = "PASS") = first /\ (row[k] = "PASS") = then
    IN /\ line.trends[t] \in {"improving", "flaky"} => turns(FALSE, TRUE)
       /\ line.trends[t] \in {"regressing", "flaky"} => turns(TRUE, FALSE)
       /\ line.trends[t] # "stable" => t \in line.interesting

\* What is shown about two runs, or more, is true of them.
VerdictIsSound ==
  /\ ExitTellsRegressions
  /\ shown.kind = "comparison" =>
       LET c == shown.comparison
           base == loaded[1].results
           target == loaded[2].results
       IN /\ FailuresAreListed(c, base, target)
          /\ Mirrored(c, base, target)
          /\ \A f \in DOMAIN shown.files : PredictionsAccount(c, shown.files[f])
  /\ shown.kind = "timeline" => TrendsAreWitnessed(shown)

\* The archives that a search of the directory may use.
Found == {p \in Range(world.folder) : IsArchive(p)}
Places(p) == {k \in DOMAIN loaded : loaded[k].path = p}

InOrder(paths, time) ==
  \A p, q \in paths : time[p] < time[q] /\ Places(p) # {} =>
    Places(q) # {} /\ Max(Places(p)) < Min(Places(q))

\* Runs that the program orders itself are in the order of the times that all of them
\* have, those of summary.ini before those in names, and a limited search leaves out
\* no run that is newer than one it takes.  A run taken by its label has
\* completed, if any with that label and results has, and brings every test of all
\* its parts.
RunsAreTheNewest ==
  shown # Silence =>
    LET scanned == command.paths # <<>> /\ Mode = "scan"
        all == IF scanned THEN Found ELSE Range(command.paths)
    IN /\ command.paths # <<>> =>
            IF \A p \in all : IniTime(p) > 0 THEN InOrder(all, [p \in all |-> IniTime(p)])
            ELSE (\A p \in all : NameTime(p) > 0) => InOrder(all, [p \in all |-> NameTime(p)])
       /\ \A k \in DOMAIN sources : sources[k].label # "" =>
            \E m \in world.store :
              /\ m.label = sources[k].label
              /\ UNION {DOMAIN LoadRun(p, "", command.strict)[1].results : p \in Comparable(m)}
                   = DOMAIN loaded[k].results
              /\ \A n \in world.store :
                   n.label = m.label /\ n.completed /\ Comparable(n) # {} => m.completed
==============================================================================
