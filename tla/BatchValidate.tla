----------------------------- MODULE BatchValidate -----------------------------
(* validate-batch (batch_validate.py, cmd_validate_batch): a list of pull
   requests is resolved by a pool of threads, and the results are collected in
   one file.  A batch can be killed at any point and started again, in any of
   the three modes of the pull request cache; four kinds of files survive it,
   all written in place: the indexes, the raw data of each pull request (key:
   its URL), its result (key: its number) and the list of results.

   The steps of the pool's threads and of the main thread interleave; while the
   batch runs, authors push and the sources are synced.                       *)
EXTENDS PrCache, IndexCache, Sequences, SequencesExt, FiniteSets

CONSTANTS
  Lists,         \* the lists that batches are given, each in the order of its file
  Number,        \* Number[pr]: the last component of its URL
  Workers,       \* the threads of the pool
  SaveEvery,     \* the list of results is saved after so many (10 in the code)
  MaxRuns,       \* bound: batches started
  MaxEvents      \* bound: pushes, syncs and prefetches

ASSUME ListAssumption ==
  /\ Lists \subseteq Seq(Prs)
  /\ Number \in [Prs -> Nat]
  /\ IsFiniteSet(Workers)
  /\ SaveEvery \in Nat \ {0}
  /\ MaxRuns \in Nat
  /\ MaxEvents \in Nat

VARIABLES
  phase,         \* where the main thread is
  mode,          \* --pr-cache-mode
  list,          \* --pr-list-file, as _load_pr_list reads it
  runs,          \* batches started
  results,       \* the list results
  kept,          \* how many of them were taken from the output of a batch before
  pending,       \* the pull requests not done, those submitted to the pool
  next,          \* the first of pending that no thread has taken
  completed,     \* futures collected
  worker,        \* worker[w]: what the thread does, for which pull request
  finished,      \* the results of futures not collected yet
  answers,       \* answers[n]: the file PR_<n>_graph.json
  output,        \* the file of the results
  started,       \* history: what there was when the batch started
  events         \* pushes, syncs and prefetches so far

batchVars == <<phase, mode, list, runs, results, kept, pending, next, completed, worker,
               finished, answers, output, started, events>>
vars == <<cacheVars, indexVars, batchVars>>

Numbers == {Number[pr] : pr \in Prs}
Idle == [pc |-> "idle"]
Phases == {"none", "sdk", "sdk-load", "sdk-fill", "inverted", "inverted-load",
           "inverted-fill", "resume", "pool", "saving", "final", "returned"}
Outside == {"none", "returned"}

Ok(n, pr, version) == [number |-> n, status |-> "ok", of |-> pr, version |-> version,
                       index |-> index]
Error(n) == [number |-> n, status |-> "error"]

IsOk(r) == r.status = "ok"

(* Every part of the state is of its type. *)
TypeOK ==
  /\ CacheTypeOK /\ IndexTypeOK
  /\ phase \in Phases /\ mode \in Modes /\ list \in Lists \cup {<<>>} /\ runs \in 0..MaxRuns
  /\ \A i \in DOMAIN results : results[i].number \in Numbers
  /\ kept \in 0..Len(results)
  /\ pending \in Seq(Prs)
  /\ next \in 1..(Len(pending) + 1)
  /\ completed \in 0..Len(pending)
  /\ DOMAIN worker = Workers
  /\ DOMAIN answers = Numbers
  /\ events \in 0..MaxEvents

NothingKnown == [upstream |-> [pr \in Prs |-> 0], tree |-> [r \in Roots |-> 0],
                 cached |-> {}, answered |-> {}]

Init ==
  /\ CacheInit /\ IndexInit
  /\ phase = "none" /\ mode = "read-write" /\ list = <<>> /\ runs = 0
  /\ results = <<>> /\ kept = 0 /\ pending = <<>> /\ next = 1 /\ completed = 0
  /\ worker = [w \in Workers |-> Idle] /\ finished = <<>>
  /\ answers = [n \in Numbers |-> Absent]
  /\ output = Absent
  /\ started = NothingKnown /\ events = 0

-------------------------------------------------------------------------------
(* The main thread: indexes, resume, collection, saves. *)

\* The command is given.  An expired override makes it return 2 before it has
\* touched anything: that is a run which does not happen.
Start(m, prs) ==
  /\ phase \in Outside /\ runs < MaxRuns
  /\ phase' = "sdk" /\ mode' = m /\ list' = prs /\ runs' = runs + 1
  /\ results' = <<>> /\ kept' = 0 /\ pending' = <<>> /\ next' = 1 /\ completed' = 0
  /\ started' = [upstream |-> upstream, tree |-> [r \in Roots |-> Signature(r)],
                 cached |-> {pr \in Prs : IsUsable(api[pr])},
                 answered |-> {n \in Numbers : answers[n].file = "whole"}]
  /\ ForgetIndexes
  /\ UNCHANGED <<cacheVars, tree, stored, worker, finished, answers, output, events>>

At(p, q) ==
  /\ phase = p /\ phase' = q
  /\ UNCHANGED <<mode, list, runs, results, kept, pending, next, completed, worker, finished,
                 answers, output, started, events, cacheVars>>

\* cached_sdk_index, then cached_inverted_index.
LookUpIndex ==
  \/ At("sdk", "sdk-load") /\ LookUp("sdk")
  \/ At("inverted", "inverted-load") /\ LookUp("inverted")
UseStoredIndex ==
  \/ At("sdk-load", "inverted") /\ LoadIndex("sdk")
  \/ At("inverted-load", "resume") /\ LoadIndex("inverted")
MakeIndex ==
  \/ At("sdk-load", "sdk-fill") /\ BuildIndex("sdk")
  \/ At("inverted-load", "inverted-fill") /\ BuildIndex("inverted")
StoreIndex ==
  \/ At("sdk-fill", "inverted") /\ FillIndex("sdk")
  \/ At("inverted-fill", "resume") /\ FillIndex("inverted")

\* The results of the batch before: its errors too, if it has one success.  A torn file has
\* none (one that is cut inside a character, which is not caught, is left out).
Existing ==
  IF /\ mode # "refresh" /\ output.file = "whole"
     /\ \E i \in DOMAIN output.results : IsOk(output.results[i])
  THEN output.results ELSE <<>>

NumbersOf(rs) == {rs[i].number : i \in DOMAIN rs}

PendingAfter(done) ==
  LET upto[n \in 0..Len(list)] ==
        IF n = 0 THEN <<>>
        ELSE IF Number[list[n]] \in done THEN upto[n - 1] ELSE Append(upto[n - 1], list[n])
  IN upto[Len(list)]

Resume ==
  /\ phase = "resume"
  /\ results' = Existing /\ kept' = Len(Existing)
  /\ pending' = PendingAfter(NumbersOf(Existing))
  /\ phase' = "pool"
  /\ UNCHANGED <<mode, list, runs, next, completed, worker, finished, answers, output, started, events,
                 cacheVars, indexVars>>

(* Variant: only successes are appended. *)
AppendOk(r) == IF IsOk(r) THEN Append(results, r) ELSE results

AppendResult(r) == Append(results, r)

\* as_completed: the futures come in the order in which they end.  After every
\* SaveEvery-th the file of the results is opened anew.
Collect ==
  /\ phase = "pool"
  /\ finished # <<>>
  /\ results' = AppendResult(Head(finished))
  /\ finished' = Tail(finished)
  /\ completed' = completed + 1
  /\ IF completed' % SaveEvery = 0
     THEN phase' = "saving" /\ output' = Torn
     ELSE phase' = "pool" /\ UNCHANGED output
  /\ UNCHANGED <<mode, list, runs, kept, pending, next, worker, answers, started, events,
                 cacheVars, indexVars>>

FillOutput == output' = [file |-> "whole", results |-> results]

Save ==
  /\ phase = "saving"
  /\ FillOutput
  /\ phase' = "pool"
  /\ UNCHANGED <<mode, list, runs, results, kept, pending, next, completed, worker, finished,
                 answers, started, events, cacheVars, indexVars>>

\* The pool is empty: the file is opened for the last time ...
ClosePool ==
  /\ phase = "pool" /\ completed = Len(pending)
  /\ phase' = "final" /\ output' = Torn
  /\ UNCHANGED <<mode, list, runs, results, kept, pending, next, completed, worker, finished,
                 answers, started, events, cacheVars, indexVars>>

\* ... and filled; the summaries and metrics are made from the same results.
Return ==
  /\ phase = "final"
  /\ FillOutput
  /\ phase' = "returned"
  /\ UNCHANGED <<mode, list, runs, results, kept, pending, next, completed, worker, finished,
                 answers, started, events, cacheVars, indexVars>>

-------------------------------------------------------------------------------
(* A thread of the pool: _process_one. *)

Pooling == phase \in {"pool", "saving"}

ThreadStep(w) ==
  /\ Pooling
  /\ UNCHANGED <<phase, mode, list, runs, results, kept, pending, completed, output, started, events,
                 upstream, indexVars>>

Go(w, pc) == worker' = [worker EXCEPT ![w].pc = pc]

\* The thread is done with a pull request: its result is that of its future.
Finish(w, result) ==
  /\ worker' = [worker EXCEPT ![w] = Idle]
  /\ finished' = Append(finished, result)

\* _load_cached_result, outside of refresh: by number.
Take(w) ==
  /\ ThreadStep(w)
  /\ worker[w].pc = "idle" /\ next <= Len(pending)
  /\ next' = next + 1
  /\ LET pr == pending[next]
         answer == answers[Number[pr]]
     IN IF mode # "refresh" /\ answer.file = "whole"
        THEN Finish(w, answer.result)
        ELSE worker' = [worker EXCEPT ![w] = [pc |-> "get", pr |-> pr]] /\ UNCHANGED finished
  /\ UNCHANGED <<api, answers>>

NumberOf(w) == Number[worker[w].pr]

\* pr_api_cache.get; a missing entry of the mode read-only is an error.
ReadCache(w) ==
  /\ ThreadStep(w)
  /\ worker[w].pc = "get"
  /\ LET entry == Get(mode, worker[w].pr)
     IN \/ /\ entry = Missing
           /\ Finish(w, Error(NumberOf(w)))
        \/ /\ IsUsable(entry)
           /\ worker' = [worker EXCEPT ![w] = [pc |-> "resolve", pr |-> @.pr, version |-> entry.version]]
           /\ UNCHANGED finished
        \/ /\ entry # Missing /\ ~ IsUsable(entry)
           /\ Go(w, "fetch")
           /\ UNCHANGED finished
  /\ UNCHANGED <<next, api, answers>>

\* _fetch_pr_changed_files, and the file that put opens.
Fetch(w) ==
  /\ ThreadStep(w)
  /\ worker[w].pc = "fetch"
  /\ LET pr == worker[w].pr
     IN IF mode = "read-only"
        THEN /\ worker' = [worker EXCEPT ![w] = [pc |-> "resolve", pr |-> pr, version |-> upstream[pr]]]
             /\ UNCHANGED api
        ELSE /\ worker' = [worker EXCEPT ![w] = [pc |-> "put", pr |-> pr, version |-> upstream[pr]]]
             /\ OpenEntry(pr)
  /\ UNCHANGED <<next, finished, answers>>

Put(w) ==
  /\ ThreadStep(w)
  /\ worker[w].pc = "put"
  /\ FillEntry(worker[w].pr, worker[w].version)
  /\ Go(w, "resolve")
  /\ UNCHANGED <<next, finished, answers>>

\* The pull request is resolved and the file of its result is opened.
Resolve(w) ==
  /\ ThreadStep(w)
  /\ worker[w].pc = "resolve"
  /\ answers' = [answers EXCEPT ![NumberOf(w)] = Torn]
  /\ Go(w, "save")
  /\ UNCHANGED <<next, finished, api>>

\* Two threads may write one file, when the list has a number twice: what the
\* one wrote and the other overwrites may not parse.
SaveAnswer(w) ==
  /\ ThreadStep(w)
  /\ worker[w].pc = "save"
  /\ LET n == NumberOf(w)
         result == Ok(n, worker[w].pr, worker[w].version)
         mine == [file |-> "whole", result |-> result]
         shared == \E v \in Workers \ {w} : worker[v].pc = "save" /\ NumberOf(v) = n
     IN /\ \E file \in {mine} \cup (IF shared \/ answers[n] # Torn THEN {Torn} ELSE {}) :
              answers' = [answers EXCEPT ![n] = file]
        /\ Finish(w, result)
  /\ UNCHANGED <<next, api>>

\* The network, the resolver or a write fails: the exception becomes the result.
Fail(w) ==
  /\ ThreadStep(w)
  /\ worker[w].pc \in {"fetch", "put", "resolve", "save"}
  /\ Finish(w, Error(NumberOf(w)))
  /\ UNCHANGED <<next, api, answers>>

-------------------------------------------------------------------------------
\* The process is killed: its files stay as they are.
Kill ==
  /\ phase \notin Outside
  /\ phase' = "none"
  /\ worker' = [w \in Workers |-> Idle] /\ finished' = <<>>
  /\ results' = <<>> /\ kept' = 0 /\ pending' = <<>> /\ next' = 1 /\ completed' = 0
  /\ mode' = "read-write" /\ list' = <<>> /\ started' = NothingKnown
  /\ ForgetIndexes
  /\ UNCHANGED <<runs, answers, output, events, tree, stored, cacheVars>>

World ==
  /\ events < MaxEvents /\ events' = events + 1
  /\ \/ (\E pr \in Prs : Push(pr)) /\ UNCHANGED indexVars
     \/ (\E r \in Roots : Sync(r)) /\ UNCHANGED cacheVars
     \/ phase \in Outside /\ (\E pr \in Prs : Prefetch(pr)) /\ UNCHANGED indexVars
  /\ UNCHANGED <<phase, mode, list, runs, results, kept, pending, next, completed, worker, finished,
                 answers, output, started>>

Thread(w) ==
  Take(w) \/ ReadCache(w) \/ Fetch(w) \/ Put(w) \/ Resolve(w) \/ SaveAnswer(w) \/ Fail(w)

Main ==
  \/ LookUpIndex \/ UseStoredIndex \/ MakeIndex \/ StoreIndex
  \/ Resume \/ Collect \/ Save \/ ClosePool \/ Return

Next ==
  \/ \E m \in Modes, prs \in Lists : Start(m, prs)
  \/ Main
  \/ \E w \in Workers : Thread(w)
  \/ Kill
  \/ World

Spec == Init /\ [][Next]_vars

-------------------------------------------------------------------------------
(* Properties. *)

New == {i \in DOMAIN results : i > kept}
NewOf(n) == {i \in New : results[i].number = n}
Asked(n) == {i \in DOMAIN pending : Number[pending[i]] = n}

\* A batch that returned has saved one result for each request that it ran, and
\* every pull request of the list has a result: from this batch or from one
\* before, whatever failed, whichever thread was first and whenever a batch
\* before was killed.
EveryRequestIsAnswered ==
  /\ TypeOK
  /\ phase = "returned" =>
       /\ output = [file |-> "whole", results |-> results]
       /\ \A pr \in Range(list) : Number[pr] \in NumbersOf(results)
       /\ \A n \in Numbers : Cardinality(NewOf(n)) = Cardinality(Asked(n))

\* A batch in the mode refresh uses nothing older than itself: the data of every
\* pull request is at least what the host had when the batch started, and its
\* indexes are made from sources that had at least every visible change.
RefreshIsFresh ==
  mode = "refresh" =>
    \A i \in DOMAIN results :
       IsOk(results[i]) =>
         /\ results[i].version >= started.upstream[results[i].of]
         /\ results[i].index["sdk"].sdk.top >= started.tree["sdk"]
         /\ results[i].index["inverted"].xts.top >= started.tree["xts"]

\* What a batch before has saved whole is used: outside of refresh, a pull
\* request whose data was in the cache is not asked for again, and one whose
\* result was saved gets a result without the network or the resolver.
SavedWorkIsUsed ==
  mode # "refresh" =>
    /\ \A w \in Workers :
         worker[w].pc \in {"fetch", "put"} => worker[w].pr \notin started.cached
    /\ \A i \in New : results[i].number \in started.answered => IsOk(results[i])
===============================================================================
