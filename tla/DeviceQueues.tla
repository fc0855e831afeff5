---------------------------- MODULE DeviceQueues ----------------------------
(***************************************************************************)
(* execute_planned_targets of execution.py: the plan of a run is split     *)
(* into one queue per device label; a pool thread (or, with one job or one *)
(* queue, the main thread) takes the lock of the device, runs the items of *)
(* the queue in order and hands the outcomes to the main thread, which     *)
(* adds them to the summary in submission order.                           *)
(*                                                                         *)
(* Several runs share the devices.  The lock is the abstract one of        *)
(* ExclusiveLock (DeviceLock says when the real one is that); what an item *)
(* does is the subject of PlanItem and here a choice of its outcome.       *)
(***************************************************************************)
EXTENDS Naturals, Sequences, FiniteSets

CONSTANTS
    Run,        (* selector processes that execute a plan                   *)
    Queue,      (* device labels, the keys of pending_queues                *)
    Lock,       (* lock files; labels that sanitize alike share one         *)
    LockOf,     (* the lock file of a device label: device_lock_path        *)
    Plan,       (* per run, the items of its selected groups in plan order  *)
    Jobs,       (* per run, parallel_jobs                                   *)
    Timed,      (* the runs that have a --run-timeout                       *)
    Executed,   (* statuses of executed items that a run tells apart        *)
    NoOne       (* the owner of a free lock                                 *)

ASSUME ConstantAssumption ==
    /\ LockOf \in [Queue -> Lock]
    /\ Plan \in [Run -> Seq([queue : Queue, pending : BOOLEAN])]
    /\ Jobs \in [Run -> Nat]
    /\ Timed \subseteq Run
    /\ Executed \subseteq {"passed", "failed", "timeout", "skipped"}
    /\ NoOne \notin Run \X Queue

Status == Executed \cup {"blocked", "unavailable"}

(* The plan of a run by its queues, in tables that depend on nothing else. *)
Items   == [r \in Run |-> DOMAIN Plan[r]]
Pending == [r \in Run |-> {n \in Items[r] : Plan[r][n].pending}]
QItems  == [r \in Run |-> [q \in Queue |-> {n \in Pending[r] : Plan[r][n].queue = q}]]
Queues  == [r \in Run |-> {q \in Queue : QItems[r][q] # {}}]

(* Queues are submitted in the order of their first items.                 *)
Before == [r \in Run |-> {e \in Queue \X Queue :
              \E m \in QItems[r][e[1]] : \A n \in QItems[r][e[2]] : m < n}]

Serial  == [r \in Run |-> Jobs[r] <= 1 \/ Cardinality(Queues[r]) <= 1]
Workers == [r \in Run |-> IF Serial[r] THEN 1 ELSE Jobs[r]]

VARIABLES
    phase,      (* phase[r]: where the main thread of r is                  *)
    work,       (* work[r][q]: the call of _run_device_queue for q          *)
    outcome,    (* outcome[r][n]: status of item n, or "none", "running"    *)
    merged,     (* merged[r]: queues whose outcomes r has gathered          *)
    summary,    (* summary[r]: the counters of the summary                  *)
    report,     (* report[r]: what execution has left in the report         *)
    owner       (* owner[l]: the run and queue that hold the lock           *)

vars == <<phase, work, outcome, merged, summary, report, owner>>
-----------------------------------------------------------------------------
Working  == {"gather", "interrupting", "failing"}
Returned == {"done", "interrupted", "failed"}
Active(r) == {q \in Queue : work[r][q] \in {"acquiring", "waiting", "open"}}

TypeOK ==
    /\ phase   \in [Run -> {"idle", "abandoned"} \cup Working \cup Returned]
    /\ work    \in [Run -> [Queue -> {"absent", "queued", "acquiring", "waiting",
                                      "open", "closed", "raised"}]]
    /\ DOMAIN outcome = Run
    /\ \A r \in Run : outcome[r] \in [Items[r] -> Status \cup {"none", "running"}]
    /\ merged  \in [Run -> SUBSET Queue]
    /\ summary \in [Run -> [Status -> Nat]]
    /\ report  \in [Run -> {"none", "partial", "results"}]
    /\ owner   \in [Lock -> (Run \X Queue) \cup {NoOne}]

Init ==
    /\ phase   = [r \in Run |-> "idle"]
    /\ work    = [r \in Run |-> [q \in Queue |-> "absent"]]
    /\ outcome = [r \in Run |-> [n \in Items[r] |-> "none"]]
    /\ merged  = [r \in Run |-> {}]
    /\ summary = [r \in Run |-> [s \in Status |-> 0]]
    /\ report  = [r \in Run |-> "none"]
    /\ owner   = [l \in Lock |-> NoOne]

MainGoes(r, label)      == phase' = [phase EXCEPT ![r] = label]
QueueGoes(r, q, label)  == work' = [work EXCEPT ![r][q] = label]
ItemGets(r, n, status)  == outcome' = [outcome EXCEPT ![r][n] = status]
Unlock(r, q)            == owner' = [owner EXCEPT ![LockOf[q]] = NoOne]

(* How often a status occurs among the outcomes of some items of a run.    *)
Count(r, S, status) == Cardinality({n \in S : outcome[r][n] = status})

(* _merge_outcome_into_summary for all items of a queue.                   *)
Added(r, S) == [s \in Status |-> summary[r][s] + Count(r, S, s)]
-----------------------------------------------------------------------------
(* The main thread counts the items that cannot run and queues the others. *)
PlanRun(r) ==
    /\ phase[r] = "idle"
    /\ MainGoes(r, "gather")
    /\ outcome' = [outcome EXCEPT ![r] =
          [n \in Items[r] |-> IF n \in Pending[r] THEN "none" ELSE "unavailable"]]
    /\ summary' = [summary EXCEPT ![r]["unavailable"] =
          Cardinality(Items[r] \ Pending[r])]
    /\ work' = [work EXCEPT ![r] =
          [q \in Queue |-> IF q \in Queues[r] THEN "queued" ELSE "absent"]]
    /\ UNCHANGED <<merged, report, owner>>

(* A pool thread takes the next future, whatever has become of the main    *)
(* thread; without a pool the main thread calls once it has merged.        *)
StartQueue(r, q) ==
    /\ work[r][q] = "queued"
    /\ \A p \in Queues[r] : work[r][p] = "queued" => p = q \/ <<q, p>> \in Before[r]
    /\ Cardinality(Active(r)) < Workers[r]
    /\ Serial[r] =>
          /\ phase[r] = "gather"
          /\ \A p \in Queues[r] : work[r][p] # "queued" => p \in merged[r]
    /\ QueueGoes(r, q, "acquiring")
    /\ UNCHANGED <<phase, outcome, merged, summary, report, owner>>

(* Variant: the queue goes on without the lock.                            *)
TakeLockAnyway(r, q) ==
    /\ work[r][q] \in {"acquiring", "waiting"}
    /\ owner' = [owner EXCEPT ![LockOf[q]] = <<r, q>>]
    /\ QueueGoes(r, q, "open")
    /\ UNCHANGED <<phase, outcome, merged, summary, report>>

TakeLock(r, q) ==
    /\ work[r][q] \in {"acquiring", "waiting"}
    /\ owner[LockOf[q]] = NoOne
    /\ owner' = [owner EXCEPT ![LockOf[q]] = <<r, q>>]
    /\ QueueGoes(r, q, "open")
    /\ UNCHANGED <<phase, outcome, merged, summary, report>>

LockBusy(r, q) ==
    /\ work[r][q] = "acquiring"
    /\ owner[LockOf[q]] # NoOne
    /\ QueueGoes(r, q, "waiting")
    /\ UNCHANGED <<phase, outcome, merged, summary, report, owner>>

(* Variant: the deadline is renewed whenever it passes.                    *)
LockTimeoutRenews(r, q) ==
    /\ work[r][q] = "waiting"
    /\ QueueGoes(r, q, "waiting")
    /\ UNCHANGED <<phase, outcome, merged, summary, report, owner>>

(* InterprocessLockTimeout: no item of the queue is run.                   *)
LockTimeout(r, q) ==
    /\ work[r][q] = "waiting"
    /\ QueueGoes(r, q, "closed")
    /\ outcome' = [outcome EXCEPT ![r] =
          [n \in Items[r] |-> IF n \in QItems[r][q] THEN "blocked" ELSE @[n]]]
    /\ UNCHANGED <<phase, merged, summary, report, owner>>

(* Any other error of the lock file, such as one owned by another user,    *)
(* when it is opened first or, by a waiting thread, again.                 *)
LockRaises(r, q) ==
    /\ work[r][q] \in {"acquiring", "waiting"}
    /\ QueueGoes(r, q, "raised")
    /\ UNCHANGED <<phase, outcome, merged, summary, report, owner>>

Idle(r, q) == \A n \in QItems[r][q] : outcome[r][n] # "running"

(* Variant: a failed item is run once more.                                *)
StartItemRetries(r, q) ==
    /\ work[r][q] = "open"
    /\ Idle(r, q)
    /\ \E n \in QItems[r][q] :
        /\ outcome[r][n] \in {"none", "failed"}
        /\ ItemGets(r, n, "running")
    /\ UNCHANGED <<phase, work, merged, summary, report, owner>>

StartItem(r, q) ==
    /\ work[r][q] = "open"
    /\ Idle(r, q)
    /\ \E n \in QItems[r][q] :
        /\ outcome[r][n] = "none"
        /\ \A m \in QItems[r][q] : m < n => outcome[r][m] # "none"
        /\ ItemGets(r, n, "running")
    /\ UNCHANGED <<phase, work, merged, summary, report, owner>>

FinishItem(r, q) ==
    /\ work[r][q] = "open"
    /\ \E n \in QItems[r][q], status \in Executed :
        /\ outcome[r][n] = "running"
        /\ ItemGets(r, n, status)
    /\ UNCHANGED <<phase, work, merged, summary, report, owner>>

(* _execute_plan_item raises: the outcomes of the queue so far are lost,   *)
(* the `with lock` block releases the lock.                                *)
ItemRaises(r, q) ==
    /\ work[r][q] = "open"
    /\ \E n \in QItems[r][q] :
        /\ outcome[r][n] = "running"
        /\ ItemGets(r, n, "none")
    /\ Unlock(r, q)
    /\ QueueGoes(r, q, "raised")
    /\ UNCHANGED <<phase, merged, summary, report>>

CloseQueue(r, q) ==
    /\ work[r][q] = "open"
    /\ \A n \in QItems[r][q] : outcome[r][n] \in Executed
    /\ Unlock(r, q)
    /\ QueueGoes(r, q, "closed")
    /\ UNCHANGED <<phase, outcome, merged, summary, report>>
-----------------------------------------------------------------------------
(* The main thread waits for the first future it has not merged yet.       *)
Awaited(r, q) ==
    /\ phase[r] = "gather"
    /\ q \in Queues[r] \ merged[r]
    /\ \A p \in Queues[r] \ merged[r] : p = q \/ <<q, p>> \in Before[r]

(* Variant: the main thread does not wait for the future.                  *)
MergeUnawaited(r, q) ==
    /\ Awaited(r, q)
    /\ summary' = [summary EXCEPT ![r] = Added(r, QItems[r][q])]
    /\ merged' = [merged EXCEPT ![r] = @ \cup {q}]
    /\ UNCHANGED <<phase, work, outcome, report, owner>>

Merge(r, q) ==
    /\ Awaited(r, q)
    /\ work[r][q] = "closed"
    /\ summary' = [summary EXCEPT ![r] = Added(r, QItems[r][q])]
    /\ merged' = [merged EXCEPT ![r] = @ \cup {q}]
    /\ UNCHANGED <<phase, work, outcome, report, owner>>

GatherRaises(r, q) ==
    /\ Awaited(r, q)
    /\ work[r][q] = "raised"
    /\ MainGoes(r, "failing")
    /\ UNCHANGED <<work, outcome, merged, summary, report, owner>>

Finish(r) ==
    /\ phase[r] = "gather"
    /\ merged[r] = Queues[r]
    /\ MainGoes(r, "done")
    /\ report' = [report EXCEPT ![r] = "results"]
    /\ UNCHANGED <<work, outcome, merged, summary, owner>>

(* KeyboardInterrupt.  Only the main thread gets it: the pool runs what it *)
(* has been given to the end before the interrupt goes on.  Without a pool *)
(* the queue at hand is cut short and its outcomes are lost.               *)
Interrupt(r) ==
    /\ phase[r] = "gather"
    /\ MainGoes(r, "interrupting")
    /\ IF Serial[r]
         THEN /\ outcome' = [outcome EXCEPT ![r] =
                    [n \in Items[r] |-> IF @[n] = "running" THEN "none" ELSE @[n]]]
              /\ work' = [work EXCEPT ![r] =
                    [q \in Queue |-> IF q \in Active(r) THEN "raised" ELSE @[q]]]
              /\ owner' = [l \in Lock |->
                    IF owner[l] \in {r} \X Queue THEN NoOne ELSE owner[l]]
         ELSE UNCHANGED <<outcome, work, owner>>
    /\ UNCHANGED <<merged, summary, report>>

(* Variant: the pool is left with shutdown(wait=False).                    *)
DrainedAtOnce(r) == phase[r] # "idle"

(* The pool's __exit__ has waited for every future.                        *)
Drained(r) ==
    \A q \in Queue : work[r][q] \in {"absent", "closed", "raised"}
                        \/ (Serial[r] /\ work[r][q] = "queued")

EndInterrupted(r) ==
    /\ phase[r] = "interrupting"
    /\ Drained(r)
    /\ MainGoes(r, "interrupted")
    /\ report' = [report EXCEPT ![r] = "partial"]
    /\ UNCHANGED <<work, outcome, merged, summary, owner>>

EndFailed(r) ==
    /\ phase[r] = "failing"
    /\ Drained(r)
    /\ MainGoes(r, "failed")
    /\ UNCHANGED <<work, outcome, merged, summary, report, owner>>

(* An interrupt while __exit__ waits: the main thread leaves, the pool     *)
(* threads stay and empty the queue of futures.                            *)
Abandon(r) ==
    /\ ~Serial[r]
    /\ phase[r] \in {"interrupting", "failing"}
    /\ MainGoes(r, "abandoned")
    /\ report' = [report EXCEPT ![r] = "partial"]
    /\ UNCHANGED <<work, outcome, merged, summary, owner>>
-----------------------------------------------------------------------------
QueueAdvances(r, q) ==
    \/ StartQueue(r, q)
    \/ TakeLock(r, q)
    \/ LockBusy(r, q)
    \/ LockTimeout(r, q)
    \/ StartItem(r, q)
    \/ CloseQueue(r, q)

QueueStep(r, q) == QueueAdvances(r, q) \/ LockRaises(r, q)

ItemEnds(r, q) == FinishItem(r, q) \/ ItemRaises(r, q)

MainStep(r) ==
    \/ \E q \in Queue : Merge(r, q) \/ GatherRaises(r, q)
    \/ Finish(r)
    \/ EndInterrupted(r)
    \/ EndFailed(r)

Next == \E r \in Run :
    \/ PlanRun(r)
    \/ \E q \in Queue : QueueStep(r, q) \/ ItemEnds(r, q)
    \/ MainStep(r)
    \/ Interrupt(r)
    \/ Abandon(r)

Spec == Init /\ [][Next]_vars

(* Threads run when they can, and no error has to help them on.  An item   *)
(* comes to an end where a timeout kills it; without --run-timeout, the    *)
(* default, it may hang for ever.                                          *)
FairSpec ==
    /\ Spec
    /\ \A r \in Run :
        /\ WF_vars(MainStep(r))
        /\ \A q \in Queues[r] :
            /\ WF_vars(QueueAdvances(r, q))
            /\ r \in Timed => WF_vars(ItemEnds(r, q))
-----------------------------------------------------------------------------
(* Properties.                                                             *)

(* README.md:26: no device ever executes two items at once, whichever runs *)
(* and queues they belong to, as long as the lock excludes.                *)
DeviceExclusive ==
    \A r1, r2 \in Run : \A n1 \in Pending[r1], n2 \in Pending[r2] :
        /\ outcome[r1][n1] = "running"
        /\ outcome[r2][n2] = "running"
        /\ LockOf[Plan[r1][n1].queue] = LockOf[Plan[r2][n2].queue]
        => r1 = r2 /\ n1 = n2

(* Once the results are attached every item of the plan has its outcome,   *)
(* and the counters of the summary add up to exactly these outcomes.       *)
ResultsAreComplete ==
    \A r \in Run : report[r] = "results" =>
        \A s \in Status :
            /\ summary[r][s] = Count(r, Items[r], s)
            /\ \A n \in Items[r] : outcome[r][n] \in Status

(* At any time, also in the summary an interrupt leaves, the counters are  *)
(* those of whole queues: what was counted happened, and happened once.    *)
SummaryCountsMerged ==
    \A r \in Run : phase[r] # "idle" =>
        \A s \in Status :
            summary[r][s] =
                Count(r, {n \in Items[r] : n \notin Pending[r]
                                 \/ Plan[r][n].queue \in merged[r]}, s)

(* A lock that cannot be had blocks a queue as a whole; nothing that has   *)
(* been started on a device is ever reported as blocked.                   *)
BlockedWhole ==
    \A r \in Run : \A q \in Queues[r] :
        (\E n \in QItems[r][q] : outcome[r][n] = "blocked") =>
            /\ \A n \in QItems[r][q] : outcome[r][n] = "blocked"
            /\ owner[LockOf[q]] # <<r, q>>

(* When execute_planned_targets returns or raises, the run holds no lock   *)
(* and nothing of it runs, whichever of its queues failed or were cut off. *)
QuietAfterReturn ==
    \A r \in Run : phase[r] \in Returned =>
        /\ \A l \in Lock : owner[l] \notin {r} \X Queue
        /\ \A n \in Items[r] : outcome[r][n] # "running"

(* The report of a run, in parts while it goes on, is complete and true: what is
   attached counts every item once, what an interrupt leaves counts whole queues,
   a queue is blocked as a whole or not at all, and after the report nothing of the
   run goes on.                                                            *)
CompleteReport ==
  TypeOK /\ ResultsAreComplete /\ SummaryCountsMerged /\ BlockedWhole /\ QuietAfterReturn

(* An item is executed once: its outcome is final, and no event of another *)
(* thread or run changes it.                                               *)
OutcomesAreFinal ==
    [][\A r \in Run : \A n \in Items[r] :
          outcome[r][n] \in Status => outcome'[r][n] = outcome[r][n]]_vars

(* A run with a timeout comes to an end, whichever of its queues fail, and *)
(* although a run without one may sit on a device for ever.                *)
TimedRunsEnd ==
    \A r \in Timed : phase[r] \in Working ~> phase[r] \in Returned \cup {"abandoned"}

(* The queues use each lock file as ExclusiveLock prescribes.              *)
Clients(l) == {c \in Run \X Queue : LockOf[c[2]] = l}
In(l, labels) == {c \in Clients(l) : work[c[1]][c[2]] \in labels}
LockFile(l) == INSTANCE ExclusiveLock WITH
    Proc    <- Clients(l),
    holders <- {c \in Clients(l) : owner[l] = c},
    waiting <- In(l, {"acquiring", "waiting"}),
    ended   <- In(l, {"closed", "raised"})
UsesLocks ==
    /\ \A l \in Lock : LockFile(l)!Init
    /\ [][\A l \in Lock : [LockFile(l)!Next]_(LockFile(l)!vars)]_vars
=============================================================================
