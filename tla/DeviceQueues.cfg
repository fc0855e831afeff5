\* Two runs, one with a pool, compete for two devices; only the first has a timeout.
SPECIFICATION FairSpec
CONSTANTS
    r1 = r1
    r2 = r2
    q1 = q1
    q2 = q2
    q3 = q3
    l1 = l1
    l2 = l2
    Run = {r1, r2}
    Queue = {q1, q2, q3}
    Lock = {l1, l2}
    Timed = {r1}
    NoOne = NoOne
    Executed = {"passed", "failed"}
    LockOf <- MCLockOf
    Plan <- MCPlan
    Jobs <- MCJobs
CHECK_DEADLOCK FALSE
INVARIANTS DeviceExclusive CompleteReport
PROPERTIES OutcomesAreFinal UsesLocks TimedRunsEnd
