--------------------------- MODULE MCDeviceQueues ---------------------------
(* Small instances of DeviceQueues for TLC. *)
EXTENDS DeviceQueues, TLC

CONSTANTS r1, r2, q1, q2, q3, l1, l2

Item(q) == [queue |-> q, pending |-> TRUE]
Unavailable(q) == [queue |-> q, pending |-> FALSE]

(* q1 and q3 are labels that _safe_fragment maps to the same file name. *)
MCLockOf == [q \in Queue |-> IF q = q2 THEN l2 ELSE l1]

(* A run with two threads for three queues, two of them on one lock file,  *)
(* and an item that cannot run; beside it a serial run with a queue of two *)
(* items on the device that the first run wants last.                      *)
MCPlan ==
    (r1 :> <<Item(q1), Unavailable(q2), Item(q3), Item(q2)>>)
 @@ (r2 :> <<Item(q2), Item(q2)>>)
MCJobs == (r1 :> 2) @@ (r2 :> 1)
=============================================================================
