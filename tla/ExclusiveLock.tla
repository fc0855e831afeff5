---------------------------- MODULE ExclusiveLock ----------------------------
(***************************************************************************)
(* What the callers of runtime_state.py rely on: a lock with one holder at *)
(* a time, taken at once or given up with InterprocessLockTimeout.  The    *)
(* device queues of execution.py and runtime_history.py are modelled over  *)
(* this abstraction; DeviceLock is compared with it.                       *)
(***************************************************************************)
CONSTANT Proc       (* the processes that use the lock                      *)

VARIABLES
    holders,        (* processes inside the `with lock:` body               *)
    waiting,        (* processes inside acquire_interprocess_lock           *)
    ended           (* processes that have released the lock or given up    *)

vars == <<holders, waiting, ended>>

Init ==
    /\ holders = {}
    /\ waiting = {}
    /\ ended = {}

Request(p) ==
    /\ p \notin holders \cup waiting \cup ended
    /\ waiting' = waiting \cup {p}
    /\ UNCHANGED <<holders, ended>>

Acquire(p) ==
    /\ p \in waiting
    /\ holders = {}
    /\ holders' = {p}
    /\ waiting' = waiting \ {p}
    /\ UNCHANGED ended

GiveUp(p) ==
    /\ p \in waiting
    /\ waiting' = waiting \ {p}
    /\ ended' = ended \cup {p}
    /\ UNCHANGED holders

Release(p) ==
    /\ p \in holders
    /\ holders' = holders \ {p}
    /\ ended' = ended \cup {p}
    /\ UNCHANGED waiting

Next == \E p \in Proc : Request(p) \/ Acquire(p) \/ GiveUp(p) \/ Release(p)

Spec == Init /\ [][Next]_vars
=============================================================================
