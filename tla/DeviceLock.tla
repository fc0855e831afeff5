----------------------------- MODULE DeviceLock -----------------------------
(***************************************************************************)
(* The inter-process lock of runtime_state.py, one lock file at a time.    *)
(*                                                                         *)
(* A selector process takes the lock of a device queue (or of the runtime  *)
(* history) by flock(2) on a lock file, writes a JSON description of       *)
(* itself into the file, and releases by LOCK_UN and close; the file and   *)
(* the description stay behind.  A process that finds the description of   *)
(* a dead pid in the file unlinks the file before it opens the path again. *)
(*                                                                         *)
(* Each action is one system call of acquire_interprocess_lock, so that    *)
(* every interleaving of the calls of several processes is a behaviour.    *)
(* The path and the inode it names are kept apart: flock excludes on the   *)
(* inode, unlink changes what the path names.                              *)
(***************************************************************************)
EXTENDS Naturals, FiniteSets

CONSTANTS
    Proc,       (* selector processes, each identified by its pid           *)
    Inode,      (* file-system objects the lock path can come to name       *)
    NoProc,     (* "no process": empty or unreadable metadata, free flock   *)
    NoInode,    (* "no inode": the path does not exist, no handle is open   *)
    MaxPolls    (* polls of _LOCK_POLL_INTERVAL_S that fit into timeout_s   *)

ASSUME ConstantAssumption ==
    /\ NoProc \notin Proc
    /\ NoInode \notin Inode
    /\ MaxPolls \in Nat

VARIABLES
    alive,      (* alive[p]: os.kill(p, 0) finds the process                *)
    pc,         (* where p is in acquire_interprocess_lock                  *)
    seen,       (* the pid in the metadata p has read last                  *)
    handle,     (* the inode p has open                                     *)
    polls,      (* how often p has slept in the retry loop                  *)
    link,       (* the inode the lock path names                            *)
    flock,      (* flock[i]: the process that has inode i locked            *)
    meta        (* meta[i]: the pid in the metadata that inode i contains   *)

vars == <<alive, pc, seen, handle, polls, link, flock, meta>>
-----------------------------------------------------------------------------
(* Sections of the program.                                                *)

Acquiring == {"read", "judge", "unlink", "open", "flock", "wait"}
Locked    == {"truncate", "write", "held"}
Ended     == {"blocked", "done", "dead"}

TypeOK ==
    /\ alive  \in [Proc -> BOOLEAN]
    /\ pc     \in [Proc -> {"idle"} \cup Acquiring \cup Locked \cup Ended]
    /\ seen   \in [Proc -> Proc \cup {NoProc}]
    /\ handle \in [Proc -> Inode \cup {NoInode}]
    /\ polls  \in [Proc -> 0..MaxPolls]
    /\ link   \in Inode \cup {NoInode}
    /\ flock  \in [Inode -> Proc \cup {NoProc}]
    /\ meta   \in [Inode -> Proc \cup {NoProc}]

Init ==
    /\ alive  = [p \in Proc |-> TRUE]
    /\ pc     = [p \in Proc |-> "idle"]
    /\ seen   = [p \in Proc |-> NoProc]
    /\ handle = [p \in Proc |-> NoInode]
    /\ polls  = [p \in Proc |-> 0]
    /\ link   = NoInode
    /\ flock  = [i \in Inode |-> NoProc]
    /\ meta   = [i \in Inode |-> NoProc]

(* Inodes the kernel may hand out: named by no path and open nowhere.      *)
FreeInode == {i \in Inode : i # link /\ \A p \in Proc : handle[p] # i}

(* What a read of the lock path yields: nothing when the file is missing,  *)
(* or empty because its holder has truncated it and not written yet.       *)
PathMetadata == IF link = NoInode THEN NoProc ELSE meta[link]

Goto(p, label) == pc' = [pc EXCEPT ![p] = label]
-----------------------------------------------------------------------------
(* acquire_interprocess_lock.                                              *)

(* The read before the first attempt, and the one after a refused flock.   *)
ReadMetadata(p) ==
    /\ pc[p] \in {"idle", "read"}
    /\ seen' = [seen EXCEPT ![p] = PathMetadata]
    /\ Goto(p, "judge")
    /\ UNCHANGED <<alive, handle, polls, link, flock, meta>>

(* Variant: metadata alone make a lock stale, alive or not.                *)
JudgeStaleUnasked(p) ==
    /\ pc[p] = "judge"
    /\ seen[p] # NoProc
    /\ Goto(p, "unlink")
    /\ UNCHANGED <<alive, seen, handle, polls, link, flock, meta>>

(* _is_stale_lock: a dead pid is stale, unless the kernel has given the    *)
(* pid to another program since, which makes os.kill(pid, 0) succeed.      *)
JudgeStale(p) ==
    /\ pc[p] = "judge"
    /\ seen[p] # NoProc
    /\ ~alive[seen[p]]
    /\ Goto(p, "unlink")
    /\ UNCHANGED <<alive, seen, handle, polls, link, flock, meta>>

JudgeLive(p) ==
    /\ pc[p] = "judge"
    /\ Goto(p, IF handle[p] = NoInode THEN "open" ELSE "wait")
    /\ UNCHANGED <<alive, seen, handle, polls, link, flock, meta>>

(* Removes whatever the path names now; the handle of an earlier round of  *)
(* the loop is closed before the path is opened again.                     *)
Unlink(p) ==
    /\ pc[p] = "unlink"
    /\ link' = NoInode
    /\ handle' = [handle EXCEPT ![p] = NoInode]
    /\ Goto(p, "open")
    /\ UNCHANGED <<alive, seen, polls, flock, meta>>

(* The OSError is swallowed: in a sticky directory, such as the default    *)
(* root below /tmp, nobody removes the file of another user.               *)
UnlinkFails(p) ==
    /\ pc[p] = "unlink"
    /\ link # NoInode
    /\ handle' = [handle EXCEPT ![p] = NoInode]
    /\ Goto(p, "open")
    /\ UNCHANGED <<alive, seen, polls, link, flock, meta>>

OpenExisting(p) ==
    /\ pc[p] = "open"
    /\ link # NoInode
    /\ handle' = [handle EXCEPT ![p] = link]
    /\ Goto(p, "flock")
    /\ UNCHANGED <<alive, seen, polls, link, flock, meta>>

OpenCreate(p) ==
    /\ pc[p] = "open"
    /\ link = NoInode
    /\ \E i \in FreeInode :
        /\ link' = i
        /\ handle' = [handle EXCEPT ![p] = i]
        /\ meta' = [meta EXCEPT ![i] = NoProc]
    /\ Goto(p, "flock")
    /\ UNCHANGED <<alive, seen, polls, flock>>

(* flock(LOCK_EX | LOCK_NB) on the inode behind the open handle.           *)
FlockGranted(p) ==
    /\ pc[p] = "flock"
    /\ flock[handle[p]] = NoProc
    /\ flock' = [flock EXCEPT ![handle[p]] = p]
    /\ Goto(p, "truncate")
    /\ UNCHANGED <<alive, seen, handle, polls, link, meta>>

(* Variant: the refused process tries again without a look at the clock.   *)
FlockRefusedSpins(p) ==
    /\ pc[p] = "flock"
    /\ flock[handle[p]] # NoProc
    /\ Goto(p, "flock")
    /\ UNCHANGED <<alive, seen, handle, polls, link, flock, meta>>

FlockRefused(p) ==
    /\ pc[p] = "flock"
    /\ flock[handle[p]] # NoProc
    /\ Goto(p, "read")
    /\ UNCHANGED <<alive, seen, handle, polls, link, flock, meta>>

(* Variant: one poll too many.                                             *)
PollLate(p) ==
    /\ pc[p] = "wait"
    /\ polls[p] <= MaxPolls
    /\ polls' = [polls EXCEPT ![p] = @ + 1]
    /\ Goto(p, "flock")
    /\ UNCHANGED <<alive, seen, handle, link, flock, meta>>

(* Not stale and the deadline has not passed: sleep, then try again.       *)
Poll(p) ==
    /\ pc[p] = "wait"
    /\ polls[p] < MaxPolls
    /\ polls' = [polls EXCEPT ![p] = @ + 1]
    /\ Goto(p, "flock")
    /\ UNCHANGED <<alive, seen, handle, link, flock, meta>>

(* The deadline has passed, which a slow process finds after any poll.     *)
TimeOut(p) ==
    /\ pc[p] = "wait"
    /\ handle' = [handle EXCEPT ![p] = NoInode]
    /\ Goto(p, "blocked")
    /\ UNCHANGED <<alive, seen, polls, link, flock, meta>>

(* The metadata of the previous holder is in the file until this step.     *)
Truncate(p) ==
    /\ pc[p] = "truncate"
    /\ meta' = [meta EXCEPT ![handle[p]] = NoProc]
    /\ Goto(p, "write")
    /\ UNCHANGED <<alive, seen, handle, polls, link, flock>>

WriteMetadata(p) ==
    /\ pc[p] = "write"
    /\ meta' = [meta EXCEPT ![handle[p]] = p]
    /\ Goto(p, "held")
    /\ UNCHANGED <<alive, seen, handle, polls, link, flock>>

(* InterprocessLock.release: the file keeps the metadata.                  *)
Release(p) ==
    /\ pc[p] = "held"
    /\ flock' = [flock EXCEPT ![handle[p]] = NoProc]
    /\ handle' = [handle EXCEPT ![p] = NoInode]
    /\ Goto(p, "done")
    /\ UNCHANGED <<alive, seen, polls, link, meta>>

(* The process ends, normally or killed at any point: the kernel closes    *)
(* its handle and drops its flock; nothing on disk changes.                *)
Die(p) ==
    /\ alive[p]
    /\ alive' = [alive EXCEPT ![p] = FALSE]
    /\ flock' = [i \in Inode |-> IF flock[i] = p THEN NoProc ELSE flock[i]]
    /\ handle' = [handle EXCEPT ![p] = NoInode]
    /\ Goto(p, "dead")
    /\ UNCHANGED <<seen, polls, link, meta>>
-----------------------------------------------------------------------------
(* The calls a process makes on its own once it wants the lock; when it    *)
(* starts, how long it holds the lock and when it dies are not its choice. *)
AcquireStep(p) ==
    \/ pc[p] = "read" /\ ReadMetadata(p)
    \/ JudgeStale(p)
    \/ JudgeLive(p)
    \/ Unlink(p)
    \/ UnlinkFails(p)
    \/ OpenExisting(p)
    \/ OpenCreate(p)
    \/ FlockGranted(p)
    \/ FlockRefused(p)
    \/ Poll(p)
    \/ TimeOut(p)
    \/ Truncate(p)
    \/ WriteMetadata(p)

Step(p) ==
    \/ ReadMetadata(p)
    \/ JudgeStale(p)
    \/ JudgeLive(p)
    \/ Unlink(p)
    \/ UnlinkFails(p)
    \/ OpenExisting(p)
    \/ OpenCreate(p)
    \/ FlockGranted(p)
    \/ FlockRefused(p)
    \/ Poll(p)
    \/ TimeOut(p)
    \/ Truncate(p)
    \/ WriteMetadata(p)
    \/ Release(p)

Next == \E p \in Proc : Step(p) \/ Die(p)

Spec == Init /\ [][Next]_vars

FairSpec == Spec /\ \A p \in Proc : WF_vars(AcquireStep(p))
-----------------------------------------------------------------------------
(* Properties.                                                             *)

Holds(p) == pc[p] = "held"

(* README.md:26 and docs/CLI_REFERENCE.md:39: two runs never hold the lock *)
(* of one device queue at the same time, whoever has crashed before.       *)
MutualExclusion ==
    \A p, q \in Proc : p # q => ~(Holds(p) /\ Holds(q))

(* What the protocol does guarantee: as long as no process has ended, at   *)
(* most one of them is past flock, from the metadata write to the release. *)
ExclusionWhileAllLive ==
    (\A p \in Proc : alive[p]) =>
        \A p, q \in Proc : p # q => ~(pc[p] \in Locked /\ pc[q] \in Locked)

(* A holder is settled when the path still names its file and no process   *)
(* is about to unlink on the strength of metadata it read before.          *)
Settled(p) ==
    /\ Holds(p)
    /\ link = handle[p]
    /\ \A q \in Proc :
        /\ pc[q] # "unlink"
        /\ pc[q] = "judge" => seen[q] \in {p, NoProc}

(* With crashes too: a settled holder cannot be displaced by any process   *)
(* that comes later; it stays settled until it releases the lock or dies.  *)
SettledUntilReleased ==
    [][\A p \in Proc : Settled(p) => Settled(p)' \/ ~Holds(p)']_vars

(* Every acquisition comes to an end, although the branch that removes a   *)
(* stale file goes round the loop without looking at the deadline.         *)
AcquireTerminates ==
    \A p \in Proc : pc[p] \in Acquiring ~> pc[p] \in {"held"} \cup Ended

(* Every step that nobody's death precedes is a step of a plain exclusive  *)
(* lock: the files, the reads and the polls are invisible.                 *)
Lock == INSTANCE ExclusiveLock WITH
    holders <- {p \in Proc : pc[p] \in Locked},
    waiting <- {p \in Proc : pc[p] \in Acquiring},
    ended   <- {p \in Proc : pc[p] \in Ended}
ActsAsLockWhileAllLive ==
    /\ Lock!Init
    /\ [][(\A p \in Proc : alive'[p]) => [Lock!Next]_(Lock!vars)]_vars
=============================================================================
