-------------------------- MODULE DeviceLockProofs --------------------------
(***************************************************************************)
(* Proofs about DeviceLock for any number of processes, inodes and polls:  *)
(* type correctness, exclusion while no process has ended, and the         *)
(* stability of a settled holder in the presence of crashes.               *)
(***************************************************************************)
EXTENDS DeviceLock, TLAPS

(* A handle is open exactly where the code has one.                        *)
HandleInv ==
    \A p \in Proc :
        /\ pc[p] \in {"read", "flock", "wait"} \cup Locked => handle[p] # NoInode
        /\ pc[p] \in {"idle", "open"} \cup Ended => handle[p] = NoInode

(* flock keeps its promise on the inode, and the dead own nothing.         *)
FlockInv ==
    \A p \in Proc :
        /\ pc[p] \in Locked => flock[handle[p]] = p
        /\ ~alive[p] => pc[p] = "dead"

(* While everybody lives nothing is unlinked: all handles are of one file. *)
LinkInv ==
    (\A p \in Proc : alive[p]) =>
        \A p \in Proc :
            /\ pc[p] # "unlink"
            /\ handle[p] # NoInode => handle[p] = link

(* The metadata in the file a holder has locked are its own.               *)
MetaInv == \A p \in Proc : pc[p] = "held" => meta[handle[p]] = p

IInv == TypeOK /\ HandleInv /\ FlockInv /\ LinkInv /\ MetaInv
-----------------------------------------------------------------------------
(* The idle processes and the absent lock file of the start are well typed. *)
LEMMA TypeInit == Init => TypeOK
  BY ConstantAssumption DEF Init, TypeOK

(* A step keeps the types; an open handle is needed to index flock and meta. *)
LEMMA TypeStep == TypeOK /\ HandleInv /\ [Next]_vars => TypeOK'
<1> SUFFICES ASSUME TypeOK, HandleInv, [Next]_vars PROVE TypeOK'
  OBVIOUS
<1> USE ConstantAssumption DEF TypeOK, Goto, Acquiring, Locked, Ended
<1>1. CASE UNCHANGED vars
  BY <1>1 DEF vars
<1>2. ASSUME NEW p \in Proc, Step(p) PROVE TypeOK'
  <2>1. CASE ReadMetadata(p)
    BY <2>1 DEF ReadMetadata, PathMetadata
  <2>2. CASE JudgeStale(p)
    BY <2>2 DEF JudgeStale
  <2>3. CASE JudgeLive(p)
    BY <2>3 DEF JudgeLive
  <2>4. CASE Unlink(p)
    BY <2>4 DEF Unlink
  <2>5. CASE OpenExisting(p)
    BY <2>5 DEF OpenExisting
  <2>6. CASE OpenCreate(p)
    BY <2>6 DEF OpenCreate, FreeInode
  <2>7. CASE FlockGranted(p)
    BY <2>7 DEF FlockGranted
  <2>8. CASE FlockRefused(p)
    BY <2>8 DEF FlockRefused
  <2>9. CASE Poll(p)
    BY <2>9 DEF Poll
  <2>10. CASE TimeOut(p)
    BY <2>10 DEF TimeOut
  <2>11. CASE Truncate(p)
    BY <2>11 DEF Truncate
  <2>12. CASE WriteMetadata(p)
    BY <2>12 DEF WriteMetadata
  <2>13. CASE Release(p)
    BY <2>13 DEF Release
  <2>14. CASE UnlinkFails(p)
    BY <2>14 DEF UnlinkFails
  <2> QED
    BY <1>2, <2>1, <2>2, <2>3, <2>4, <2>5, <2>6, <2>7, <2>8, <2>9, <2>10,
       <2>11, <2>12, <2>13, <2>14 DEF Step
<1>3. ASSUME NEW p \in Proc, Die(p) PROVE TypeOK'
  BY <1>3 DEF Die
<1> QED
  BY <1>1, <1>2, <1>3 DEF Next

(* The inductive invariant holds before any process has made a call.       *)
LEMMA IInvInit == Init => IInv
  BY TypeInit DEF IInv, Init, HandleInv, FlockInv, LinkInv, MetaInv, Acquiring, Locked, Ended

(* Every system call of acquire_interprocess_lock and release, and the end *)
(* of a process at any point, keeps the inductive invariant.               *)
LEMMA IInvStep == IInv /\ [Next]_vars => IInv'
<1> SUFFICES ASSUME IInv, [Next]_vars PROVE IInv'
  OBVIOUS
<1>0. TypeOK'
  BY TypeStep DEF IInv
<1> USE ConstantAssumption
    DEF IInv, TypeOK, HandleInv, FlockInv, LinkInv, MetaInv, Goto, Acquiring, Locked, Ended
<1>1. CASE UNCHANGED vars
  BY <1>0, <1>1 DEF vars
<1>2. ASSUME NEW p \in Proc, Step(p) PROVE IInv'
  <2>1. CASE ReadMetadata(p)
    BY <1>0, <2>1 DEF ReadMetadata
  <2>2. CASE JudgeStale(p)
    BY <1>0, <2>2 DEF JudgeStale
  <2>3. CASE JudgeLive(p)
    BY <1>0, <2>3 DEF JudgeLive
  <2>4. CASE Unlink(p)
    BY <1>0, <2>4 DEF Unlink
  <2>5. CASE OpenExisting(p)
    BY <1>0, <2>5 DEF OpenExisting
  <2>6. CASE OpenCreate(p)
    BY <1>0, <2>6 DEF OpenCreate, FreeInode
  <2>7. CASE FlockGranted(p)
    BY <1>0, <2>7 DEF FlockGranted
  <2>8. CASE FlockRefused(p)
    BY <1>0, <2>8 DEF FlockRefused
  <2>9. CASE Poll(p)
    BY <1>0, <2>9 DEF Poll
  <2>10. CASE TimeOut(p)
    BY <1>0, <2>10 DEF TimeOut
  <2>11. CASE Truncate(p)
    BY <1>0, <2>11 DEF Truncate
  <2>12. CASE WriteMetadata(p)
    BY <1>0, <2>12 DEF WriteMetadata
  <2>13. CASE Release(p)
    BY <1>0, <2>13 DEF Release
  <2>14. CASE UnlinkFails(p)
    BY <1>0, <2>14 DEF UnlinkFails
  <2> QED
    BY <1>2, <2>1, <2>2, <2>3, <2>4, <2>5, <2>6, <2>7, <2>8, <2>9, <2>10,
       <2>11, <2>12, <2>13, <2>14 DEF Step
<1>3. ASSUME NEW p \in Proc, Die(p) PROVE IInv'
  BY <1>0, <1>3 DEF Die
<1> QED
  BY <1>1, <1>2, <1>3 DEF Next

(* The inductive invariant holds in every reachable state.                 *)
THEOREM Invariance == Spec => []IInv
<1> QED
  BY IInvInit, IInvStep, PTL DEF Spec

(* The variables of the lock protocol keep their types; in particular the  *)
(* number of polls never exceeds what timeout_s allows.                    *)
THEOREM TypeCorrect == Spec => []TypeOK
<1>1. IInv => TypeOK
  BY DEF IInv
<1> QED
  BY <1>1, Invariance, PTL
-----------------------------------------------------------------------------
(* runtime_state.py excludes as documented while no process has ended: two *)
(* processes past flock have the same file open, which one of them owns.   *)
THEOREM Exclusion == Spec => []ExclusionWhileAllLive
<1>1. IInv => ExclusionWhileAllLive
  BY ConstantAssumption
     DEF IInv, TypeOK, HandleInv, FlockInv, LinkInv, ExclusionWhileAllLive, Locked
<1> QED
  BY <1>1, Invariance, PTL
-----------------------------------------------------------------------------
(* A settled holder stays settled until it releases the lock or dies: the  *)
(* calls of later processes read its pid, find it alive and wait.          *)
LEMMA SettledStep ==
    ASSUME IInv, [Next]_vars, NEW p \in Proc, Settled(p)
    PROVE  Settled(p)' \/ ~Holds(p)'
<1> USE ConstantAssumption DEF IInv, TypeOK, HandleInv, FlockInv, MetaInv,
        Settled, Holds, Goto, Acquiring, Locked, Ended
<1>1. CASE UNCHANGED vars
  BY <1>1 DEF vars
<1>2. ASSUME NEW q \in Proc, Step(q) PROVE Settled(p)' \/ ~Holds(p)'
  <2>1. CASE ReadMetadata(q)
    BY <2>1 DEF ReadMetadata, PathMetadata
  <2>2. CASE JudgeStale(q)
    BY <2>2 DEF JudgeStale
  <2>3. CASE JudgeLive(q)
    BY <2>3 DEF JudgeLive
  <2>4. CASE Unlink(q)
    BY <2>4 DEF Unlink
  <2>5. CASE OpenExisting(q)
    BY <2>5 DEF OpenExisting
  <2>6. CASE OpenCreate(q)
    BY <2>6 DEF OpenCreate
  <2>7. CASE FlockGranted(q)
    BY <2>7 DEF FlockGranted
  <2>8. CASE FlockRefused(q)
    BY <2>8 DEF FlockRefused
  <2>9. CASE Poll(q)
    BY <2>9 DEF Poll
  <2>10. CASE TimeOut(q)
    BY <2>10 DEF TimeOut
  <2>11. CASE Truncate(q)
    BY <2>11 DEF Truncate
  <2>12. CASE WriteMetadata(q)
    BY <2>12 DEF WriteMetadata
  <2>13. CASE Release(q)
    BY <2>13 DEF Release
  <2>14. CASE UnlinkFails(q)
    BY <2>14 DEF UnlinkFails
  <2> QED
    BY <1>2, <2>1, <2>2, <2>3, <2>4, <2>5, <2>6, <2>7, <2>8, <2>9, <2>10,
       <2>11, <2>12, <2>13, <2>14 DEF Step
<1>3. ASSUME NEW q \in Proc, Die(q) PROVE Settled(p)' \/ ~Holds(p)'
  BY <1>3 DEF Die
<1> QED
  BY <1>1, <1>2, <1>3 DEF Next

THEOREM SettledIsStable == Spec => SettledUntilReleased
<1> DEFINE Stable == \A p \in Proc : Settled(p) => Settled(p)' \/ ~Holds(p)'
<1>1. IInv /\ [Next]_vars => [Stable]_vars
  BY SettledStep
<1> QED
  BY <1>1, Invariance, PTL DEF Spec, SettledUntilReleased
-----------------------------------------------------------------------------
(* The refinement of ExclusiveLock, step by step.  The three sets of the   *)
(* abstract lock, as the program counters give them.                       *)
Holders == {p \in Proc : pc[p] \in Locked}
Waiting == {p \in Proc : pc[p] \in Acquiring}
Over    == {p \in Proc : pc[p] \in Ended}

(* A step inside acquire_interprocess_lock, or inside the body of `with    *)
(* lock:`, is invisible to the abstract lock.                              *)
LEMMA InvisibleStep ==
    ASSUME TypeOK, NEW p \in Proc, NEW label, Goto(p, label),
           \/ pc[p] \in Acquiring /\ label \in Acquiring
           \/ pc[p] \in Locked /\ label \in Locked
    PROVE  UNCHANGED Lock!vars
<1>1. \A q \in Proc : pc'[q] = IF q = p THEN label ELSE pc[q]
  BY DEF TypeOK, Goto
<1>2. \A q \in Proc : /\ pc'[q] \in Locked <=> pc[q] \in Locked
                      /\ pc'[q] \in Acquiring <=> pc[q] \in Acquiring
                      /\ pc'[q] \in Ended <=> pc[q] \in Ended
  BY <1>1 DEF Locked, Acquiring, Ended
<1>3. Holders' = Holders /\ Waiting' = Waiting /\ Over' = Over
  BY <1>2 DEF Holders, Waiting, Over
<1> QED
  BY <1>3 DEF Lock!vars, Holders, Waiting, Over

(* While nobody has ended, every system call is a step of ExclusiveLock or *)
(* invisible to it: flock is granted only when nobody is past it.          *)
LEMMA LockStep ==
    ASSUME IInv, [Next]_vars, \A p \in Proc : alive'[p]
    PROVE  [Lock!Next]_(Lock!vars)
<1>1. CASE UNCHANGED vars
  BY <1>1 DEF vars, Lock!vars
<1>2. ASSUME NEW p \in Proc, Step(p) PROVE [Lock!Next]_(Lock!vars)
  <2>0. TypeOK
    BY DEF IInv
  <2>a. \A q \in Proc : alive[q]
    BY <1>2 DEF Step, ReadMetadata, JudgeStale, JudgeLive, Unlink, UnlinkFails,
       OpenExisting, OpenCreate, FlockGranted, FlockRefused, Poll, TimeOut,
       Truncate, WriteMetadata, Release
  <2>1. CASE ReadMetadata(p) /\ pc[p] = "idle"
    <3>1. \A q \in Proc : pc'[q] = IF q = p THEN "judge" ELSE pc[q]
      BY <2>0, <2>1 DEF TypeOK, ReadMetadata, Goto
    <3>2. /\ Holders' = Holders /\ Waiting' = Waiting \cup {p} /\ Over' = Over
          /\ p \notin Holders \cup Waiting \cup Over
      BY <2>1, <3>1 DEF Holders, Waiting, Over, Locked, Acquiring, Ended
    <3>3. Lock!Request(p)
      BY <3>2 DEF Lock!Request, Holders, Waiting, Over
    <3> QED
      BY <3>3 DEF Lock!Next
  <2>2. CASE FlockGranted(p)
    <3>1. \A q \in Proc : pc'[q] = IF q = p THEN "truncate" ELSE pc[q]
      BY <2>0, <2>2 DEF TypeOK, FlockGranted, Goto
    <3>2. Holders = {}
      <4> SUFFICES ASSUME NEW q \in Proc, pc[q] \in Locked PROVE FALSE
        BY DEF Holders
      <4>1. handle[q] = link /\ handle[p] = link
        BY <2>2, <2>a DEF IInv, HandleInv, LinkInv, FlockGranted
      <4>2. flock[handle[q]] = q
        BY DEF IInv, FlockInv
      <4> QED
        BY <4>1, <4>2, <2>2, ConstantAssumption DEF FlockGranted
    <3>3. /\ Holders' = {p} /\ Waiting' = Waiting \ {p} /\ Over' = Over
          /\ p \in Waiting
      BY <2>2, <3>1, <3>2 DEF FlockGranted, Holders, Waiting, Over, Locked, Acquiring, Ended
    <3>4. Lock!Acquire(p)
      BY <3>2, <3>3 DEF Lock!Acquire, Holders, Waiting, Over
    <3> QED
      BY <3>4 DEF Lock!Next
  <2>3. CASE TimeOut(p)
    <3>1. \A q \in Proc : pc'[q] = IF q = p THEN "blocked" ELSE pc[q]
      BY <2>0, <2>3 DEF TypeOK, TimeOut, Goto
    <3>2. /\ Holders' = Holders /\ Waiting' = Waiting \ {p} /\ Over' = Over \cup {p}
          /\ p \in Waiting
      BY <2>3, <3>1 DEF TimeOut, Holders, Waiting, Over, Locked, Acquiring, Ended
    <3>3. Lock!GiveUp(p)
      BY <3>2 DEF Lock!GiveUp, Holders, Waiting, Over
    <3> QED
      BY <3>3 DEF Lock!Next
  <2>4. CASE Release(p)
    <3>1. \A q \in Proc : pc'[q] = IF q = p THEN "done" ELSE pc[q]
      BY <2>0, <2>4 DEF TypeOK, Release, Goto
    <3>2. /\ Holders' = Holders \ {p} /\ Waiting' = Waiting /\ Over' = Over \cup {p}
          /\ p \in Holders
      BY <2>4, <3>1 DEF Release, Holders, Waiting, Over, Locked, Acquiring, Ended
    <3>3. Lock!Release(p)
      BY <3>2 DEF Lock!Release, Holders, Waiting, Over
    <3> QED
      BY <3>3 DEF Lock!Next
  <2>5. CASE ReadMetadata(p) /\ pc[p] = "read"
    BY <2>0, <2>5, InvisibleStep DEF ReadMetadata, Acquiring
  <2>6. CASE JudgeStale(p) \/ JudgeLive(p)
    BY <2>0, <2>6, InvisibleStep DEF JudgeStale, JudgeLive, Acquiring
  <2>7. CASE Unlink(p) \/ UnlinkFails(p)
    BY <2>0, <2>7, InvisibleStep DEF Unlink, UnlinkFails, Acquiring
  <2>8. CASE OpenExisting(p) \/ OpenCreate(p)
    BY <2>0, <2>8, InvisibleStep DEF OpenExisting, OpenCreate, Acquiring
  <2>9. CASE FlockRefused(p) \/ Poll(p)
    BY <2>0, <2>9, InvisibleStep DEF FlockRefused, Poll, Acquiring
  <2>10. CASE Truncate(p) \/ WriteMetadata(p)
    BY <2>0, <2>10, InvisibleStep DEF Truncate, WriteMetadata, Locked
  <2> QED
    BY <1>2, <2>1, <2>2, <2>3, <2>4, <2>5, <2>6, <2>7, <2>8, <2>9, <2>10
       DEF Step, ReadMetadata
<1>3. ASSUME NEW p \in Proc, Die(p) PROVE FALSE
  BY <1>3 DEF Die, IInv, TypeOK
<1> QED
  BY <1>1, <1>2, <1>3 DEF Next

(* Until a process ends, the protocol of system calls implements the plain *)
(* lock that the callers of runtime_state.py rely on.                      *)
THEOREM ImplementsLock == Spec => ActsAsLockWhileAllLive
<1> DEFINE AllLive == \A p \in Proc : alive'[p]
           Acts == AllLive => [Lock!Next]_(Lock!vars)
<1>1. Init => Lock!Init
  BY DEF Init, Lock!Init, Locked, Acquiring, Ended
<1>2. IInv /\ [Next]_vars => Acts
  BY LockStep
<1>3. IInv /\ [Next]_vars => [Acts]_vars
  BY <1>2
<1> QED
  BY <1>1, <1>3, Invariance, PTL DEF Spec, ActsAsLockWhileAllLive
=============================================================================
