-------------------------- MODULE DeviceQueuesProofs --------------------------
(***************************************************************************)
(* Proofs about DeviceQueues for any number of runs, queues and lock files *)
(* and any plans: exclusion on a device, a report that is complete and     *)
(* true, outcomes that are final, and the use of each lock file as         *)
(* ExclusiveLock prescribes.  Then about PlanItem, for any timeouts,       *)
(* budgets and numbers of HAPs.                                            *)
(***************************************************************************)
EXTENDS DeviceQueues, PlanItem, FiniteSetTheorems, SequenceTheorems, TLAPS

ActiveLabels == {"acquiring", "waiting", "open"}

(* A queue is open exactly while it owns its lock file, and no lock file   *)
(* has an owner from elsewhere.                                            *)
OwnerInv ==
    /\ \A r \in Run : \A q \in Queue :
          work[r][q] = "open" <=> owner[LockOf[q]] = <<r, q>>
    /\ \A l \in Lock : owner[l] # NoOne =>
          \E r \in Run, q \in Queue : owner[l] = <<r, q>> /\ LockOf[q] = l

(* Where the queues of a run can be when its main thread is somewhere; in  *)
(* a run without a pool one queue at most is neither waiting nor merged.   *)
RunInv(r) ==
    /\ merged[r] \subseteq Queues[r]
    /\ phase[r] = "idle" => merged[r] = {}
    /\ \A q \in Queue :
        /\ phase[r] = "idle" => work[r][q] = "absent"
        /\ phase[r] # "idle" => (work[r][q] = "absent" <=> q \notin Queues[r])
        /\ q \in merged[r] => work[r][q] = "closed"
        /\ phase[r] \in Returned => work[r][q] \notin ActiveLabels
        /\ phase[r] \in Returned /\ ~Serial[r] => work[r][q] # "queued"
        /\ Serial[r] /\ phase[r] # "gather" => work[r][q] \notin ActiveLabels
    /\ Serial[r] => \A p, q \in Queues[r] \ merged[r] :
          work[r][p] \notin {"absent", "queued"} /\ work[r][q] \notin {"absent", "queued"}
            => p = q
    /\ phase[r] = "done" => merged[r] = Queues[r]
    /\ report[r] = "results" => phase[r] = "done"

WorkInv == \A r \in Run : RunInv(r)

(* What the outcomes of the items of a queue can be when the queue is      *)
(* somewhere.                                                              *)
ItemsInv(r) ==
    /\ \A n \in Items[r] \ Pending[r] :
          outcome[r][n] = IF phase[r] = "idle" THEN "none" ELSE "unavailable"
    /\ \A q \in Queue : \A n \in QItems[r][q] :
        /\ outcome[r][n] # "unavailable"
        /\ work[r][q] \in {"absent", "queued", "acquiring", "waiting"} =>
              outcome[r][n] = "none"
        /\ work[r][q] = "closed" => outcome[r][n] \in Status
        /\ outcome[r][n] = "running" =>
              /\ work[r][q] = "open"
              /\ \A m \in QItems[r][q] : outcome[r][m] = "running" => m = n
        /\ outcome[r][n] = "blocked" =>
              /\ work[r][q] = "closed"
              /\ \A m \in QItems[r][q] : outcome[r][m] = "blocked"

ItemInv == \A r \in Run : ItemsInv(r)

(* The items that the summary of a run counts, and what it counts.         *)
Counted(r) == {n \in Items[r] : n \notin Pending[r] \/ Plan[r][n].queue \in merged[r]}
CountInv ==
    \A r \in Run : \A s \in Status :
        summary[r][s] = IF phase[r] = "idle" THEN 0 ELSE Count(r, Counted(r), s)

IInv == TypeOK /\ OwnerInv /\ WorkInv /\ ItemInv /\ CountInv
-----------------------------------------------------------------------------
(* The tables of a plan: what is an item, pending, of a queue, a queue.    *)
LEMMA PlanTables ==
    ASSUME NEW r \in Run
    PROVE  /\ Items[r] \subseteq Nat /\ IsFiniteSet(Items[r])
           /\ Pending[r] \subseteq Items[r]
           /\ Queues[r] \subseteq Queue
           /\ \A q \in Queue : QItems[r][q] \subseteq Pending[r]
           /\ \A q \in Queue : q \in Queues[r] <=> QItems[r][q] # {}
           /\ \A q \in Queue : \A n \in Pending[r] :
                 n \in QItems[r][q] <=> Plan[r][n].queue = q
           /\ \A n \in Pending[r] :
                 Plan[r][n].queue \in Queues[r] /\ n \in QItems[r][Plan[r][n].queue]
<1>1. Plan[r] \in Seq([queue : Queue, pending : BOOLEAN])
  BY ConstantAssumption
<1>2. DOMAIN Plan[r] = 1..Len(Plan[r]) /\ Len(Plan[r]) \in Nat
  BY <1>1
<1>3. \A n \in DOMAIN Plan[r] : Plan[r][n].queue \in Queue
  <2>1. \A n \in 1..Len(Plan[r]) : Plan[r][n] \in [queue : Queue, pending : BOOLEAN]
    BY <1>1, ElementOfSeq
  <2> QED
    BY <1>2, <2>1
<1>4. Items[r] = 1..Len(Plan[r])
  BY <1>2 DEF Items
<1>5. IsFiniteSet(Items[r])
  BY <1>2, <1>4, FS_Interval
<1> QED
  BY <1>2, <1>3, <1>4, <1>5 DEF Items, Pending, QItems, Queues

(* Every counter is a number.                                              *)
LEMMA CountType ==
    ASSUME NEW r \in Run, NEW S \in SUBSET Items[r], NEW s
    PROVE  Count(r, S, s) \in Nat
<1>1. IsFiniteSet({n \in S : outcome[r][n] = s})
  BY PlanTables, FS_Subset
<1> QED
  BY <1>1, FS_CardinalityType DEF Count

(* Disjoint sets of items are counted one after the other.                 *)
LEMMA CountUnion ==
    ASSUME NEW r \in Run, NEW S \in SUBSET Items[r], NEW T \in SUBSET Items[r],
           S \cap T = {}, NEW s
    PROVE  Count(r, S \cup T, s) = Count(r, S, s) + Count(r, T, s)
<1> DEFINE A == {n \in S : outcome[r][n] = s}
           B == {n \in T : outcome[r][n] = s}
<1>1. IsFiniteSet(A) /\ IsFiniteSet(B)
  BY PlanTables, FS_Subset
<1>2. A \cap B = {} /\ {n \in S \cup T : outcome[r][n] = s} = A \cup B
  OBVIOUS
<1>3. Cardinality(A) \in Nat /\ Cardinality(B) \in Nat
  BY <1>1, FS_CardinalityType
<1>4. Cardinality(A \cap B) = 0
  BY <1>2, FS_EmptySet
<1>5. Cardinality(A \cup B) = Cardinality(A) + Cardinality(B) - Cardinality(A \cap B)
  <2> HIDE DEF A, B
  <2> QED
    BY <1>1, FS_Union
<1>6. /\ Count(r, S, s) = Cardinality(A) /\ Count(r, T, s) = Cardinality(B)
      /\ Count(r, S \cup T, s) = Cardinality(A \cup B)
  BY <1>2 DEF Count
<1> HIDE DEF A, B
<1> QED
  BY <1>3, <1>4, <1>5, <1>6
-----------------------------------------------------------------------------
(* The types hold at the start.                                            *)
LEMMA TypeInit == Init => TypeOK
  BY DEF Init, TypeOK

(* Every step keeps the types.                                             *)
LEMMA TypeStep == TypeOK /\ [Next]_vars => TypeOK'
<1> SUFFICES ASSUME TypeOK, [Next]_vars PROVE TypeOK'
  OBVIOUS
<1>0. \A r \in Run :
        /\ Pending[r] \subseteq Items[r] /\ Queues[r] \subseteq Queue
        /\ \A q \in Queue : QItems[r][q] \subseteq Items[r]
  BY PlanTables
<1> USE ConstantAssumption, <1>0 DEF TypeOK, Working, Returned, Status, MainGoes,
   QueueGoes, ItemGets, Unlock
<1>1. CASE UNCHANGED vars
  BY <1>1 DEF vars
<1>2. ASSUME NEW r \in Run, NEW q \in Queue,
             QueueStep(r, q) \/ ItemEnds(r, q) \/ Merge(r, q) \/ GatherRaises(r, q)
      PROVE  TypeOK'
  <2>1. CASE StartQueue(r, q)
    BY <2>1 DEF StartQueue
  <2>2. CASE TakeLock(r, q)
    BY <2>2 DEF TakeLock
  <2>3. CASE LockBusy(r, q)
    BY <2>3 DEF LockBusy
  <2>4. CASE LockTimeout(r, q)
    <3>1. outcome'[r] \in [Items[r] -> Status \cup {"none", "running"}]
      BY <2>4 DEF LockTimeout
    <3>2. DOMAIN outcome' = Run /\ \A s \in Run \ {r} : outcome'[s] = outcome[s]
      BY <2>4 DEF LockTimeout
    <3>3. \A s \in Run : outcome'[s] \in [Items[s] -> Status \cup {"none", "running"}]
      BY <3>1, <3>2
    <3> QED
      BY <2>4, <3>2, <3>3 DEF LockTimeout
  <2>5. CASE LockRaises(r, q)
    BY <2>5 DEF LockRaises
  <2>6. CASE StartItem(r, q)
    <3>1. outcome'[r] \in [Items[r] -> Status \cup {"none", "running"}]
      BY <2>6 DEF StartItem
    <3>2. DOMAIN outcome' = Run /\ \A s \in Run \ {r} : outcome'[s] = outcome[s]
      BY <2>6 DEF StartItem
    <3>3. \A s \in Run : outcome'[s] \in [Items[s] -> Status \cup {"none", "running"}]
      BY <3>1, <3>2
    <3> QED
      BY <2>6, <3>2, <3>3 DEF StartItem
  <2>7. CASE FinishItem(r, q)
    <3>1. outcome'[r] \in [Items[r] -> Status \cup {"none", "running"}]
      BY <2>7 DEF FinishItem
    <3>2. DOMAIN outcome' = Run /\ \A s \in Run \ {r} : outcome'[s] = outcome[s]
      BY <2>7 DEF FinishItem
    <3>3. \A s \in Run : outcome'[s] \in [Items[s] -> Status \cup {"none", "running"}]
      BY <3>1, <3>2
    <3> QED
      BY <2>7, <3>2, <3>3 DEF FinishItem
  <2>8. CASE ItemRaises(r, q)
    <3>1. outcome'[r] \in [Items[r] -> Status \cup {"none", "running"}]
      BY <2>8 DEF ItemRaises
    <3>2. DOMAIN outcome' = Run /\ \A s \in Run \ {r} : outcome'[s] = outcome[s]
      BY <2>8 DEF ItemRaises
    <3>3. \A s \in Run : outcome'[s] \in [Items[s] -> Status \cup {"none", "running"}]
      BY <3>1, <3>2
    <3> QED
      BY <2>8, <3>2, <3>3 DEF ItemRaises
  <2>9. CASE CloseQueue(r, q)
    BY <2>9 DEF CloseQueue
  <2>10. CASE Merge(r, q)
    <3>1. \A s \in Status : Count(r, QItems[r][q], s) \in Nat
      BY CountType
    <3>2. Added(r, QItems[r][q]) \in [Status -> Nat]
      BY <3>1 DEF Added
    <3>3. summary' \in [Run -> [Status -> Nat]]
      BY <2>10, <3>2 DEF Merge
    <3>4. merged' \in [Run -> SUBSET Queue]
      BY <2>10 DEF Merge
    <3> QED
      BY <2>10, <3>3, <3>4 DEF Merge
  <2>11. CASE GatherRaises(r, q)
    BY <2>11 DEF GatherRaises
  <2> QED
    BY <1>2, <2>1, <2>2, <2>3, <2>4, <2>5, <2>6, <2>7, <2>8, <2>9, <2>10, <2>11 DEF
       QueueStep, QueueAdvances, ItemEnds
<1>3. ASSUME NEW r \in Run,
             PlanRun(r) \/ Finish(r) \/ Interrupt(r) \/ EndInterrupted(r) \/
                EndFailed(r) \/ Abandon(r)
      PROVE  TypeOK'
  <2>1. CASE PlanRun(r)
    <3>1. Cardinality(Items[r] \ Pending[r]) \in Nat
      BY PlanTables, FS_Difference, FS_CardinalityType
    <3> QED
      BY <2>1, <3>1 DEF PlanRun
  <2>2. CASE Finish(r)
    BY <2>2 DEF Finish
  <2>3. CASE Interrupt(r)
    <3>1. outcome'[r] \in [Items[r] -> Status \cup {"none", "running"}]
      BY <2>3 DEF Interrupt
    <3>2. DOMAIN outcome' = Run /\ \A s \in Run \ {r} : outcome'[s] = outcome[s]
      BY <2>3 DEF Interrupt
    <3>3. \A s \in Run : outcome'[s] \in [Items[s] -> Status \cup {"none", "running"}]
      BY <3>1, <3>2
    <3>4. work' \in [Run -> [Queue -> {"absent", "queued", "acquiring", "waiting",
       "open", "closed", "raised"}]]
      BY <2>3 DEF Interrupt, Active
    <3>5. owner' \in [Lock -> (Run \X Queue) \cup {NoOne}]
      BY <2>3 DEF Interrupt
    <3> QED
      BY <2>3, <3>2, <3>3, <3>4, <3>5 DEF Interrupt
  <2>4. CASE EndInterrupted(r)
    BY <2>4 DEF EndInterrupted
  <2>5. CASE EndFailed(r)
    BY <2>5 DEF EndFailed
  <2>6. CASE Abandon(r)
    BY <2>6 DEF Abandon
  <2> QED
    BY <1>3, <2>1, <2>2, <2>3, <2>4, <2>5, <2>6
<1> QED
  BY <1>1, <1>2, <1>3 DEF Next, MainStep
(* Clients of lock files are told apart, and are not NoOne.                *)
LEMMA Clients2 ==
    /\ LockOf \in [Queue -> Lock]
    /\ \A s, t \in Run : \A p, o \in Queue :
          <<s, p>> # NoOne /\ (<<s, p>> = <<t, o>> <=> s = t /\ p = o)
  BY ConstantAssumption

(* A queue that takes its free lock file, or gives it back, keeps OwnerInv. *)
LEMMA OwnerMoves ==
    ASSUME OwnerInv, NEW r \in Run, NEW q \in Queue,
           owner[LockOf[q]] \in {NoOne, <<r, q>>},
           \A s \in Run, p \in Queue : s # r \/ p # q => work'[s][p] = work[s][p],
           \A l \in Lock : l # LockOf[q] => owner'[l] = owner[l],
           owner'[LockOf[q]] = IF work'[r][q] = "open" THEN <<r, q>> ELSE NoOne
    PROVE  OwnerInv'
<1>1. ASSUME NEW s \in Run, NEW p \in Queue
      PROVE  work'[s][p] = "open" <=> owner'[LockOf[p]] = <<s, p>>
  <2>1. work[s][p] = "open" <=> owner[LockOf[p]] = <<s, p>>
    BY DEF OwnerInv
  <2>2. LockOf[p] \in Lock /\ LockOf[q] \in Lock /\ <<s, p>> # NoOne
    BY Clients2
  <2>3. <<s, p>> = <<r, q>> <=> s = r /\ p = q
    BY Clients2
  <2>4. LockOf[p] # LockOf[q] => owner'[LockOf[p]] = owner[LockOf[p]]
    BY <2>2
  <2>5. s # r \/ p # q => work'[s][p] = work[s][p]
    OBVIOUS
  <2> QED
    BY <2>1, <2>2, <2>3, <2>4, <2>5
<1>2. \A l \in Lock : owner'[l] # NoOne =>
        \E s \in Run, p \in Queue : owner'[l] = <<s, p>> /\ LockOf[p] = l
  BY DEF OwnerInv
<1> QED
  BY <1>1, <1>2 DEF OwnerInv
(* An interrupt without a pool closes the queue at hand and its lock file. *)
LEMMA OwnerCleared ==
    ASSUME TypeOK, OwnerInv, NEW r \in Run, Interrupt(r)
    PROVE  OwnerInv'
<1>1. CASE Serial[r]
  <2>1. \A s \in Run, p \in Queue :
          work'[s][p] = IF s = r /\ p \in Active(r) THEN "raised" ELSE work[s][p]
    BY <1>1 DEF Interrupt, TypeOK
  <2>2. \A l \in Lock : owner'[l] = IF owner[l] \in {r} \X Queue THEN NoOne ELSE owner[l]
    BY <1>1 DEF Interrupt
  <2>3. ASSUME NEW s \in Run, NEW p \in Queue
        PROVE  work'[s][p] = "open" <=> owner'[LockOf[p]] = <<s, p>>
    <3>1. work[s][p] = "open" <=> owner[LockOf[p]] = <<s, p>>
      BY DEF OwnerInv
    <3>2. LockOf[p] \in Lock /\ <<s, p>> # NoOne
      BY Clients2
    <3>3. work[r][p] = "open" => p \in Active(r)
      BY DEF Active
    <3>4. <<s, p>> \in {r} \X Queue <=> s = r
      OBVIOUS
    <3> QED
      BY <2>1, <2>2, <3>1, <3>2, <3>3, <3>4
  <2>4. \A l \in Lock : owner'[l] # NoOne =>
          \E s \in Run, p \in Queue : owner'[l] = <<s, p>> /\ LockOf[p] = l
    BY <2>2 DEF OwnerInv
  <2> QED
    BY <2>3, <2>4 DEF OwnerInv
<1>2. CASE ~Serial[r]
  BY <1>2 DEF Interrupt, OwnerInv
<1> QED
  BY <1>1, <1>2
(* A queue opens when it takes its lock file and gives the file back when it *)
(* closes, raises or is interrupted.                                       *)
LEMMA OwnerStep == TypeOK /\ OwnerInv /\ WorkInv /\ [Next]_vars => OwnerInv'
<1> SUFFICES ASSUME TypeOK, OwnerInv, WorkInv, [Next]_vars PROVE OwnerInv'
  OBVIOUS
<1> USE DEF MainGoes, QueueGoes, ItemGets, Unlock
<1>1. CASE UNCHANGED vars
  BY <1>1 DEF vars, OwnerInv
<1>2. ASSUME NEW r \in Run, NEW q \in Queue,
             QueueStep(r, q) \/ ItemEnds(r, q) \/ Merge(r, q) \/ GatherRaises(r, q)
      PROVE  OwnerInv'
  <2>1. CASE StartQueue(r, q)
    <3>1. owner' = owner /\ \A s \in Run, p \in Queue :
            work'[s][p] = "open" <=> work[s][p] = "open"
      BY <2>1 DEF StartQueue, TypeOK
    <3> QED
      BY <3>1 DEF OwnerInv
  <2>2. CASE TakeLock(r, q)
    <3>1. owner[LockOf[q]] \in {NoOne, <<r, q>>}
      BY <2>2, Clients2 DEF TakeLock, OwnerInv, TypeOK
    <3>2. \A s \in Run, p \in Queue : s # r \/ p # q => work'[s][p] = work[s][p]
      BY <2>2 DEF TakeLock, TypeOK
    <3>3. \A l \in Lock : l # LockOf[q] => owner'[l] = owner[l]
      BY <2>2 DEF TakeLock, TypeOK
    <3>4. owner'[LockOf[q]] = IF work'[r][q] = "open" THEN <<r, q>> ELSE NoOne
      BY <2>2, Clients2 DEF TakeLock, TypeOK
    <3> QED
      BY <3>1, <3>2, <3>3, <3>4, OwnerMoves
  <2>3. CASE LockBusy(r, q)
    <3>1. owner' = owner /\ \A s \in Run, p \in Queue :
            work'[s][p] = "open" <=> work[s][p] = "open"
      BY <2>3 DEF LockBusy, TypeOK
    <3> QED
      BY <3>1 DEF OwnerInv
  <2>4. CASE LockTimeout(r, q)
    <3>1. owner' = owner /\ \A s \in Run, p \in Queue :
            work'[s][p] = "open" <=> work[s][p] = "open"
      BY <2>4 DEF LockTimeout, TypeOK
    <3> QED
      BY <3>1 DEF OwnerInv
  <2>5. CASE LockRaises(r, q)
    <3>1. owner' = owner /\ \A s \in Run, p \in Queue :
            work'[s][p] = "open" <=> work[s][p] = "open"
      BY <2>5 DEF LockRaises, TypeOK
    <3> QED
      BY <3>1 DEF OwnerInv
  <2>6. CASE StartItem(r, q)
    <3>1. owner' = owner /\ work' = work
      BY <2>6 DEF StartItem
    <3> QED
      BY <3>1 DEF OwnerInv
  <2>7. CASE FinishItem(r, q)
    <3>1. owner' = owner /\ work' = work
      BY <2>7 DEF FinishItem
    <3> QED
      BY <3>1 DEF OwnerInv
  <2>8. CASE ItemRaises(r, q)
    <3>1. owner[LockOf[q]] \in {NoOne, <<r, q>>}
      BY <2>8, Clients2 DEF ItemRaises, OwnerInv, TypeOK
    <3>2. \A s \in Run, p \in Queue : s # r \/ p # q => work'[s][p] = work[s][p]
      BY <2>8 DEF ItemRaises, TypeOK
    <3>3. \A l \in Lock : l # LockOf[q] => owner'[l] = owner[l]
      BY <2>8 DEF ItemRaises, TypeOK
    <3>4. owner'[LockOf[q]] = IF work'[r][q] = "open" THEN <<r, q>> ELSE NoOne
      BY <2>8, Clients2 DEF ItemRaises, TypeOK
    <3> QED
      BY <3>1, <3>2, <3>3, <3>4, OwnerMoves
  <2>9. CASE CloseQueue(r, q)
    <3>1. owner[LockOf[q]] \in {NoOne, <<r, q>>}
      BY <2>9, Clients2 DEF CloseQueue, OwnerInv, TypeOK
    <3>2. \A s \in Run, p \in Queue : s # r \/ p # q => work'[s][p] = work[s][p]
      BY <2>9 DEF CloseQueue, TypeOK
    <3>3. \A l \in Lock : l # LockOf[q] => owner'[l] = owner[l]
      BY <2>9 DEF CloseQueue, TypeOK
    <3>4. owner'[LockOf[q]] = IF work'[r][q] = "open" THEN <<r, q>> ELSE NoOne
      BY <2>9, Clients2 DEF CloseQueue, TypeOK
    <3> QED
      BY <3>1, <3>2, <3>3, <3>4, OwnerMoves
  <2>10. CASE Merge(r, q)
    <3>1. owner' = owner /\ work' = work
      BY <2>10 DEF Merge
    <3> QED
      BY <3>1 DEF OwnerInv
  <2>11. CASE GatherRaises(r, q)
    <3>1. owner' = owner /\ work' = work
      BY <2>11 DEF GatherRaises
    <3> QED
      BY <3>1 DEF OwnerInv
  <2> QED
    BY <1>2, <2>1, <2>2, <2>3, <2>4, <2>5, <2>6, <2>7, <2>8, <2>9, <2>10, <2>11 DEF
       QueueStep, QueueAdvances, ItemEnds
<1>3. ASSUME NEW r \in Run,
             PlanRun(r) \/ Finish(r) \/ Interrupt(r) \/ EndInterrupted(r) \/
                EndFailed(r) \/ Abandon(r)
      PROVE  OwnerInv'
  <2>1. CASE PlanRun(r)
    BY <2>1 DEF PlanRun, OwnerInv, WorkInv, RunInv, TypeOK
  <2>2. CASE Finish(r)
    <3>1. owner' = owner /\ work' = work
      BY <2>2 DEF Finish
    <3> QED
      BY <3>1 DEF OwnerInv
  <2>3. CASE Interrupt(r)
    BY <2>3, OwnerCleared DEF Interrupt
  <2>4. CASE EndInterrupted(r)
    <3>1. owner' = owner /\ work' = work
      BY <2>4 DEF EndInterrupted
    <3> QED
      BY <3>1 DEF OwnerInv
  <2>5. CASE EndFailed(r)
    <3>1. owner' = owner /\ work' = work
      BY <2>5 DEF EndFailed
    <3> QED
      BY <3>1 DEF OwnerInv
  <2>6. CASE Abandon(r)
    <3>1. owner' = owner /\ work' = work
      BY <2>6 DEF Abandon
    <3> QED
      BY <3>1 DEF OwnerInv
  <2> QED
    BY <1>3, <2>1, <2>2, <2>3, <2>4, <2>5, <2>6
<1> QED
  BY <1>1, <1>2, <1>3 DEF Next, MainStep
(* What happens in one run says nothing of the others.                     *)
LEMMA OtherRuns ==
    ASSUME TypeOK, WorkInv, NEW r \in Run, RunInv(r)',
           \A s \in Run \ {r} : /\ phase'[s] = phase[s] /\ work'[s] = work[s]
                               /\ merged'[s] = merged[s] /\ report'[s] = report[s]
    PROVE  WorkInv'
<1> SUFFICES ASSUME NEW s \in Run \ {r} PROVE RunInv(s)'
  BY DEF WorkInv
<1> QED
  BY DEF WorkInv, RunInv
(* The queues and the main thread of a run stay in step.                   *)
LEMMA WorkStep == TypeOK /\ WorkInv /\ [Next]_vars => WorkInv'
<1> SUFFICES ASSUME TypeOK, WorkInv, [Next]_vars PROVE WorkInv'
  OBVIOUS
<1>0. \A r \in Run : Queues[r] \subseteq Queue
  BY PlanTables
<1> USE <1>0 DEF Working, Returned, ActiveLabels, MainGoes, QueueGoes, ItemGets, Unlock
<1>1. CASE UNCHANGED vars
  BY <1>1 DEF vars, WorkInv, RunInv
<1>2. ASSUME NEW r \in Run, NEW q \in Queue,
             QueueStep(r, q) \/ ItemEnds(r, q) \/ Merge(r, q) \/ GatherRaises(r, q)
      PROVE  WorkInv'
  <2>1. CASE StartQueue(r, q)
    <3>1. RunInv(r)'
      BY <2>1 DEF StartQueue, RunInv, WorkInv, TypeOK
    <3> QED
      BY <2>1, <3>1, OtherRuns DEF StartQueue, TypeOK
  <2>2. CASE TakeLock(r, q)
    <3>1. RunInv(r)'
      BY <2>2 DEF TakeLock, RunInv, WorkInv, TypeOK
    <3> QED
      BY <2>2, <3>1, OtherRuns DEF TakeLock, TypeOK
  <2>3. CASE LockBusy(r, q)
    <3>1. RunInv(r)'
      BY <2>3 DEF LockBusy, RunInv, WorkInv, TypeOK
    <3> QED
      BY <2>3, <3>1, OtherRuns DEF LockBusy, TypeOK
  <2>4. CASE LockTimeout(r, q)
    <3>1. RunInv(r)'
      BY <2>4 DEF LockTimeout, RunInv, WorkInv, TypeOK
    <3> QED
      BY <2>4, <3>1, OtherRuns DEF LockTimeout, TypeOK
  <2>5. CASE LockRaises(r, q)
    <3>1. RunInv(r)'
      BY <2>5 DEF LockRaises, RunInv, WorkInv, TypeOK
    <3> QED
      BY <2>5, <3>1, OtherRuns DEF LockRaises, TypeOK
  <2>6. CASE StartItem(r, q)
    <3>1. RunInv(r)'
      BY <2>6 DEF StartItem, RunInv, WorkInv, TypeOK
    <3> QED
      BY <2>6, <3>1, OtherRuns DEF StartItem, TypeOK
  <2>7. CASE FinishItem(r, q)
    <3>1. RunInv(r)'
      BY <2>7 DEF FinishItem, RunInv, WorkInv, TypeOK
    <3> QED
      BY <2>7, <3>1, OtherRuns DEF FinishItem, TypeOK
  <2>8. CASE ItemRaises(r, q)
    <3>1. RunInv(r)'
      BY <2>8 DEF ItemRaises, RunInv, WorkInv, TypeOK
    <3> QED
      BY <2>8, <3>1, OtherRuns DEF ItemRaises, TypeOK
  <2>9. CASE CloseQueue(r, q)
    <3>1. RunInv(r)'
      BY <2>9 DEF CloseQueue, RunInv, WorkInv, TypeOK
    <3> QED
      BY <2>9, <3>1, OtherRuns DEF CloseQueue, TypeOK
  <2>10. CASE Merge(r, q)
    <3>1. RunInv(r)'
      BY <2>10 DEF Merge, Awaited, RunInv, WorkInv, TypeOK
    <3> QED
      BY <2>10, <3>1, OtherRuns DEF Merge, TypeOK
  <2>11. CASE GatherRaises(r, q)
    <3>1. RunInv(r)'
      BY <2>11 DEF GatherRaises, Awaited, RunInv, WorkInv, TypeOK
    <3> QED
      BY <2>11, <3>1, OtherRuns DEF GatherRaises, TypeOK
  <2> QED
    BY <1>2, <2>1, <2>2, <2>3, <2>4, <2>5, <2>6, <2>7, <2>8, <2>9, <2>10, <2>11 DEF
       QueueStep, QueueAdvances, ItemEnds
<1>3. ASSUME NEW r \in Run,
             PlanRun(r) \/ Finish(r) \/ Interrupt(r) \/ EndInterrupted(r) \/
                EndFailed(r) \/ Abandon(r)
      PROVE  WorkInv'
  <2>1. CASE PlanRun(r)
    <3>1. RunInv(r)'
      BY <2>1 DEF PlanRun, RunInv, WorkInv, TypeOK
    <3> QED
      BY <2>1, <3>1, OtherRuns DEF PlanRun, TypeOK
  <2>2. CASE Finish(r)
    <3>1. RunInv(r)'
      BY <2>2 DEF Finish, RunInv, WorkInv, TypeOK
    <3> QED
      BY <2>2, <3>1, OtherRuns DEF Finish, TypeOK
  <2>3. CASE Interrupt(r)
    <3>1. \A p \in Queue : work'[r][p] =
            IF Serial[r] /\ work[r][p] \in ActiveLabels THEN "raised" ELSE work[r][p]
      BY <2>3 DEF Interrupt, Active, TypeOK
    <3>2. phase'[r] = "interrupting" /\ phase[r] = "gather" /\ UNCHANGED <<merged,
       report>>
      BY <2>3 DEF Interrupt, TypeOK
    <3>3. RunInv(r)'
      BY <3>1, <3>2 DEF RunInv, WorkInv
    <3> QED
      BY <2>3, <3>3, OtherRuns DEF Interrupt, TypeOK
  <2>4. CASE EndInterrupted(r)
    <3>1. RunInv(r)'
      BY <2>4 DEF EndInterrupted, Drained, RunInv, WorkInv, TypeOK
    <3> QED
      BY <2>4, <3>1, OtherRuns DEF EndInterrupted, TypeOK
  <2>5. CASE EndFailed(r)
    <3>1. RunInv(r)'
      BY <2>5 DEF EndFailed, Drained, RunInv, WorkInv, TypeOK
    <3> QED
      BY <2>5, <3>1, OtherRuns DEF EndFailed, TypeOK
  <2>6. CASE Abandon(r)
    <3>1. RunInv(r)'
      BY <2>6 DEF Abandon, RunInv, WorkInv, TypeOK
    <3> QED
      BY <2>6, <3>1, OtherRuns DEF Abandon, TypeOK
  <2> QED
    BY <1>3, <2>1, <2>2, <2>3, <2>4, <2>5, <2>6
<1> QED
  BY <1>1, <1>2, <1>3 DEF Next, MainStep
(* Items of other runs, and of queues that do not move, stay as they are.  *)
LEMMA OtherItems ==
    ASSUME ItemInv, NEW r \in Run, ItemsInv(r)',
           \A s \in Run \ {r} : /\ phase'[s] = phase[s] /\ work'[s] = work[s]
                               /\ outcome'[s] = outcome[s]
    PROVE  ItemInv'
<1> SUFFICES ASSUME NEW s \in Run \ {r} PROVE ItemsInv(s)'
  BY DEF ItemInv
<1> QED
  BY DEF ItemInv, ItemsInv
(* Items are run one after the other, while their queue is open.           *)
LEMMA ItemStep == TypeOK /\ WorkInv /\ ItemInv /\ [Next]_vars => ItemInv'
<1> SUFFICES ASSUME TypeOK, WorkInv, ItemInv, [Next]_vars PROVE ItemInv'
  OBVIOUS
<1>0. /\ Executed \subseteq {"passed", "failed", "timeout", "skipped"}
      /\ \A r \in Run :
          /\ Queues[r] \subseteq Queue
          /\ \A q \in Queue : /\ QItems[r][q] \subseteq Pending[r]
                             /\ q \in Queues[r] <=> QItems[r][q] # {}
          /\ \A p, q \in Queue : \A n \in QItems[r][p] : n \in QItems[r][q] => p = q
          /\ Pending[r] \subseteq Items[r]
  BY PlanTables, ConstantAssumption
<1> USE DEF Status, MainGoes, QueueGoes, ItemGets, Unlock
<1>1. CASE UNCHANGED vars
  BY <1>1 DEF vars, ItemInv, ItemsInv
<1>2. ASSUME NEW r \in Run, NEW q \in Queue,
             QueueStep(r, q) \/ ItemEnds(r, q) \/ Merge(r, q) \/ GatherRaises(r, q)
      PROVE  ItemInv'
  <2>1. CASE StartQueue(r, q)
    <3>1. ItemsInv(r)'
      BY <2>1, <1>0 DEF StartQueue, ItemsInv, ItemInv, TypeOK
    <3> QED
      BY <2>1, <3>1, OtherItems DEF StartQueue, TypeOK
  <2>2. CASE TakeLock(r, q)
    <3>1. ItemsInv(r)'
      BY <2>2, <1>0 DEF TakeLock, ItemsInv, ItemInv, TypeOK
    <3> QED
      BY <2>2, <3>1, OtherItems DEF TakeLock, TypeOK
  <2>3. CASE LockBusy(r, q)
    <3>1. ItemsInv(r)'
      BY <2>3, <1>0 DEF LockBusy, ItemsInv, ItemInv, TypeOK
    <3> QED
      BY <2>3, <3>1, OtherItems DEF LockBusy, TypeOK
  <2>4. CASE LockTimeout(r, q)
    <3>1. \A n \in Items[r] :
            outcome'[r][n] = IF n \in QItems[r][q] THEN "blocked" ELSE outcome[r][n]
      BY <2>4 DEF LockTimeout, TypeOK
    <3>2. phase' = phase /\ \A p \in Queue : work'[r][p] = IF p = q THEN "closed" ELSE
       work[r][p]
      BY <2>4 DEF LockTimeout, TypeOK
    <3>3. work[r][q] = "waiting"
      BY <2>4 DEF LockTimeout
    <3>4. ItemsInv(r)'
      BY <1>0, <3>1, <3>2, <3>3 DEF ItemsInv, ItemInv
    <3> QED
      BY <2>4, <3>4, OtherItems DEF LockTimeout, TypeOK
  <2>5. CASE LockRaises(r, q)
    <3>1. ItemsInv(r)'
      BY <2>5, <1>0 DEF LockRaises, ItemsInv, ItemInv, TypeOK
    <3> QED
      BY <2>5, <3>1, OtherItems DEF LockRaises, TypeOK
  <2>6. CASE StartItem(r, q)
    <3>1. PICK n \in QItems[r][q] : outcome[r][n] = "none" /\ ItemGets(r, n, "running")
      BY <2>6 DEF StartItem
    <3>2. \A m \in Items[r] : outcome'[r][m] = IF m = n THEN "running" ELSE outcome[r][m]
      BY <1>0, <3>1 DEF TypeOK
    <3>3. phase' = phase /\ \A p \in Queue : work'[r][p] = work[r][p]
      BY <2>6 DEF StartItem, TypeOK
    <3>4. work[r][q] = "open" /\ \A m \in QItems[r][q] : outcome[r][m] # "running"
      BY <2>6 DEF StartItem, Idle
    <3>5. ItemsInv(r)'
      BY <1>0, <3>1, <3>2, <3>3, <3>4 DEF ItemsInv, ItemInv
    <3> QED
      BY <2>6, <3>1, <3>5, OtherItems DEF StartItem, TypeOK
  <2>7. CASE FinishItem(r, q)
    <3>1. PICK n \in QItems[r][q], got \in Executed :
            outcome[r][n] = "running" /\ ItemGets(r, n, got)
      BY <2>7 DEF FinishItem
    <3>2. \A m \in Items[r] : outcome'[r][m] = IF m = n THEN got ELSE outcome[r][m]
      BY <1>0, <3>1 DEF TypeOK
    <3>3. phase' = phase /\ work' = work /\ work[r][q] = "open"
      BY <2>7 DEF FinishItem
    <3>4. got \in Status \ {"blocked", "unavailable", "none", "running"}
      BY <1>0
    <3>5. ItemsInv(r)'
      BY <1>0, <3>1, <3>2, <3>3, <3>4 DEF ItemsInv, ItemInv
    <3> QED
      BY <2>7, <3>1, <3>5, OtherItems DEF FinishItem, TypeOK
  <2>8. CASE ItemRaises(r, q)
    <3>1. PICK n \in QItems[r][q] : outcome[r][n] = "running" /\ ItemGets(r, n, "none")
      BY <2>8 DEF ItemRaises
    <3>2. \A m \in Items[r] : outcome'[r][m] = IF m = n THEN "none" ELSE outcome[r][m]
      BY <1>0, <3>1 DEF TypeOK
    <3>3. phase' = phase /\ \A p \in Queue : work'[r][p] = IF p = q THEN "raised" ELSE
       work[r][p]
      BY <2>8 DEF ItemRaises, TypeOK
    <3>4. work[r][q] = "open"
      BY <2>8 DEF ItemRaises, Idle
    <3>5. ItemsInv(r)'
      BY <1>0, <3>1, <3>2, <3>3, <3>4 DEF ItemsInv, ItemInv
    <3> QED
      BY <2>8, <3>1, <3>5, OtherItems DEF ItemRaises, TypeOK
  <2>9. CASE CloseQueue(r, q)
    <3>1. ItemsInv(r)'
      BY <2>9, <1>0 DEF CloseQueue, ItemsInv, ItemInv, TypeOK
    <3> QED
      BY <2>9, <3>1, OtherItems DEF CloseQueue, TypeOK
  <2>10. CASE Merge(r, q)
    <3>1. ItemsInv(r)'
      BY <2>10, <1>0 DEF Merge, ItemsInv, ItemInv, TypeOK
    <3> QED
      BY <2>10, <3>1, OtherItems DEF Merge, TypeOK
  <2>11. CASE GatherRaises(r, q)
    <3>1. phase[r] = "gather" /\ phase'[r] = "failing" /\ work' = work /\ outcome' =
       outcome
      BY <2>11 DEF GatherRaises, Awaited, TypeOK
    <3>2. ItemsInv(r)'
      BY <3>1 DEF ItemsInv, ItemInv
    <3> QED
      BY <2>11, <3>2, OtherItems DEF GatherRaises, TypeOK
  <2> QED
    BY <1>2, <2>1, <2>2, <2>3, <2>4, <2>5, <2>6, <2>7, <2>8, <2>9, <2>10, <2>11 DEF
       QueueStep, QueueAdvances, ItemEnds
<1>3. ASSUME NEW r \in Run,
             PlanRun(r) \/ Finish(r) \/ Interrupt(r) \/ EndInterrupted(r) \/
                EndFailed(r) \/ Abandon(r)
      PROVE  ItemInv'
  <2>1. CASE PlanRun(r)
    <3>1. \A n \in Items[r] :
            outcome'[r][n] = IF n \in Pending[r] THEN "none" ELSE "unavailable"
      BY <2>1 DEF PlanRun, TypeOK
    <3>2. \A p \in Queue : work'[r][p] = IF p \in Queues[r] THEN "queued" ELSE "absent"
      BY <2>1 DEF PlanRun, TypeOK
    <3>3. phase'[r] = "gather"
      BY <2>1 DEF PlanRun, TypeOK
    <3>4. ItemsInv(r)'
      BY <1>0, <3>1, <3>2, <3>3 DEF ItemsInv
    <3> QED
      BY <2>1, <3>4, OtherItems DEF PlanRun, TypeOK
  <2>2. CASE Finish(r)
    <3>1. ItemsInv(r)'
      BY <2>2, <1>0 DEF Finish, ItemsInv, ItemInv, TypeOK
    <3> QED
      BY <2>2, <3>1, OtherItems DEF Finish, TypeOK
  <2>3. CASE Interrupt(r)
    <3>1. \A n \in Items[r] : outcome'[r][n] =
            IF Serial[r] /\ outcome[r][n] = "running" THEN "none" ELSE outcome[r][n]
      BY <2>3 DEF Interrupt, TypeOK
    <3>2. \A p \in Queue : work'[r][p] =
            IF Serial[r] /\ p \in Active(r) THEN "raised" ELSE work[r][p]
      BY <2>3 DEF Interrupt, TypeOK
    <3>3. phase[r] = "gather" /\ phase'[r] = "interrupting"
      BY <2>3 DEF Interrupt, TypeOK
    <3>4. ItemsInv(r)'
      BY <1>0, <3>1, <3>2, <3>3 DEF ItemsInv, ItemInv, Active
    <3> QED
      BY <2>3, <3>4, OtherItems DEF Interrupt, TypeOK
  <2>4. CASE EndInterrupted(r)
    <3>1. ItemsInv(r)'
      BY <2>4, <1>0 DEF EndInterrupted, ItemsInv, ItemInv, TypeOK
    <3> QED
      BY <2>4, <3>1, OtherItems DEF EndInterrupted, TypeOK
  <2>5. CASE EndFailed(r)
    <3>1. ItemsInv(r)'
      BY <2>5, <1>0 DEF EndFailed, ItemsInv, ItemInv, TypeOK
    <3> QED
      BY <2>5, <3>1, OtherItems DEF EndFailed, TypeOK
  <2>6. CASE Abandon(r)
    <3>1. ItemsInv(r)'
      BY <2>6, <1>0 DEF Abandon, ItemsInv, ItemInv, TypeOK
    <3> QED
      BY <2>6, <3>1, OtherItems DEF Abandon, TypeOK
  <2> QED
    BY <1>3, <2>1, <2>2, <2>3, <2>4, <2>5, <2>6
<1> QED
  BY <1>1, <1>2, <1>3 DEF Next, MainStep
-----------------------------------------------------------------------------
(* No step changes an outcome that is a status: an item is executed, or    *)
(* blocked, once.                                                          *)
LEMMA FinalStep ==
    ASSUME TypeOK, WorkInv, ItemInv, [Next]_vars,
           NEW s \in Run, NEW n \in Items[s], outcome[s][n] \in Status
    PROVE  outcome'[s][n] = outcome[s][n]
<1>0. /\ Status \cap {"none", "running"} = {}
      /\ \A r \in Run, q \in Queue : QItems[r][q] \subseteq Items[r]
  BY PlanTables, ConstantAssumption DEF Status
<1>1. CASE UNCHANGED vars
  BY <1>1 DEF vars
<1>2. ASSUME NEW r \in Run, PlanRun(r)
      PROVE  outcome'[s][n] = outcome[s][n]
  <2>1. s # r
    <3>1. ASSUME s = r PROVE outcome[s][n] = "none"
      <4>1. phase[r] = "idle" /\ ItemsInv(s)
        BY <1>2 DEF PlanRun, ItemInv
      <4>2. \A q \in Queue : work[s][q] = "absent"
        BY <3>1, <4>1 DEF WorkInv, RunInv
      <4>3. n \in Pending[s] => \E q \in Queue : n \in QItems[s][q]
        BY PlanTables
      <4> QED
        BY <3>1, <4>1, <4>2, <4>3 DEF ItemsInv
    <3> QED
      BY <1>0, <3>1
  <2> QED
    BY <1>2, <2>1 DEF PlanRun, TypeOK
<1>3. ASSUME NEW r \in Run, Interrupt(r)
      PROVE  outcome'[s][n] = outcome[s][n]
  <2>1. \A m \in Items[r] : outcome'[r][m] =
          IF Serial[r] /\ outcome[r][m] = "running" THEN "none" ELSE outcome[r][m]
    BY <1>3 DEF Interrupt, TypeOK
  <2>2. s # r => outcome'[s] = outcome[s]
    BY <1>3 DEF Interrupt, TypeOK
  <2> QED
    BY <1>0, <2>1, <2>2
<1>4. ASSUME NEW r \in Run, NEW q \in Queue, LockTimeout(r, q)
      PROVE  outcome'[s][n] = outcome[s][n]
  <2>1. s = r => n \notin QItems[r][q]
    BY <1>0, <1>4 DEF LockTimeout, ItemInv, ItemsInv
  <2> QED
    BY <1>4, <2>1 DEF LockTimeout, TypeOK
<1>5. ASSUME NEW r \in Run, NEW q \in Queue, StartItem(r, q) \/ ItemEnds(r, q)
      PROVE  outcome'[s][n] = outcome[s][n]
  <2>0. PICK m \in QItems[r][q] :
          \E new : outcome[r][m] \in {"none", "running"} /\ ItemGets(r, m, new)
    BY <1>5 DEF StartItem, ItemEnds, FinishItem, ItemRaises
  <2>1. PICK new : outcome[r][m] \in {"none", "running"} /\ ItemGets(r, m, new)
    BY <2>0
  <2>2. s # r \/ n # m
    BY <1>0, <2>1
  <2> QED
    BY <2>1, <2>2 DEF ItemGets, TypeOK
<1>6. ASSUME NEW r \in Run, NEW q \in Queue,
             \/ StartQueue(r, q) \/ TakeLock(r, q) \/ LockBusy(r, q) \/ LockRaises(r, q)
             \/ CloseQueue(r, q) \/ Merge(r, q) \/ GatherRaises(r, q)
      PROVE  outcome'[s][n] = outcome[s][n]
  BY <1>6 DEF StartQueue, TakeLock, LockBusy, LockRaises, CloseQueue, Merge, GatherRaises
<1>7. ASSUME NEW r \in Run, Finish(r) \/ EndInterrupted(r) \/ EndFailed(r) \/ Abandon(r)
      PROVE  outcome'[s][n] = outcome[s][n]
  BY <1>7 DEF Finish, EndInterrupted, EndFailed, Abandon
<1> QED
  BY <1>1, <1>2, <1>3, <1>4, <1>5, <1>6, <1>7 DEF Next, QueueStep, QueueAdvances, MainStep

(* What is counted has happened, and is final.                             *)
LEMMA CountedFinal ==
    ASSUME TypeOK, WorkInv, ItemInv, [Next]_vars,
           NEW r \in Run, phase[r] # "idle", NEW n \in Counted(r)
    PROVE  outcome[r][n] \in Status /\ outcome'[r][n] = outcome[r][n]
<1>1. ASSUME n \notin Pending[r] PROVE outcome[r][n] \in Status
  <2>1. n \in Items[r] \ Pending[r] /\ ItemsInv(r)
    BY <1>1 DEF Counted, ItemInv
  <2> QED
    BY <2>1 DEF ItemsInv, Status
<1>2. ASSUME n \in Pending[r] PROVE outcome[r][n] \in Status
  <2>1. /\ Plan[r][n].queue \in merged[r] /\ n \in QItems[r][Plan[r][n].queue]
        /\ Plan[r][n].queue \in Queue
    BY <1>2, PlanTables DEF Counted
  <2>2. work[r][Plan[r][n].queue] = "closed"
    BY <2>1 DEF WorkInv, RunInv
  <2>3. ItemsInv(r)
    BY DEF ItemInv
  <2> QED
    BY <2>1, <2>2, <2>3 DEF ItemsInv
<1>3. outcome[r][n] \in Status
  BY <1>1, <1>2
<1>4. n \in Items[r]
  BY DEF Counted
<1> QED
  BY <1>3, <1>4, FinalStep

(* The counters of a run change when it plans and when it merges a queue.  *)
LEMMA SummaryMoves ==
    ASSUME TypeOK, [Next]_vars, NEW s \in Run
    PROVE  \/ PlanRun(s) \/ \E q \in Queue : Merge(s, q)
           \/ /\ summary'[s] = summary[s] /\ merged'[s] = merged[s]
              /\ phase[s] = "idle" <=> phase'[s] = "idle"
<1> DEFINE Same == /\ summary'[s] = summary[s] /\ merged'[s] = merged[s]
                   /\ phase[s] = "idle" <=> phase'[s] = "idle"
<1> USE DEF MainGoes
<1>1. CASE UNCHANGED vars
  BY <1>1 DEF vars
<1>2. ASSUME NEW r \in Run, PlanRun(r) PROVE PlanRun(s) \/ Same
  BY <1>2 DEF PlanRun, TypeOK
<1>3. ASSUME NEW r \in Run, NEW q \in Queue, Merge(r, q) PROVE Merge(s, q) \/ Same
  BY <1>3 DEF Merge, TypeOK
<1>4. ASSUME NEW r \in Run, NEW q \in Queue, QueueStep(r, q) \/ ItemEnds(r, q)
      PROVE  Same
  BY <1>4 DEF QueueStep, QueueAdvances, ItemEnds, StartQueue, TakeLock, LockBusy, LockTimeout, LockRaises,
              StartItem, CloseQueue, FinishItem, ItemRaises
<1>5. ASSUME NEW r \in Run, NEW q \in Queue, GatherRaises(r, q) PROVE Same
  BY <1>5 DEF GatherRaises, Awaited, TypeOK
<1>6. ASSUME NEW r \in Run,
             Finish(r) \/ Interrupt(r) \/ EndInterrupted(r) \/ EndFailed(r) \/ Abandon(r)
      PROVE  Same
  BY <1>6 DEF Finish, Interrupt, EndInterrupted, EndFailed, Abandon, TypeOK
<1> QED
  BY <1>1, <1>2, <1>3, <1>4, <1>5, <1>6 DEF Next, MainStep

(* The counters follow the outcomes of the queues that are merged.         *)
LEMMA CountStep ==
    ASSUME TypeOK, WorkInv, ItemInv, CountInv, [Next]_vars
    PROVE  CountInv'
<1> SUFFICES ASSUME NEW r \in Run, NEW s \in Status
             PROVE  summary'[r][s] = IF phase'[r] = "idle" THEN 0
                                     ELSE Count(r, Counted(r), s)'
  BY DEF CountInv
<1>0. Counted(r) \subseteq Items[r] /\ Counted(r)' \subseteq Items[r]
  BY DEF Counted
<1>1. CASE PlanRun(r)
  <2>1. phase[r] = "idle" /\ phase'[r] = "gather" /\ merged[r] = {} /\ merged' = merged
    BY <1>1 DEF PlanRun, MainGoes, WorkInv, RunInv, TypeOK
  <2>2. Counted(r)' = Items[r] \ Pending[r]
    BY <2>1, PlanTables DEF Counted
  <2>3. \A n \in Items[r] \ Pending[r] : outcome'[r][n] = "unavailable"
    BY <1>1 DEF PlanRun, TypeOK
  <2>4. CASE s = "unavailable"
    <3>1. {n \in Items[r] \ Pending[r] : outcome'[r][n] = s} = Items[r] \ Pending[r]
      BY <2>3, <2>4
    <3>2. summary'[r][s] = Cardinality(Items[r] \ Pending[r])
      BY <1>1, <2>4 DEF PlanRun, TypeOK
    <3> QED
      BY <2>1, <2>2, <3>1, <3>2 DEF Count
  <2>5. CASE s # "unavailable"
    <3>1. {n \in Items[r] \ Pending[r] : outcome'[r][n] = s} = {}
      BY <2>3, <2>5
    <3>2. summary'[r][s] = summary[r][s]
      BY <1>1, <2>5 DEF PlanRun, TypeOK
    <3>3. summary[r][s] = 0
      BY <2>1 DEF CountInv
    <3> QED
      BY <2>1, <2>2, <3>1, <3>2, <3>3, FS_EmptySet DEF Count
  <2> QED
    BY <2>4, <2>5
<1>2. ASSUME phase[r] # "idle"
      PROVE  Count(r, Counted(r), s) = Cardinality({n \in Counted(r) : outcome'[r][n] = s})
  <2>1. \A n \in Counted(r) : outcome'[r][n] = outcome[r][n]
    BY <1>2, CountedFinal
  <2> QED
    BY <2>1 DEF Count
<1>3. CASE \E q \in Queue : Merge(r, q)
  <2>1. PICK q \in Queue : Merge(r, q)
    BY <1>3
  <2>2. /\ phase[r] = "gather" /\ phase' = phase /\ outcome' = outcome
        /\ merged'[r] = merged[r] \cup {q} /\ q \notin merged[r]
        /\ summary'[r] = Added(r, QItems[r][q])
    BY <2>1 DEF Merge, Awaited, TypeOK
  <2>3. QItems[r][q] \subseteq Items[r]
    BY PlanTables
  <2>4. Counted(r)' = Counted(r) \cup QItems[r][q]
    BY <2>2, PlanTables DEF Counted
  <2>5. Counted(r) \cap QItems[r][q] = {}
    BY <2>2, PlanTables DEF Counted
  <2>6. summary'[r][s] = summary[r][s] + Count(r, QItems[r][q], s)
    BY <2>2 DEF Added
  <2>7. summary[r][s] = Count(r, Counted(r), s)
    BY <2>2 DEF CountInv
  <2>8. Count(r, Counted(r) \cup QItems[r][q], s)
          = Count(r, Counted(r), s) + Count(r, QItems[r][q], s)
    BY <1>0, <2>3, <2>5, CountUnion
  <2>9. Count(r, Counted(r), s)' = Count(r, Counted(r) \cup QItems[r][q], s)
    BY <2>2, <2>4 DEF Count
  <2> QED
    BY <2>2, <2>6, <2>7, <2>8, <2>9
<1>4. CASE /\ summary'[r] = summary[r] /\ merged'[r] = merged[r]
           /\ phase[r] = "idle" <=> phase'[r] = "idle"
  <2>1. CASE phase[r] = "idle"
    BY <1>4, <2>1 DEF CountInv
  <2>2. CASE phase[r] # "idle"
    <3>1. Counted(r)' = Counted(r)
      BY <1>4 DEF Counted
    <3>2. summary[r][s] = Count(r, Counted(r), s)
      BY <2>2 DEF CountInv
    <3>3. Count(r, Counted(r), s)' = Cardinality({n \in Counted(r) : outcome'[r][n] = s})
      BY <3>1 DEF Count
    <3> QED
      BY <1>2, <1>4, <2>2, <3>2, <3>3
  <2> QED
    BY <2>1, <2>2
<1> QED
  BY <1>1, <1>3, <1>4, SummaryMoves
-----------------------------------------------------------------------------
(* The inductive invariant at the start.                                   *)
LEMMA IInvInit == Init => IInv
<1> SUFFICES ASSUME Init PROVE IInv
  OBVIOUS
<1>1. OwnerInv
  BY Clients2 DEF Init, OwnerInv
<1>2. WorkInv
  <2>1. \A r \in Run : Queues[r] \subseteq Queue
    BY PlanTables
  <2> QED
    BY <2>1 DEF Init, WorkInv, RunInv, Returned, ActiveLabels
<1>3. ItemInv
  <2>1. \A r \in Run, q \in Queue : QItems[r][q] \subseteq Items[r]
    BY PlanTables
  <2> QED
    BY <2>1 DEF Init, ItemInv, ItemsInv
<1>4. CountInv
  BY DEF Init, CountInv
<1> QED
  BY <1>1, <1>2, <1>3, <1>4, TypeInit DEF IInv

(* Every step keeps the inductive invariant.                               *)
LEMMA IInvStep == IInv /\ [Next]_vars => IInv'
  BY TypeStep, OwnerStep, WorkStep, ItemStep, CountStep DEF IInv

(* The inductive invariant holds in every state of every behaviour.        *)
THEOREM Invariance == Spec => []IInv
  BY IInvInit, IInvStep, PTL DEF Spec

-----------------------------------------------------------------------------
(* README.md:26, for any runs and plans: no device executes two items at   *)
(* once.                                                                   *)
THEOREM Exclusive == Spec => []DeviceExclusive
<1>1. IInv => DeviceExclusive
  <2> SUFFICES ASSUME IInv, NEW r1 \in Run, NEW r2 \in Run,
                      NEW n1 \in Pending[r1], NEW n2 \in Pending[r2],
                      outcome[r1][n1] = "running", outcome[r2][n2] = "running",
                      LockOf[Plan[r1][n1].queue] = LockOf[Plan[r2][n2].queue]
               PROVE  r1 = r2 /\ n1 = n2
    BY DEF DeviceExclusive
  <2> DEFINE q1 == Plan[r1][n1].queue
             q2 == Plan[r2][n2].queue
  <2>1. /\ q1 \in Queue /\ n1 \in QItems[r1][q1]
        /\ q2 \in Queue /\ n2 \in QItems[r2][q2]
    BY PlanTables
  <2>2. work[r1][q1] = "open" /\ work[r2][q2] = "open"
    BY <2>1 DEF IInv, ItemInv, ItemsInv
  <2>3. owner[LockOf[q1]] = <<r1, q1>> /\ owner[LockOf[q2]] = <<r2, q2>>
    BY <2>1, <2>2 DEF IInv, OwnerInv
  <2>4. r1 = r2 /\ q1 = q2
    BY <2>1, <2>3, Clients2
  <2> QED
    BY <2>1, <2>4 DEF IInv, ItemInv, ItemsInv
<1> QED
  BY <1>1, Invariance, PTL

(* The report of a run is complete and true, in parts while the run goes   *)
(* on and as a whole when it has come to its end.                          *)
THEOREM Complete == Spec => []CompleteReport
<1>1. ASSUME IInv PROVE SummaryCountsMerged
  BY <1>1 DEF IInv, CountInv, Counted, SummaryCountsMerged
<1>2. ASSUME IInv, NEW r \in Run, report[r] = "results", NEW s \in Status
      PROVE  /\ summary[r][s] = Count(r, Items[r], s)
             /\ \A n \in Items[r] : outcome[r][n] \in Status
  <2>1. phase[r] = "done" /\ merged[r] = Queues[r]
    BY <1>2 DEF IInv, WorkInv, RunInv
  <2>2. \A n \in Items[r] : n \notin Pending[r] \/ Plan[r][n].queue \in Queues[r]
    BY PlanTables
  <2>3. Counted(r) = Items[r]
    BY <2>1, <2>2 DEF Counted
  <2>4. summary[r][s] = Count(r, Counted(r), s)
    BY <1>2, <2>1 DEF IInv, CountInv
  <2>5. ASSUME NEW n \in Pending[r] PROVE outcome[r][n] \in Status
    <3> DEFINE q == Plan[r][n].queue
    <3>1. q \in Queues[r] /\ q \in Queue /\ n \in QItems[r][q]
      BY PlanTables
    <3>2. work[r][q] = "closed"
      BY <1>2, <2>1, <3>1 DEF IInv, WorkInv, RunInv
    <3> QED
      BY <1>2, <3>1, <3>2 DEF IInv, ItemInv, ItemsInv
  <2>6. ASSUME NEW n \in Items[r] \ Pending[r] PROVE outcome[r][n] \in Status
    BY <1>2, <2>1 DEF IInv, ItemInv, ItemsInv, Status
  <2> QED
    BY <2>3, <2>4, <2>5, <2>6
<1>3. ASSUME IInv PROVE BlockedWhole
  <2> SUFFICES ASSUME NEW r \in Run, NEW q \in Queue, NEW n \in QItems[r][q],
                      outcome[r][n] = "blocked"
               PROVE  /\ \A m \in QItems[r][q] : outcome[r][m] = "blocked"
                      /\ owner[LockOf[q]] # <<r, q>>
    BY PlanTables DEF BlockedWhole
  <2>1. /\ \A m \in QItems[r][q] : outcome[r][m] = "blocked"
        /\ work[r][q] = "closed"
    BY <1>3 DEF IInv, ItemInv, ItemsInv
  <2> QED
    BY <1>3, <2>1 DEF IInv, OwnerInv
<1>4. ASSUME IInv PROVE QuietAfterReturn
  <2> SUFFICES ASSUME NEW r \in Run, phase[r] \in Returned
               PROVE  /\ \A l \in Lock : owner[l] \notin {r} \X Queue
                      /\ \A n \in Items[r] : outcome[r][n] # "running"
    BY DEF QuietAfterReturn
  <2>1. \A q \in Queue : work[r][q] # "open"
    BY <1>4 DEF IInv, WorkInv, RunInv, ActiveLabels
  <2>2. ASSUME NEW l \in Lock PROVE owner[l] \notin {r} \X Queue
    <3>1. SUFFICES ASSUME NEW p \in Queue, owner[l] = <<r, p>> PROVE FALSE
      OBVIOUS
    <3>2. owner[l] # NoOne
      BY <3>1, Clients2
    <3>3. PICK s \in Run, q \in Queue : owner[l] = <<s, q>> /\ LockOf[q] = l
      BY <1>4, <3>2 DEF IInv, OwnerInv
    <3>4. s = r /\ q = p
      BY <3>1, <3>3, Clients2
    <3> QED
      BY <1>4, <2>1, <3>1, <3>3, <3>4 DEF IInv, OwnerInv
  <2>3. ASSUME NEW n \in Items[r] PROVE outcome[r][n] # "running"
    <3>1. n \in Pending[r] => \E q \in Queue : n \in QItems[r][q]
      BY PlanTables
    <3>2. ItemsInv(r)
      BY <1>4 DEF IInv, ItemInv
    <3> QED
      BY <2>1, <3>1, <3>2 DEF ItemsInv
  <2> QED
    BY <2>2, <2>3
<1>5. IInv => CompleteReport
  BY <1>1, <1>2, <1>3, <1>4 DEF IInv, CompleteReport, ResultsAreComplete
<1> QED
  BY <1>5, Invariance, PTL

(* An item is executed, or blocked, once, whatever happens to its queue,   *)
(* its run and the other runs.                                             *)
THEOREM Final == Spec => OutcomesAreFinal
<1>1. ASSUME IInv, [Next]_vars
      PROVE  [\A r \in Run : \A n \in Items[r] :
                outcome[r][n] \in Status => outcome'[r][n] = outcome[r][n]]_vars
  BY <1>1, FinalStep DEF IInv
<1> QED
  BY <1>1, Invariance, PTL DEF Spec, OutcomesAreFinal

-----------------------------------------------------------------------------
(* The three sets that ExclusiveLock is about, for a lock file.            *)
Holders(l) == {c \in Clients(l) : owner[l] = c}
Waiting(l) == In(l, {"acquiring", "waiting"})
Ended(l)   == In(l, {"closed", "raised"})

(* A step of one queue moves this queue among the sets of its lock file.   *)
LEMMA SetsMove ==
    ASSUME TypeOK, OwnerInv, NEW r \in Run, NEW q \in Queue, NEW l \in Lock,
           \A s \in Run, p \in Queue : s # r \/ p # q => work'[s][p] = work[s][p],
           \A k \in Lock : k # LockOf[q] => owner'[k] = owner[k]
    PROVE  /\ l # LockOf[q] => UNCHANGED <<Holders(l), Waiting(l), Ended(l)>>
           /\ l = LockOf[q] =>
                /\ <<r, q>> \in Clients(l)
                /\ <<r, q>> \in Waiting(l) <=> work[r][q] \in {"acquiring", "waiting"}
                /\ <<r, q>> \in Ended(l) <=> work[r][q] \in {"closed", "raised"}
                /\ <<r, q>> \in Holders(l) <=> work[r][q] = "open"
                /\ Waiting(l)' = (Waiting(l) \ {<<r, q>>}) \cup
                      (IF work'[r][q] \in {"acquiring", "waiting"} THEN {<<r, q>>} ELSE {})
                /\ Ended(l)' = (Ended(l) \ {<<r, q>>}) \cup
                      (IF work'[r][q] \in {"closed", "raised"} THEN {<<r, q>>} ELSE {})
                /\ owner[l] = NoOne => Holders(l) = {}
                /\ owner[l] = <<r, q>> => Holders(l) = {<<r, q>>}
                /\ owner'[l] = NoOne => Holders(l)' = {}
                /\ owner'[l] = <<r, q>> => Holders(l)' = {<<r, q>>}
                /\ owner'[l] = owner[l] => Holders(l)' = Holders(l)
<1>1. \A c \in Run \X Queue : /\ c[1] \in Run /\ c[2] \in Queue /\ c = <<c[1], c[2]>>
                              /\ c # NoOne
  BY ConstantAssumption
<1>2. Clients(l) \subseteq Run \X Queue /\ \A c \in Clients(l) : LockOf[c[2]] = l
  BY DEF Clients
<1>3. \A c \in Clients(l) : c # <<r, q>> => work'[c[1]][c[2]] = work[c[1]][c[2]]
  BY <1>1, <1>2
<1>4. <<r, q>> \in Clients(l) <=> l = LockOf[q]
  BY DEF Clients
<1>5. l # LockOf[q] => UNCHANGED <<Holders(l), Waiting(l), Ended(l)>>
  BY <1>3, <1>4 DEF Holders, Waiting, Ended, In, Clients
<1>6. ASSUME l = LockOf[q]
      PROVE  /\ <<r, q>> \in Clients(l)
             /\ <<r, q>> \in Waiting(l) <=> work[r][q] \in {"acquiring", "waiting"}
             /\ <<r, q>> \in Ended(l) <=> work[r][q] \in {"closed", "raised"}
             /\ <<r, q>> \in Holders(l) <=> work[r][q] = "open"
  BY <1>4, <1>6 DEF Holders, Waiting, Ended, In, OwnerInv
<1>7. ASSUME l = LockOf[q]
      PROVE  /\ Waiting(l)' = (Waiting(l) \ {<<r, q>>}) \cup
                  (IF work'[r][q] \in {"acquiring", "waiting"} THEN {<<r, q>>} ELSE {})
             /\ Ended(l)' = (Ended(l) \ {<<r, q>>}) \cup
                  (IF work'[r][q] \in {"closed", "raised"} THEN {<<r, q>>} ELSE {})
  BY <1>3, <1>4, <1>7 DEF Waiting, Ended, In, Clients
<1>8. ASSUME l = LockOf[q]
      PROVE  /\ owner[l] = NoOne => Holders(l) = {}
             /\ owner[l] = <<r, q>> => Holders(l) = {<<r, q>>}
             /\ owner'[l] = NoOne => Holders(l)' = {}
             /\ owner'[l] = <<r, q>> => Holders(l)' = {<<r, q>>}
             /\ owner'[l] = owner[l] => Holders(l)' = Holders(l)
  BY <1>1, <1>2, <1>4, <1>8 DEF Holders, Clients
<1> QED
  BY <1>5, <1>6, <1>7, <1>8

(* The actions of ExclusiveLock, and a step that does nothing, by these    *)
(* three sets.                                                             *)
LEMMA LockMoves ==
    ASSUME NEW l \in Lock, NEW c \in Clients(l)
    PROVE  /\ /\ c \notin Holders(l) \cup Waiting(l) \cup Ended(l)
              /\ Waiting(l)' = Waiting(l) \cup {c} /\ UNCHANGED <<Holders(l), Ended(l)>>
              => LockFile(l)!Next
           /\ /\ c \in Waiting(l) /\ Holders(l) = {} /\ Holders(l)' = {c}
              /\ Waiting(l)' = Waiting(l) \ {c} /\ UNCHANGED Ended(l)
              => LockFile(l)!Next
           /\ /\ c \in Waiting(l) /\ Waiting(l)' = Waiting(l) \ {c}
              /\ Ended(l)' = Ended(l) \cup {c} /\ UNCHANGED Holders(l)
              => LockFile(l)!Next
           /\ /\ c \in Holders(l) /\ Holders(l)' = Holders(l) \ {c}
              /\ Ended(l)' = Ended(l) \cup {c} /\ UNCHANGED Waiting(l)
              => LockFile(l)!Next
<1> USE DEF Holders, Waiting, Ended, LockFile!Next
<1>1. /\ c \notin Holders(l) \cup Waiting(l) \cup Ended(l)
      /\ Waiting(l)' = Waiting(l) \cup {c} /\ UNCHANGED <<Holders(l), Ended(l)>>
      => LockFile(l)!Next
  BY DEF LockFile!Request
<1>2. /\ c \in Waiting(l) /\ Holders(l) = {} /\ Holders(l)' = {c}
      /\ Waiting(l)' = Waiting(l) \ {c} /\ UNCHANGED Ended(l)
      => LockFile(l)!Next
  BY DEF LockFile!Acquire
<1>3. /\ c \in Waiting(l) /\ Waiting(l)' = Waiting(l) \ {c}
      /\ Ended(l)' = Ended(l) \cup {c} /\ UNCHANGED Holders(l)
      => LockFile(l)!Next
  BY DEF LockFile!GiveUp
<1>4. /\ c \in Holders(l) /\ Holders(l)' = Holders(l) \ {c}
      /\ Ended(l)' = Ended(l) \cup {c} /\ UNCHANGED Waiting(l)
      => LockFile(l)!Next
  BY DEF LockFile!Release
<1> QED
  BY <1>1, <1>2, <1>3, <1>4

LEMMA LockStutters ==
    ASSUME NEW l \in Lock, UNCHANGED <<Holders(l), Waiting(l), Ended(l)>>
    PROVE  UNCHANGED LockFile(l)!vars
BY DEF LockFile!vars, Holders, Waiting, Ended

(* One queue of one run asks for its lock file, takes it, waits on, gives  *)
(* up or gives the file back; every other lock file stays as it is.        *)
LEMMA ClientStep ==
    ASSUME TypeOK, OwnerInv, NEW r \in Run, NEW q \in Queue, NEW l \in Lock,
           \A s \in Run, p \in Queue : s # r \/ p # q => work'[s][p] = work[s][p],
           \A k \in Lock : k # LockOf[q] => owner'[k] = owner[k],
           \/ /\ work[r][q] = "queued" /\ work'[r][q] = "acquiring"
              /\ owner'[LockOf[q]] = owner[LockOf[q]]
           \/ /\ work[r][q] \in {"acquiring", "waiting"} /\ work'[r][q] = "open"
              /\ owner[LockOf[q]] = NoOne /\ owner'[LockOf[q]] = <<r, q>>
           \/ /\ work[r][q] = "acquiring" /\ work'[r][q] = "waiting"
              /\ owner'[LockOf[q]] = owner[LockOf[q]]
           \/ /\ work[r][q] \in {"acquiring", "waiting"} /\ work'[r][q] \in {"closed", "raised"}
              /\ owner'[LockOf[q]] = owner[LockOf[q]]
           \/ /\ work[r][q] = "open" /\ work'[r][q] \in {"closed", "raised"}
              /\ owner[LockOf[q]] = <<r, q>> /\ owner'[LockOf[q]] = NoOne
    PROVE  [LockFile(l)!Next]_(LockFile(l)!vars)
<1>1. CASE l # LockOf[q]
  <2>1. UNCHANGED <<Holders(l), Waiting(l), Ended(l)>>
    BY <1>1, SetsMove
  <2> QED
    BY <2>1, LockStutters
<1>2. CASE l = LockOf[q]
  <2> DEFINE c == <<r, q>>
  <2>1. /\ c \in Clients(l)
        /\ c \in Waiting(l) <=> work[r][q] \in {"acquiring", "waiting"}
        /\ c \in Ended(l) <=> work[r][q] \in {"closed", "raised"}
        /\ c \in Holders(l) <=> work[r][q] = "open"
        /\ Waiting(l)' = (Waiting(l) \ {c}) \cup
              (IF work'[r][q] \in {"acquiring", "waiting"} THEN {c} ELSE {})
        /\ Ended(l)' = (Ended(l) \ {c}) \cup
              (IF work'[r][q] \in {"closed", "raised"} THEN {c} ELSE {})
        /\ owner[l] = NoOne => Holders(l) = {}
        /\ owner[l] = c => Holders(l) = {c}
        /\ owner'[l] = NoOne => Holders(l)' = {}
        /\ owner'[l] = c => Holders(l)' = {c}
        /\ owner'[l] = owner[l] => Holders(l)' = Holders(l)
    BY <1>2, SetsMove
  <2> HIDE DEF c
  <2>2. CASE work[r][q] = "queued"
    BY <1>2, <2>1, <2>2, LockMoves
  <2>3. CASE work'[r][q] = "open"
    <3>1. /\ c \in Waiting(l) /\ Holders(l) = {} /\ Holders(l)' = {c}
          /\ Waiting(l)' = Waiting(l) \ {c} /\ Ended(l)' = Ended(l)
      BY <1>2, <2>1, <2>3 DEF c
    <3> QED
      BY <2>1, <3>1, LockMoves
  <2>4. CASE work'[r][q] = "waiting"
    <3>1. UNCHANGED <<Holders(l), Waiting(l), Ended(l)>>
      BY <1>2, <2>1, <2>4
    <3> QED
      BY <3>1, LockStutters
  <2>5. CASE work[r][q] \in {"acquiring", "waiting"} /\ work'[r][q] \in {"closed", "raised"}
    BY <1>2, <2>1, <2>5, LockMoves
  <2>6. CASE work[r][q] = "open" /\ work'[r][q] \in {"closed", "raised"}
    <3>1. /\ c \in Holders(l) /\ Holders(l)' = Holders(l) \ {c}
          /\ Ended(l)' = Ended(l) \cup {c} /\ Waiting(l)' = Waiting(l)
      BY <1>2, <2>1, <2>6 DEF c
    <3> QED
      BY <2>1, <3>1, LockMoves
  <2> QED
    BY <2>2, <2>3, <2>4, <2>5, <2>6
<1> QED
  BY <1>1, <1>2

(* A step of the model is, for every lock file, a step of ExclusiveLock or *)
(* none.                                                                   *)
LEMMA LockStep ==
    ASSUME IInv, [Next]_vars, NEW l \in Lock
    PROVE  [LockFile(l)!Next]_(LockFile(l)!vars)
<1> USE DEF QueueGoes, Unlock
<1>0. TypeOK /\ OwnerInv
  BY DEF IInv
<1>1. ASSUME UNCHANGED <<work, owner>>
      PROVE  [LockFile(l)!Next]_(LockFile(l)!vars)
  <2>1. UNCHANGED <<Holders(l), Waiting(l), Ended(l)>>
    BY <1>1 DEF Holders, Waiting, Ended, In
  <2> QED
    BY <2>1, LockStutters
<1>2. ASSUME NEW r \in Run, NEW q \in Queue,
             \/ StartQueue(r, q) \/ TakeLock(r, q) \/ LockBusy(r, q) \/ LockTimeout(r, q)
             \/ LockRaises(r, q) \/ ItemRaises(r, q) \/ CloseQueue(r, q)
      PROVE  [LockFile(l)!Next]_(LockFile(l)!vars)
  <2>1. CASE StartQueue(r, q)
    <3>1. work[r][q] = "queued" /\ work'[r][q] = "acquiring"
      BY <1>0, <2>1 DEF StartQueue, TypeOK
    <3>2. owner' = owner
      BY <1>0, <2>1, <3>1, Clients2 DEF StartQueue, TypeOK, OwnerInv
    <3>3. /\ \A s \in Run, p \in Queue : s # r \/ p # q => work'[s][p] = work[s][p]
          /\ \A k \in Lock : k # LockOf[q] => owner'[k] = owner[k]
      BY <1>0, <2>1 DEF StartQueue, TypeOK
    <3> QED
      BY <1>0, <3>1, <3>2, <3>3, ClientStep
  <2>2. CASE TakeLock(r, q)
    <3>1. work[r][q] \in {"acquiring", "waiting"} /\ work'[r][q] = "open"
      BY <1>0, <2>2 DEF TakeLock, TypeOK
    <3>2. owner[LockOf[q]] = NoOne /\ owner'[LockOf[q]] = <<r, q>>
      BY <1>0, <2>2, <3>1, Clients2 DEF TakeLock, TypeOK, OwnerInv
    <3>3. /\ \A s \in Run, p \in Queue : s # r \/ p # q => work'[s][p] = work[s][p]
          /\ \A k \in Lock : k # LockOf[q] => owner'[k] = owner[k]
      BY <1>0, <2>2 DEF TakeLock, TypeOK
    <3> QED
      BY <1>0, <3>1, <3>2, <3>3, ClientStep
  <2>3. CASE LockBusy(r, q)
    <3>1. work[r][q] = "acquiring" /\ work'[r][q] = "waiting"
      BY <1>0, <2>3 DEF LockBusy, TypeOK
    <3>2. owner' = owner
      BY <1>0, <2>3, <3>1, Clients2 DEF LockBusy, TypeOK, OwnerInv
    <3>3. /\ \A s \in Run, p \in Queue : s # r \/ p # q => work'[s][p] = work[s][p]
          /\ \A k \in Lock : k # LockOf[q] => owner'[k] = owner[k]
      BY <1>0, <2>3 DEF LockBusy, TypeOK
    <3> QED
      BY <1>0, <3>1, <3>2, <3>3, ClientStep
  <2>4. CASE LockTimeout(r, q)
    <3>1. work[r][q] = "waiting" /\ work'[r][q] = "closed"
      BY <1>0, <2>4 DEF LockTimeout, TypeOK
    <3>2. owner' = owner
      BY <1>0, <2>4, <3>1, Clients2 DEF LockTimeout, TypeOK, OwnerInv
    <3>3. /\ \A s \in Run, p \in Queue : s # r \/ p # q => work'[s][p] = work[s][p]
          /\ \A k \in Lock : k # LockOf[q] => owner'[k] = owner[k]
      BY <1>0, <2>4 DEF LockTimeout, TypeOK
    <3> QED
      BY <1>0, <3>1, <3>2, <3>3, ClientStep
  <2>5. CASE LockRaises(r, q)
    <3>1. work[r][q] \in {"acquiring", "waiting"} /\ work'[r][q] = "raised"
      BY <1>0, <2>5 DEF LockRaises, TypeOK
    <3>2. owner' = owner
      BY <1>0, <2>5, <3>1, Clients2 DEF LockRaises, TypeOK, OwnerInv
    <3>3. /\ \A s \in Run, p \in Queue : s # r \/ p # q => work'[s][p] = work[s][p]
          /\ \A k \in Lock : k # LockOf[q] => owner'[k] = owner[k]
      BY <1>0, <2>5 DEF LockRaises, TypeOK
    <3> QED
      BY <1>0, <3>1, <3>2, <3>3, ClientStep
  <2>6. CASE ItemRaises(r, q)
    <3>1. work[r][q] = "open" /\ work'[r][q] = "raised"
      BY <1>0, <2>6 DEF ItemRaises, TypeOK
    <3>2. owner[LockOf[q]] = <<r, q>> /\ owner'[LockOf[q]] = NoOne
      BY <1>0, <2>6, <3>1, Clients2 DEF ItemRaises, TypeOK, OwnerInv
    <3>3. /\ \A s \in Run, p \in Queue : s # r \/ p # q => work'[s][p] = work[s][p]
          /\ \A k \in Lock : k # LockOf[q] => owner'[k] = owner[k]
      BY <1>0, <2>6 DEF ItemRaises, TypeOK
    <3> QED
      BY <1>0, <3>1, <3>2, <3>3, ClientStep
  <2>7. CASE CloseQueue(r, q)
    <3>1. work[r][q] = "open" /\ work'[r][q] = "closed"
      BY <1>0, <2>7 DEF CloseQueue, TypeOK
    <3>2. owner[LockOf[q]] = <<r, q>> /\ owner'[LockOf[q]] = NoOne
      BY <1>0, <2>7, <3>1, Clients2 DEF CloseQueue, TypeOK, OwnerInv
    <3>3. /\ \A s \in Run, p \in Queue : s # r \/ p # q => work'[s][p] = work[s][p]
          /\ \A k \in Lock : k # LockOf[q] => owner'[k] = owner[k]
      BY <1>0, <2>7 DEF CloseQueue, TypeOK
    <3> QED
      BY <1>0, <3>1, <3>2, <3>3, ClientStep
  <2> QED
    BY <1>2, <2>1, <2>2, <2>3, <2>4, <2>5, <2>6, <2>7
<1>3. ASSUME NEW r \in Run, PlanRun(r)
      PROVE  [LockFile(l)!Next]_(LockFile(l)!vars)
  <2>1. /\ \A q \in Queue : work[r][q] = "absent" /\ work'[r][q] \in {"absent", "queued"}
        /\ \A s \in Run, q \in Queue : s # r => work'[s][q] = work[s][q]
        /\ owner' = owner
    BY <1>3 DEF PlanRun, IInv, WorkInv, RunInv, TypeOK
  <2>2. \A c \in Clients(l) : c[1] \in Run /\ c[2] \in Queue
    BY DEF Clients
  <2>3. UNCHANGED <<Holders(l), Waiting(l), Ended(l)>>
    BY <2>1, <2>2 DEF Holders, Waiting, Ended, In
  <2> QED
    BY <2>3, LockStutters
<1>4. ASSUME NEW r \in Run, Interrupt(r), Serial[r]
      PROVE  [LockFile(l)!Next]_(LockFile(l)!vars)
  <2>1. /\ \A s \in Run, p \in Queue : work'[s][p] =
              IF s = r /\ p \in Active(r) THEN "raised" ELSE work[s][p]
        /\ \A k \in Lock : owner'[k] = IF owner[k] \in {r} \X Queue THEN NoOne ELSE owner[k]
        /\ phase[r] = "gather"
    BY <1>4 DEF Interrupt, IInv, TypeOK
  <2>2. \A p, q \in Active(r) : p = q
    <3>1. \A p \in Active(r) : p \in Queues[r] \ merged[r]
      BY <2>1 DEF Active, IInv, WorkInv, RunInv
    <3>2. \A p \in Active(r) : work[r][p] \notin {"absent", "queued"}
      BY DEF Active
    <3> QED
      BY <1>4, <3>1, <3>2 DEF IInv, WorkInv, RunInv
  <2>3. ASSUME NEW k \in Lock, owner[k] \in {r} \X Queue
        PROVE  \E p \in Active(r) : owner[k] = <<r, p>> /\ LockOf[p] = k /\ work[r][p] = "open"
    <3>1. PICK p \in Queue : owner[k] = <<r, p>>
      BY <2>3
    <3>2. owner[k] # NoOne
      BY <3>1, Clients2
    <3>3. PICK s \in Run, q \in Queue : owner[k] = <<s, q>> /\ LockOf[q] = k
      BY <1>0, <3>2 DEF OwnerInv
    <3>4. s = r /\ q = p
      BY <3>1, <3>3, Clients2
    <3> QED
      BY <1>0, <3>1, <3>3, <3>4 DEF OwnerInv, Active
  <2>4. CASE Active(r) = {}
    <3>1. \A s \in Run, p \in Queue : work'[s][p] = work[s][p]
      BY <2>1, <2>4
    <3>2. \A k \in Lock : owner'[k] = owner[k]
      BY <2>1, <2>3, <2>4
    <3>3. \A c \in Clients(l) : c[1] \in Run /\ c[2] \in Queue
      BY DEF Clients
    <3>4. UNCHANGED <<Holders(l), Waiting(l), Ended(l)>>
      BY <3>1, <3>2, <3>3 DEF Holders, Waiting, Ended, In
    <3> QED
      BY <3>4, LockStutters
  <2>5. ASSUME NEW q \in Active(r)
        PROVE  [LockFile(l)!Next]_(LockFile(l)!vars)
    <3>0. q \in Queue /\ work[r][q] \in {"acquiring", "waiting", "open"}
      BY DEF Active
    <3>1. work'[r][q] = "raised"
      BY <2>1, <3>0
    <3>2. \A s \in Run, p \in Queue : s # r \/ p # q => work'[s][p] = work[s][p]
      BY <2>1, <2>2
    <3>3. \A k \in Lock : k # LockOf[q] => owner'[k] = owner[k]
      BY <2>1, <2>2, <2>3
    <3>4. ASSUME work[r][q] # "open"
          PROVE  owner'[LockOf[q]] = owner[LockOf[q]]
      <4>1. LockOf[q] \in Lock
        BY <3>0, Clients2
      <4>2. owner[LockOf[q]] \notin {r} \X Queue
        BY <2>2, <2>3, <3>4, <4>1
      <4> QED
        BY <2>1, <4>1, <4>2
    <3>5. ASSUME work[r][q] = "open"
          PROVE  owner[LockOf[q]] = <<r, q>> /\ owner'[LockOf[q]] = NoOne
      <4>1. LockOf[q] \in Lock
        BY <3>0, Clients2
      <4>2. owner[LockOf[q]] = <<r, q>>
        BY <1>0, <3>0, <3>5 DEF OwnerInv
      <4>3. owner[LockOf[q]] \in {r} \X Queue
        BY <3>0, <4>2
      <4> QED
        BY <2>1, <4>1, <4>2, <4>3
    <3> QED
      BY <1>0, <3>0, <3>1, <3>2, <3>3, <3>4, <3>5, ClientStep
  <2> QED
    BY <2>4, <2>5
<1>5. ASSUME NEW r \in Run, NEW q \in Queue,
             StartItem(r, q) \/ FinishItem(r, q) \/ Merge(r, q) \/ GatherRaises(r, q)
      PROVE  UNCHANGED <<work, owner>>
  BY <1>5 DEF StartItem, FinishItem, Merge, GatherRaises
<1>6. ASSUME NEW r \in Run,
             \/ Finish(r) \/ EndInterrupted(r) \/ EndFailed(r) \/ Abandon(r)
             \/ Interrupt(r) /\ ~Serial[r]
      PROVE  UNCHANGED <<work, owner>>
  BY <1>6 DEF Finish, EndInterrupted, EndFailed, Abandon, Interrupt
<1>7. CASE UNCHANGED vars
  BY <1>1, <1>7 DEF vars
<1> QED
  BY <1>1, <1>2, <1>3, <1>4, <1>5, <1>6, <1>7 DEF Next, QueueStep, QueueAdvances, ItemEnds, MainStep

(* The queues of all runs use each lock file as ExclusiveLock prescribes.  *)
THEOREM LocksAreUsed == Spec => UsesLocks
<1>1. ASSUME Init PROVE \A l \in Lock : LockFile(l)!Init
  <2> SUFFICES ASSUME NEW l \in Lock PROVE LockFile(l)!Init
    OBVIOUS
  <2>1. \A c \in Clients(l) : c[1] \in Run /\ c[2] \in Queue /\ c # NoOne
    BY ConstantAssumption DEF Clients
  <2> QED
    BY <1>1, <2>1 DEF Init, LockFile!Init, In
<1>2. ASSUME IInv, [Next]_vars
      PROVE  [\A l \in Lock : [LockFile(l)!Next]_(LockFile(l)!vars)]_vars
  BY <1>2, LockStep
<1> QED
  BY <1>1, <1>2, Invariance, PTL DEF Spec, UsesLocks
-----------------------------------------------------------------------------

(* What is settled of an item while it is on its way to the test.          *)
Settled ==
    /\ sent <= 2 * item.haps
    /\ pc \in {"begin", "install"} => now = 0
    /\ pc \in {"begin", "install", "haps", "test"} => ran = "no"
    /\ pc \in {"begin", "install", "haps", "test", "judge"} => status = "none"
    /\ pc \in {"test", "judge"} => sent = 2 * item.haps
    /\ pc = "judge" => ran \in {"zero", "nonzero"}

(* The clock against the deadline: the test gets all the time that is left, *)
(* any other command may overrun by less than its smallest budget.         *)
OnTime ==
    HasTimeout =>
        /\ now < item.timeout + MinBudget \/ now <= InstallCap
        /\ pc = "test" => 0 < budget /\ now + budget = item.timeout

(* The summary of an aa_test item before and after its status is known.    *)
OwnSummary ==
    item.tool = "aa_test" /\ item.path =>
        /\ pc \in {"begin", "install", "haps", "test", "judge"} => xml \in {"none", "stale"}
        /\ pc \in {"cleanup", "ended"} =>
              /\ xml = "pass" <=> status = "passed"
              /\ xml \in {"pass", "fail"} <=> ran \in {"zero", "nonzero"}

ItemIInv ==
    /\ ItemOK /\ Settled /\ OnTime /\ OwnSummary
    /\ PassedMeansTested /\ TimeoutMeansExpired /\ CleanAfterTest
-----------------------------------------------------------------------------
(* An item's fields, one by one.                                           *)
LEMMA ItemFields ==
    ItemOK => /\ item.tool \in Tools /\ item.haps \in 0..MaxHaps /\ item.timeout \in Nat
              /\ MaxHaps \in Nat /\ InstallCap \in Nat /\ MinBudget \in Nat
              /\ TooLate \in Nat /\ MaxTicks \in Nat
              /\ 0 < MinBudget /\ MinBudget <= TooLate
  BY ItemAssumption DEF ItemOK, Item

(* What is left of the time, and the limit of a command.                   *)
LEMMA Limits ==
    ItemOK => /\ Left \in Nat /\ SubLimit \in Nat
              /\ HasTimeout => Left <= SubLimit
              /\ HasTimeout => now + SubLimit >= item.timeout
              /\ HasTimeout /\ ~Expired => now + SubLimit < item.timeout + MinBudget
              /\ HasTimeout /\ SubLimit > TooLate => now + SubLimit = item.timeout
  BY ItemFields DEF Left, SubLimit, HasTimeout, Expired, ItemOK

(* A command takes no longer than its limit.                               *)
LEMMA TakesUpTo ==
    ASSUME ItemOK, NEW limit \in Nat, Takes(limit)
    PROVE  now' \in Nat /\ now <= now' /\ now' <= now + limit
  BY DEF Takes, ItemOK

(* Every command keeps the types.                                          *)
LEMMA ItemTypeStep == ItemOK /\ [ItemNext]_itemVars => ItemOK'
<1> SUFFICES ASSUME ItemOK, [ItemNext]_itemVars PROVE ItemOK'
  OBVIOUS
<1> USE DEF ItemOK, Xml
<1>1. CASE Begin
  BY <1>1, TakesUpTo, ItemFields, Limits DEF Begin, Ends, Killed, HapsLeft
<1>2. CASE Install
  BY <1>2, TakesUpTo, ItemFields, Limits DEF Install, Ends, Killed, HapsLeft
<1>3. CASE InstallFails
  BY <1>3, TakesUpTo, ItemFields, Limits DEF InstallFails, Ends, Killed, HapsLeft
<1>4. CASE SkipMissing
  BY <1>4, TakesUpTo, ItemFields, Limits DEF SkipMissing, Ends, Killed, HapsLeft
<1>5. CASE HapCommand
  <2>1. now' \in Nat /\ sent' \in 0..(2 * MaxHaps)
    BY <1>5, TakesUpTo, ItemFields, Limits DEF HapCommand, HapsLeft
  <2> QED
    BY <1>5, <2>1 DEF HapCommand
<1>6. CASE HapCommandFails
  BY <1>6, TakesUpTo, ItemFields, Limits DEF HapCommandFails, Ends, Killed,
     HapsLeft
<1>7. CASE HapCommandKilled
  <2>1. now' \in Nat
    BY <1>7, Limits DEF HapCommandKilled, Killed
  <2>2. installed' \in BOOLEAN
    BY <1>7 DEF HapCommandKilled
  <2> QED
    BY <1>7, <2>1, <2>2 DEF HapCommandKilled, Ends
<1>8. CASE HapsOutOfTime
  BY <1>8, TakesUpTo, ItemFields, Limits DEF HapsOutOfTime, Ends, Killed, HapsLeft
<1>9. CASE TestOutOfTime
  BY <1>9, TakesUpTo, ItemFields, Limits DEF TestOutOfTime, Ends, Killed, HapsLeft
<1>10. CASE StartTest
  BY <1>10, TakesUpTo, ItemFields, Limits DEF StartTest, Ends, Killed, HapsLeft
<1>11. CASE TestEnds
  BY <1>11, TakesUpTo, ItemFields, Limits DEF TestEnds, Ends, Killed, HapsLeft
<1>12. CASE TestKilled
  BY <1>12, TakesUpTo, ItemFields, Limits DEF TestKilled, Ends, Killed, HapsLeft
<1>13. CASE Judge
  BY <1>13 DEF Judge, Verdict
<1>14. CASE NoCleanup
  BY <1>14, TakesUpTo, ItemFields, Limits DEF NoCleanup, Ends, Killed, HapsLeft
<1>15. CASE CleanupSkipped
  BY <1>15, TakesUpTo, ItemFields, Limits DEF CleanupSkipped, Ends, Killed,
     HapsLeft
<1>16. CASE Uninstall
  BY <1>16, TakesUpTo, ItemFields, Limits DEF Uninstall, Ends, Killed, HapsLeft
<1>17. CASE UninstallFails
  BY <1>17, TakesUpTo, ItemFields, Limits DEF UninstallFails, Ends, Killed,
     HapsLeft
<1>18. CASE Raises
  BY <1>18, TakesUpTo, ItemFields, Limits DEF Raises, Ends, Killed, HapsLeft
<1>19. CASE UNCHANGED itemVars
  BY <1>19 DEF itemVars
<1> QED
  BY <1>1, <1>2, <1>3, <1>4, <1>5, <1>6, <1>7, <1>8, <1>9, <1>10, <1>11, <1>12,
     <1>13, <1>14, <1>15, <1>16, <1>17, <1>18, <1>19 DEF ItemNext

(* The commands come in their order and each once.                         *)
LEMMA SettledStep == ItemOK /\ Settled /\ [ItemNext]_itemVars => Settled'
<1> SUFFICES ASSUME ItemOK, Settled, [ItemNext]_itemVars PROVE Settled'
  OBVIOUS
<1> USE DEF Settled
<1>1. CASE Begin
  BY <1>1 DEF Begin, Ends
<1>2. CASE Install
  BY <1>2 DEF Install, Ends
<1>3. CASE InstallFails
  BY <1>3 DEF InstallFails, Ends
<1>4. CASE SkipMissing
  BY <1>4 DEF SkipMissing, Ends
<1>5. CASE HapCommand
  BY <1>5, ItemFields DEF HapCommand, HapsLeft, ItemOK
<1>6. CASE HapCommandFails
  BY <1>6 DEF HapCommandFails, Ends
<1>7. CASE HapCommandKilled
  BY <1>7 DEF HapCommandKilled, Ends
<1>8. CASE HapsOutOfTime
  BY <1>8 DEF HapsOutOfTime, Ends
<1>9. CASE TestOutOfTime
  BY <1>9 DEF TestOutOfTime, Ends
<1>10. CASE StartTest
  BY <1>10, ItemFields DEF StartTest, HapsLeft, ItemOK
<1>11. CASE TestEnds
  BY <1>11 DEF TestEnds, Ends
<1>12. CASE TestKilled
  BY <1>12 DEF TestKilled, Ends
<1>13. CASE Judge
  BY <1>13 DEF Judge, Verdict
<1>14. CASE NoCleanup
  BY <1>14 DEF NoCleanup, Ends
<1>15. CASE CleanupSkipped
  BY <1>15 DEF CleanupSkipped, Ends
<1>16. CASE Uninstall
  BY <1>16 DEF Uninstall, Ends
<1>17. CASE UninstallFails
  BY <1>17 DEF UninstallFails, Ends
<1>18. CASE Raises
  BY <1>18 DEF Raises, Ends
<1>19. CASE UNCHANGED itemVars
  BY <1>19 DEF itemVars
<1> QED
  BY <1>1, <1>2, <1>3, <1>4, <1>5, <1>6, <1>7, <1>8, <1>9, <1>10, <1>11, <1>12,
     <1>13, <1>14, <1>15, <1>16, <1>17, <1>18, <1>19 DEF ItemNext

(* No command overruns the deadline by its smallest budget.                *)
LEMMA OnTimeStep == ItemOK /\ Settled /\ OnTime /\ [ItemNext]_itemVars => OnTime'
<1> SUFFICES ASSUME ItemOK, Settled, OnTime, [ItemNext]_itemVars PROVE OnTime'
  OBVIOUS
<1> USE DEF OnTime, Settled
<1>1. CASE Begin
  BY <1>1 DEF Begin, Ends, HasTimeout
<1>2. CASE Install
  BY <1>2, TakesUpTo, ItemFields, Limits DEF Install, Ends, Killed, HasTimeout,
     Expired, ItemOK
<1>3. CASE InstallFails
  BY <1>3, TakesUpTo, ItemFields, Limits DEF InstallFails, Ends, Killed, HasTimeout,
     Expired, ItemOK
<1>4. CASE SkipMissing
  BY <1>4 DEF SkipMissing, Ends, HasTimeout
<1>5. CASE HapCommand
  BY <1>5, TakesUpTo, ItemFields, Limits DEF HapCommand, Ends, Killed, HasTimeout,
     Expired, ItemOK
<1>6. CASE HapCommandFails
  BY <1>6, TakesUpTo, ItemFields, Limits DEF HapCommandFails, Ends, Killed,
     HasTimeout, Expired, ItemOK
<1>7. CASE HapCommandKilled
  BY <1>7, TakesUpTo, ItemFields, Limits DEF HapCommandKilled, Ends, Killed,
     HasTimeout, Expired, ItemOK
<1>8. CASE HapsOutOfTime
  BY <1>8 DEF HapsOutOfTime, Ends, HasTimeout
<1>9. CASE TestOutOfTime
  BY <1>9 DEF TestOutOfTime, Ends, HasTimeout
<1>10. CASE StartTest
  BY <1>10, TakesUpTo, ItemFields, Limits DEF StartTest, Ends, Killed, HasTimeout,
     Expired, ItemOK
<1>11. CASE TestEnds
  BY <1>11, TakesUpTo, ItemFields, Limits DEF TestEnds, Ends, Killed, HasTimeout,
     Expired, ItemOK
<1>12. CASE TestKilled
  BY <1>12, TakesUpTo, ItemFields, Limits DEF TestKilled, Ends, Killed, HasTimeout,
     Expired, ItemOK
<1>13. CASE Judge
  BY <1>13 DEF Judge, Ends, HasTimeout
<1>14. CASE NoCleanup
  BY <1>14 DEF NoCleanup, Ends, HasTimeout
<1>15. CASE CleanupSkipped
  BY <1>15 DEF CleanupSkipped, Ends, HasTimeout
<1>16. CASE Uninstall
  BY <1>16, TakesUpTo, ItemFields, Limits DEF Uninstall, Ends, Killed, HasTimeout,
     Expired, ItemOK
<1>17. CASE UninstallFails
  BY <1>17, TakesUpTo, ItemFields, Limits DEF UninstallFails, Ends, Killed,
     HasTimeout, Expired, ItemOK
<1>18. CASE Raises
  BY <1>18, TakesUpTo, ItemFields, Limits DEF Raises, Ends, Killed, HasTimeout,
     Expired, ItemOK
<1>19. CASE UNCHANGED itemVars
  BY <1>19 DEF itemVars, HasTimeout
<1> QED
  BY <1>1, <1>2, <1>3, <1>4, <1>5, <1>6, <1>7, <1>8, <1>9, <1>10, <1>11, <1>12,
     <1>13, <1>14, <1>15, <1>16, <1>17, <1>18, <1>19 DEF ItemNext

(* The summary of an aa_test item is written with its status.              *)
LEMMA OwnSummaryStep == ItemOK /\ Settled /\ OwnSummary /\ [ItemNext]_itemVars =>
   OwnSummary'
<1> SUFFICES ASSUME ItemOK, Settled, OwnSummary, [ItemNext]_itemVars PROVE OwnSummary'
  OBVIOUS
<1> USE DEF OwnSummary, Settled
<1>1. CASE Begin
  BY <1>1 DEF Begin, Ends
<1>2. CASE Install
  BY <1>2 DEF Install, Ends
<1>3. CASE InstallFails
  BY <1>3 DEF InstallFails, Ends
<1>4. CASE SkipMissing
  BY <1>4 DEF SkipMissing, Ends
<1>5. CASE HapCommand
  BY <1>5 DEF HapCommand, Ends
<1>6. CASE HapCommandFails
  BY <1>6 DEF HapCommandFails, Ends
<1>7. CASE HapCommandKilled
  BY <1>7 DEF HapCommandKilled, Ends
<1>8. CASE HapsOutOfTime
  BY <1>8 DEF HapsOutOfTime, Ends
<1>9. CASE TestOutOfTime
  BY <1>9 DEF TestOutOfTime, Ends
<1>10. CASE StartTest
  BY <1>10 DEF StartTest, Ends
<1>11. CASE TestEnds
  BY <1>11 DEF TestEnds, Ends
<1>12. CASE TestKilled
  BY <1>12 DEF TestKilled, Ends
<1>13. CASE Judge
  BY <1>13 DEF Judge, Verdict
<1>14. CASE NoCleanup
  BY <1>14 DEF NoCleanup, Ends
<1>15. CASE CleanupSkipped
  BY <1>15 DEF CleanupSkipped, Ends
<1>16. CASE Uninstall
  BY <1>16 DEF Uninstall, Ends
<1>17. CASE UninstallFails
  BY <1>17 DEF UninstallFails, Ends
<1>18. CASE Raises
  BY <1>18 DEF Raises, Ends
<1>19. CASE UNCHANGED itemVars
  BY <1>19 DEF itemVars
<1> QED
  BY <1>1, <1>2, <1>3, <1>4, <1>5, <1>6, <1>7, <1>8, <1>9, <1>10, <1>11, <1>12,
     <1>13, <1>14, <1>15, <1>16, <1>17, <1>18, <1>19 DEF ItemNext

(* Only Judge passes an item, and nothing is undone after it.              *)
LEMMA PassedStep == ItemOK /\ Settled /\ PassedMeansTested /\ [ItemNext]_itemVars =>
   PassedMeansTested'
<1> SUFFICES ASSUME ItemOK, Settled, PassedMeansTested, [ItemNext]_itemVars PROVE
   PassedMeansTested'
  OBVIOUS
<1> USE DEF PassedMeansTested, Settled
<1>1. CASE Begin
  BY <1>1 DEF Begin, Ends
<1>2. CASE Install
  BY <1>2 DEF Install, Ends
<1>3. CASE InstallFails
  BY <1>3 DEF InstallFails, Ends
<1>4. CASE SkipMissing
  BY <1>4 DEF SkipMissing, Ends
<1>5. CASE HapCommand
  BY <1>5 DEF HapCommand, Ends
<1>6. CASE HapCommandFails
  BY <1>6 DEF HapCommandFails, Ends
<1>7. CASE HapCommandKilled
  BY <1>7 DEF HapCommandKilled, Ends
<1>8. CASE HapsOutOfTime
  BY <1>8 DEF HapsOutOfTime, Ends
<1>9. CASE TestOutOfTime
  BY <1>9 DEF TestOutOfTime, Ends
<1>10. CASE StartTest
  BY <1>10 DEF StartTest, Ends
<1>11. CASE TestEnds
  BY <1>11 DEF TestEnds, Ends
<1>12. CASE TestKilled
  BY <1>12 DEF TestKilled, Ends
<1>13. CASE Judge
  BY <1>13 DEF Judge, Verdict
<1>14. CASE NoCleanup
  BY <1>14 DEF NoCleanup, Ends
<1>15. CASE CleanupSkipped
  BY <1>15 DEF CleanupSkipped, Ends
<1>16. CASE Uninstall
  BY <1>16 DEF Uninstall, Ends
<1>17. CASE UninstallFails
  BY <1>17 DEF UninstallFails, Ends
<1>18. CASE Raises
  BY <1>18 DEF Raises, Ends
<1>19. CASE UNCHANGED itemVars
  BY <1>19 DEF itemVars
<1> QED
  BY <1>1, <1>2, <1>3, <1>4, <1>5, <1>6, <1>7, <1>8, <1>9, <1>10, <1>11, <1>12,
     <1>13, <1>14, <1>15, <1>16, <1>17, <1>18, <1>19 DEF ItemNext

(* An item times out when its deadline is near or past, and it stays so.   *)
LEMMA TimeoutStep == ItemOK /\ Settled /\ OnTime /\ TimeoutMeansExpired /\
   [ItemNext]_itemVars => TimeoutMeansExpired'
<1> SUFFICES ASSUME ItemOK, Settled, OnTime, TimeoutMeansExpired, [ItemNext]_itemVars
   PROVE TimeoutMeansExpired'
  OBVIOUS
<1> USE DEF TimeoutMeansExpired, Settled, OnTime
<1>1. CASE Begin
  BY <1>1, TakesUpTo, ItemFields, Limits DEF Begin, Ends, Killed, HasTimeout, Expired,
     Left, ItemOK
<1>2. CASE Install
  BY <1>2, TakesUpTo, ItemFields, Limits DEF Install, Ends, Killed, HasTimeout,
     Expired, Left, ItemOK
<1>3. CASE InstallFails
  BY <1>3, TakesUpTo, ItemFields, Limits DEF InstallFails, Ends, Killed, HasTimeout,
     Expired, Left, ItemOK
<1>4. CASE SkipMissing
  BY <1>4, TakesUpTo, ItemFields, Limits DEF SkipMissing, Ends, Killed, HasTimeout,
     Expired, Left, ItemOK
<1>5. CASE HapCommand
  BY <1>5, TakesUpTo, ItemFields, Limits DEF HapCommand, Ends, Killed, HasTimeout,
     Expired, Left, ItemOK
<1>6. CASE HapCommandFails
  BY <1>6, TakesUpTo, ItemFields, Limits DEF HapCommandFails, Ends, Killed,
     HasTimeout, Expired, Left, ItemOK
<1>7. CASE HapCommandKilled
  BY <1>7, TakesUpTo, ItemFields, Limits DEF HapCommandKilled, Ends, Killed,
     HasTimeout, Expired, Left, ItemOK
<1>8. CASE HapsOutOfTime
  BY <1>8, TakesUpTo, ItemFields, Limits DEF HapsOutOfTime, Ends, Killed, HasTimeout,
     Expired, Left, ItemOK
<1>9. CASE TestOutOfTime
  BY <1>9, TakesUpTo, ItemFields, Limits DEF TestOutOfTime, Ends, Killed, HasTimeout,
     Expired, Left, ItemOK
<1>10. CASE StartTest
  BY <1>10, TakesUpTo, ItemFields, Limits DEF StartTest, Ends, Killed, HasTimeout,
     Expired, Left, ItemOK
<1>11. CASE TestEnds
  BY <1>11, TakesUpTo, ItemFields, Limits DEF TestEnds, Ends, Killed, HasTimeout,
     Expired, Left, ItemOK
<1>12. CASE TestKilled
  BY <1>12, TakesUpTo, ItemFields, Limits DEF TestKilled, Ends, Killed, HasTimeout,
     Expired, Left, ItemOK
<1>13. CASE Judge
  BY <1>13 DEF Judge, Verdict, HasTimeout, Left
<1>14. CASE NoCleanup
  BY <1>14, TakesUpTo, ItemFields, Limits DEF NoCleanup, Ends, Killed, HasTimeout,
     Expired, Left, ItemOK
<1>15. CASE CleanupSkipped
  BY <1>15, TakesUpTo, ItemFields, Limits DEF CleanupSkipped, Ends, Killed,
     HasTimeout, Expired, Left, ItemOK
<1>16. CASE Uninstall
  BY <1>16, TakesUpTo, ItemFields, Limits DEF Uninstall, Ends, Killed, HasTimeout,
     Expired, Left, ItemOK
<1>17. CASE UninstallFails
  BY <1>17, TakesUpTo, ItemFields, Limits DEF UninstallFails, Ends, Killed,
     HasTimeout, Expired, Left, ItemOK
<1>18. CASE Raises
  BY <1>18, TakesUpTo, ItemFields, Limits DEF Raises, Ends, Killed, HasTimeout,
     Expired, Left, ItemOK
<1>19. CASE UNCHANGED itemVars
  BY <1>19 DEF itemVars, HasTimeout, Left
<1> QED
  BY <1>1, <1>2, <1>3, <1>4, <1>5, <1>6, <1>7, <1>8, <1>9, <1>10, <1>11, <1>12,
     <1>13, <1>14, <1>15, <1>16, <1>17, <1>18, <1>19 DEF ItemNext

(* The last command of a test that has ended is its cleanup.               *)
LEMMA CleanStep == ItemOK /\ Settled /\ CleanAfterTest /\ [ItemNext]_itemVars =>
   CleanAfterTest'
<1> SUFFICES ASSUME ItemOK, Settled, CleanAfterTest, [ItemNext]_itemVars PROVE
   CleanAfterTest'
  OBVIOUS
<1> USE DEF CleanAfterTest, ToClean, Settled
<1>1. CASE Begin
  BY <1>1 DEF Begin, Ends
<1>2. CASE Install
  BY <1>2 DEF Install, Ends
<1>3. CASE InstallFails
  BY <1>3 DEF InstallFails, Ends
<1>4. CASE SkipMissing
  BY <1>4 DEF SkipMissing, Ends
<1>5. CASE HapCommand
  BY <1>5 DEF HapCommand, Ends
<1>6. CASE HapCommandFails
  BY <1>6 DEF HapCommandFails, Ends
<1>7. CASE HapCommandKilled
  BY <1>7 DEF HapCommandKilled, Ends
<1>8. CASE HapsOutOfTime
  BY <1>8 DEF HapsOutOfTime, Ends
<1>9. CASE TestOutOfTime
  BY <1>9 DEF TestOutOfTime, Ends
<1>10. CASE StartTest
  BY <1>10 DEF StartTest, Ends
<1>11. CASE TestEnds
  BY <1>11 DEF TestEnds, Ends
<1>12. CASE TestKilled
  BY <1>12 DEF TestKilled, Ends
<1>13. CASE Judge
  BY <1>13 DEF Judge, Ends
<1>14. CASE NoCleanup
  BY <1>14 DEF NoCleanup, Ends
<1>15. CASE CleanupSkipped
  BY <1>15 DEF CleanupSkipped, Ends
<1>16. CASE Uninstall
  BY <1>16 DEF Uninstall, Ends
<1>17. CASE UninstallFails
  BY <1>17 DEF UninstallFails, Ends
<1>18. CASE Raises
  BY <1>18 DEF Raises, Ends
<1>19. CASE UNCHANGED itemVars
  BY <1>19 DEF itemVars
<1> QED
  BY <1>1, <1>2, <1>3, <1>4, <1>5, <1>6, <1>7, <1>8, <1>9, <1>10, <1>11, <1>12,
     <1>13, <1>14, <1>15, <1>16, <1>17, <1>18, <1>19 DEF ItemNext
-----------------------------------------------------------------------------
(* The inductive invariant holds in every state of every item.             *)
THEOREM ItemInvariance == ItemSpec => []ItemIInv
<1>1. ItemInit => ItemIInv
  <2> SUFFICES ASSUME ItemInit PROVE ItemIInv
    OBVIOUS
  <2>1. ItemOK
    <3>1. item \in Item /\ MaxHaps \in Nat
      BY ItemAssumption DEF ItemInit
    <3>2. xml \in Xml
      BY DEF ItemInit, Xml
    <3>3. sent \in 0..(2 * MaxHaps)
      BY <3>1 DEF ItemInit
    <3> QED
      BY <3>1, <3>2, <3>3 DEF ItemInit, ItemOK
  <2>2. Settled /\ OnTime
    BY <2>1, ItemFields DEF ItemInit, Settled, OnTime, HasTimeout
  <2>3. OwnSummary /\ PassedMeansTested /\ TimeoutMeansExpired /\ CleanAfterTest
    BY DEF ItemInit, OwnSummary, PassedMeansTested, TimeoutMeansExpired, CleanAfterTest
  <2> QED
    BY <2>1, <2>2, <2>3 DEF ItemIInv
<1>2. ItemIInv /\ [ItemNext]_itemVars => ItemIInv'
  BY ItemTypeStep, SettledStep, OnTimeStep, OwnSummaryStep, PassedStep, TimeoutStep, CleanStep
     DEF ItemIInv
<1> QED
  BY <1>1, <1>2, PTL DEF ItemSpec

(* An item passes only when its HAPs were installed and its test ended     *)
(* successfully by every sign.                                             *)
THEOREM PassedIsTested == ItemSpec => []PassedMeansTested
  BY ItemInvariance, PTL DEF ItemIInv

(* An item overruns its timeout by less than one smallest budget.          *)
THEOREM EndsInTime == ItemSpec => []WithinTimeout
<1>1. ItemIInv => WithinTimeout
  BY DEF ItemIInv, OnTime, WithinTimeout
<1> QED
  BY <1>1, ItemInvariance, PTL

(* The HAPs of a test that has ended do not stay on the device unnoticed.  *)
THEOREM CleansUp == ItemSpec => []CleanAfterTest
  BY ItemInvariance, PTL DEF ItemIInv

(* The status of an item, its clock and the summary it leaves agree.       *)
THEOREM OutcomeIsRight == ItemSpec => []OutcomeOK
<1>1. ItemIInv => OutcomeOK
  BY DEF ItemIInv, OutcomeOK, OwnSummary, SummaryMatches
<1> QED
  BY <1>1, ItemInvariance, PTL
===============================================================================
