------------------------ MODULE ExecutionPlanProofs ------------------------
(***************************************************************************)
(* Proofs about CoveragePlanner and ExecutionPlan for any number of        *)
(* targets, units, profiles and options: the recommendation loses no unit  *)
(* and orders the targets best first, the plan keeps its reports apart and *)
(* its tiers nested, and what passes the preflight can run.  At the end,   *)
(* about the gate (SemanticGate), which says what must run.                *)
(*                                                                         *)
(* The gains are sums over sets and the lists are filtered sequences, both *)
(* defined by recursion: what they return is proved by induction over a    *)
(* set of numbers, which needs no operator for a parameter.                *)
(***************************************************************************)
EXTENDS ExecutionPlan, SemanticGate, FiniteSetTheorems, WellFoundedInduction, TLAPS

(* The targets that the planner orders.                                    *)
Candidates == {t \in Available : Covered(t) # {}}

Recommended == {"required", "recommended"}

(* What is ordered and what remains make up the candidates; each target    *)
(* was new for all that is planned with it, as no other has that planned.  *)
OrderInv ==
    /\ target \in [Target -> Profiles]
    /\ remaining \subseteq Candidates
    /\ ordered \in Seq([key : Target, new : SUBSET Unit])
    /\ \A i \in 1..Len(ordered) :
          /\ ordered[i].key \in Candidates
          /\ ordered[i].new = Planned(ordered[i].key)
    /\ \A t \in Candidates \ remaining : \E i \in 1..Len(ordered) : ordered[i].key = t
    /\ \A t \in remaining : Planned(t) \subseteq uncovered

(* Only candidates are recommended, all those with a planned unit.         *)
StatusInv ==
    /\ phase # "greedy" => remaining = {}
    /\ phase \notin {"greedy", "classify"} =>
          \A t \in Target :
             /\ status[t] \in Recommended => t \in Candidates
             /\ t \in Candidates /\ Planned(t) # {} => status[t] \in Recommended

CoverInv == OrderInv /\ StatusInv
-----------------------------------------------------------------------------
(* The four parts of the key of a winner, compared one after the other.    *)
LEMMA WinnerKeyLess ==
    ASSUME NEW t, NEW o, NEW u
    PROVE  LexLess(WinnerKey(t, u), WinnerKey(o, u)) <=>
             \/ -target[t].score[u] < -target[o].score[u]
             \/ /\ -target[t].score[u] = -target[o].score[u]
                /\ \/ -target[t].gain[u] < -target[o].gain[u]
                   \/ /\ -target[t].gain[u] = -target[o].gain[u]
                      /\ \/ Rank(target[t].bucket) < Rank(target[o].bucket)
                         \/ /\ Rank(target[t].bucket) = Rank(target[o].bucket)
                            /\ t < o
<1> DEFINE a == WinnerKey(t, u)
           b == WinnerKey(o, u)
<1>1. /\ Len(a) = 4
      /\ a[1] = -target[t].score[u] /\ b[1] = -target[o].score[u]
      /\ a[2] = -target[t].gain[u] /\ b[2] = -target[o].gain[u]
      /\ a[3] = Rank(target[t].bucket) /\ b[3] = Rank(target[o].bucket)
      /\ a[4] = t /\ b[4] = o
  BY DEF WinnerKey
<1> HIDE DEF a, b
<1>2. LexLess(a, b) <=>
        \/ a[1] < b[1]
        \/ a[1] = b[1] /\ a[2] < b[2]
        \/ a[1] = b[1] /\ a[2] = b[2] /\ a[3] < b[3]
        \/ a[1] = b[1] /\ a[2] = b[2] /\ a[3] = b[3] /\ a[4] < b[4]
  BY <1>1 DEF LexLess
<1> QED
  BY <1>1, <1>2 DEF a, b

(* The values the key is made of.                                          *)
LEMMA KeyTypes ==
    ASSUME target \in [Target -> Profiles], NEW t \in Target, NEW u \in Unit
    PROVE  /\ target[t].score[u] \in 0..MaxGain
           /\ target[t].gain[u] \in 0..MaxGain
           /\ Rank(target[t].bucket) \in Nat
           /\ t \in Nat
<1>1. target[t] \in Profile
  BY PlannerAssumption
<1>2. target[t].bucket \in Bucket
  BY <1>1 DEF Profile
<1>3. Rank(target[t].bucket) \in {0, 1, 2}
  BY <1>2, Zenon DEF Bucket, Rank
<1> QED
  BY <1>1, <1>3 DEF Profile, Target

(* A unit is planned with one target only.                                 *)
LEMMA WinnerUnique ==
    ASSUME target \in [Target -> Profiles], NEW u \in Unit,
           NEW t \in Winners(u), NEW o \in Winners(u)
    PROVE  t = o
<1> SUFFICES ASSUME t # o PROVE FALSE
  OBVIOUS
<1>1. /\ t \in Target /\ o \in Target
      /\ LexLess(WinnerKey(t, u), WinnerKey(o, u))
      /\ LexLess(WinnerKey(o, u), WinnerKey(t, u))
  BY DEF Winners, Available
<1> QED
  BY <1>1, WinnerKeyLess, KeyTypes, PlannerAssumption

(* Comparing negated numbers is comparing their distances from a bound.    *)
LEMMA Distance ==
    ASSUME NEW m \in Nat, NEW x \in 0..m, NEW y \in 0..m
    PROVE  /\ -x < -y <=> m - x < m - y
           /\ -x = -y <=> m - x = m - y
  OBVIOUS

(* A nonempty set of numbers has a least one.                              *)
LEMMA LeastNumber ==
    ASSUME NEW S, S \subseteq Nat, S # {}
    PROVE  \E n \in S : \A m \in S : n <= m
<1> DEFINE R == {pair \in Nat \X Nat : pair[1] < pair[2]}
<1>1. IsWellFoundedOn(R, Nat)
  BY NatLessThanWellFounded, Zenon DEF OpToRel
<1>2. PICK n \in S : \A m \in S : ~ (<<m, n>> \in R)
  BY <1>1, WFMin, Zenon
<1>3. \A m \in S : ~ (m < n)
  BY <1>2
<1> QED
  BY <1>3

(* A nonempty set has an element where a function to numbers is least.     *)
LEMMA Least ==
    ASSUME NEW G, G # {}, NEW f, \A t \in G : f[t] \in Nat
    PROVE  \E t \in G : \A o \in G : f[t] <= f[o]
<1> DEFINE S == {f[t] : t \in G}
<1>1. S \subseteq Nat /\ S # {}
  OBVIOUS
<1> HIDE DEF S
<1>2. PICK n \in S : \A m \in S : n <= m
  BY <1>1, LeastNumber
<1> QED
  BY <1>2 DEF S

(* Every unit some available target covers is planned with a target: the   *)
(* best is found by four successive minima.                                *)
LEMMA WinnerExists ==
    ASSUME target \in [Target -> Profiles], NEW u \in Unit,
           NEW c \in Available, u \in Covered(c)
    PROVE  \E w \in Winners(u) : TRUE
<1> DEFINE score == [t \in Target |-> MaxGain - target[t].score[u]]
           gain  == [t \in Target |-> MaxGain - target[t].gain[u]]
           rank  == [t \in Target |-> Rank(target[t].bucket)]
           name  == [t \in Target |-> t]
           G0 == {t \in Available : u \in Covered(t)}
<1>1. /\ G0 # {}
      /\ G0 \subseteq Target
      /\ \A t \in Target : /\ score[t] \in Nat /\ gain[t] \in Nat
                           /\ rank[t] \in Nat /\ name[t] \in Nat
  BY KeyTypes, PlannerAssumption DEF Available
<1>2. \A t, o \in Target :
        LexLess(WinnerKey(t, u), WinnerKey(o, u)) <=>
          \/ score[t] < score[o]
          \/ /\ score[t] = score[o]
             /\ \/ gain[t] < gain[o]
                \/ /\ gain[t] = gain[o]
                   /\ \/ rank[t] < rank[o]
                      \/ rank[t] = rank[o] /\ name[t] < name[o]
  <2> SUFFICES ASSUME NEW t \in Target, NEW o \in Target
               PROVE  LexLess(WinnerKey(t, u), WinnerKey(o, u)) <=>
                        \/ score[t] < score[o]
                        \/ /\ score[t] = score[o]
                           /\ \/ gain[t] < gain[o]
                              \/ /\ gain[t] = gain[o]
                                 /\ \/ rank[t] < rank[o]
                                    \/ rank[t] = rank[o] /\ name[t] < name[o]
    OBVIOUS
  <2>1. /\ target[t].score[u] \in 0..MaxGain /\ target[o].score[u] \in 0..MaxGain
        /\ target[t].gain[u] \in 0..MaxGain /\ target[o].gain[u] \in 0..MaxGain
    BY KeyTypes
  <2>2. /\ -target[t].score[u] < -target[o].score[u] <=> score[t] < score[o]
        /\ -target[t].score[u] = -target[o].score[u] <=> score[t] = score[o]
    <3>1. score[t] = MaxGain - target[t].score[u] /\ score[o] = MaxGain - target[o].score[u]
      OBVIOUS
    <3>2. MaxGain \in Nat
      BY PlannerAssumption
    <3> HIDE DEF score, gain, rank, name, G0
    <3> QED
      BY <2>1, <3>1, <3>2, Distance
  <2>3. /\ -target[t].gain[u] < -target[o].gain[u] <=> gain[t] < gain[o]
        /\ -target[t].gain[u] = -target[o].gain[u] <=> gain[t] = gain[o]
    <3>1. gain[t] = MaxGain - target[t].gain[u] /\ gain[o] = MaxGain - target[o].gain[u]
      OBVIOUS
    <3>2. MaxGain \in Nat
      BY PlannerAssumption
    <3> HIDE DEF score, gain, rank, name, G0
    <3> QED
      BY <2>1, <3>1, <3>2, Distance
  <2>4. name[t] = t /\ name[o] = o
    OBVIOUS
  <2>5. rank[t] = Rank(target[t].bucket) /\ rank[o] = Rank(target[o].bucket)
    <3> HIDE DEF score, gain, name, G0
    <3> QED
      OBVIOUS
  <2> HIDE DEF score, gain, rank, name
  <2> QED
    BY <2>2, <2>3, <2>4, <2>5, WinnerKeyLess
<1>3. \A t, o \in Target : name[t] = name[o] => t = o
  OBVIOUS
<1>4. ASSUME NEW w \in G0,
             \A o \in G0 \ {w} : LexLess(WinnerKey(w, u), WinnerKey(o, u))
      PROVE  w \in Winners(u)
  BY <1>4 DEF Winners
<1> HIDE DEF score, gain, rank, name, G0
<1>5. PICK a \in G0 : \A o \in G0 : score[a] <= score[o]
  BY <1>1, Least
<1> DEFINE G1 == {t \in G0 : score[t] = score[a]}
<1>6. PICK b \in G1 : \A o \in G1 : gain[b] <= gain[o]
  <2>1. G1 # {} /\ \A t \in G1 : gain[t] \in Nat
    BY <1>1
  <2> HIDE DEF G1
  <2> QED
    BY <2>1, Least
<1> DEFINE G2 == {t \in G1 : gain[t] = gain[b]}
<1>7. PICK d \in G2 : \A o \in G2 : rank[d] <= rank[o]
  <2>1. G2 # {} /\ \A t \in G2 : rank[t] \in Nat
    BY <1>1
  <2> HIDE DEF G2
  <2> QED
    BY <2>1, Least
<1> DEFINE G3 == {t \in G2 : rank[t] = rank[d]}
<1>8. PICK w \in G3 : \A o \in G3 : name[w] <= name[o]
  <2>1. G3 # {} /\ \A t \in G3 : name[t] \in Nat
    BY <1>1
  <2> HIDE DEF G3
  <2> QED
    BY <2>1, Least
<1>9. w \in G0
  OBVIOUS
<1>10. ASSUME NEW o \in G0 \ {w}
       PROVE  LexLess(WinnerKey(w, u), WinnerKey(o, u))
  <2>1. /\ score[w] = score[a] /\ score[a] <= score[o]
        /\ score[o] = score[a] => gain[w] = gain[b] /\ gain[b] <= gain[o]
        /\ score[o] = score[a] /\ gain[o] = gain[b] =>
              rank[w] = rank[d] /\ rank[d] <= rank[o]
        /\ score[o] = score[a] /\ gain[o] = gain[b] /\ rank[o] = rank[d] =>
              name[w] <= name[o]
    BY <1>5, <1>6, <1>7, <1>8
  <2>2. name[w] # name[o]
    BY <1>1, <1>3, <1>9
  <2>3. o \in Target /\ w \in Target
    BY <1>1, <1>9
  <2> HIDE DEF G1, G2, G3
  <2> QED
    BY <1>1, <1>2, <2>1, <2>2, <2>3
<1> QED
  BY <1>4, <1>9, <1>10

(* What a target covers is among the known units.                          *)
LEMMA CoveredKnown ==
    ASSUME target \in [Target -> Profiles], NEW t \in Available
    PROVE  Covered(t) \subseteq AllUnits
<1> SUFFICES ASSUME NEW u \in Covered(t) PROVE u \in AllUnits
  OBVIOUS
<1>1. t \in Target /\ target[t] \in Profiles
  BY DEF Available
<1>2. PICK s \in target[t].sources : u \in UnitsOf[s]
  BY <1>1, PlannerAssumption DEF Covered
<1> QED
  BY <1>2 DEF AllUnits

(* When all candidates are ordered and those with a planned unit are       *)
(* recommended, nothing testable is left out.                              *)
LEMMA CoverImplies == CoverInv => UncoveredMeansUntestable
<1> SUFFICES ASSUME CoverInv, phase \notin {"greedy", "classify"}
             PROVE  UncoveredSources = AllUnits \ UNION {Covered(t) : t \in Available}
  BY DEF UncoveredMeansUntestable
<1>1. target \in [Target -> Profiles]
  BY DEF CoverInv, OrderInv
<1>2. ASSUME NEW t \in RecommendedTargets, NEW u \in Planned(t)
      PROVE  t \in Available /\ u \in Covered(t)
  BY <1>2 DEF CoverInv, StatusInv, RecommendedTargets, Recommended, Candidates, Planned
<1>3. ASSUME NEW t \in Available, NEW u \in Covered(t)
      PROVE  \E w \in RecommendedTargets : u \in Planned(w)
  <2>1. u \in Unit
    BY DEF Covered
  <2>2. PICK w \in Winners(u) : TRUE
    BY <1>1, <2>1, WinnerExists
  <2>3. w \in Available /\ w \in Target /\ u \in Covered(w) /\ u \in Planned(w)
    BY <2>2 DEF Winners, Planned, Available
  <2> QED
    BY <2>3 DEF CoverInv, StatusInv, RecommendedTargets, Recommended, Candidates
<1> QED
  BY <1>2, <1>3 DEF UncoveredSources

(* The start: nothing is ordered, everything known is uncovered.           *)
LEMMA CoverInit == Init => CoverInv
<1> SUFFICES ASSUME Init PROVE CoverInv
  OBVIOUS
<1> USE DEF Init, PlannerInit
<1>1. \A t \in remaining : Planned(t) \subseteq uncovered
  <2> SUFFICES ASSUME NEW t \in remaining PROVE Planned(t) \subseteq AllUnits
    OBVIOUS
  <2> QED
    BY CoveredKnown DEF Planned
<1> QED
  BY <1>1 DEF CoverInv, OrderInv, StatusInv, Candidates

(* Ordering a target takes nothing from the others, whose planned units    *)
(* are disjoint from its own; classifying looks at every ordered target.   *)
LEMMA CoverStep == CoverInv /\ [Next]_vars => CoverInv'
<1> SUFFICES ASSUME CoverInv, [Next]_vars PROVE CoverInv'
  OBVIOUS
<1>0. target \in [Target -> Profiles]
  BY DEF CoverInv, OrderInv
<1>1. CASE Pick
  <2>1. PICK t \in remaining :
          /\ ordered' = Append(ordered, [key |-> t, new |-> Planned(t) \cap uncovered])
          /\ uncovered' = uncovered \ Planned(t)
          /\ remaining' = remaining \ {t}
    BY <1>1 DEF Pick
  <2>2. t \in Candidates /\ t \in Target /\ Planned(t) \subseteq Unit
    BY DEF CoverInv, OrderInv, Candidates, Available, Planned, Covered
  <2>3. Planned(t) \cap uncovered = Planned(t)
    BY DEF CoverInv, OrderInv
  <2>4. \A o \in remaining \ {t} : Planned(o) \cap Planned(t) = {}
    BY <1>0, WinnerUnique DEF Planned, Covered
  <2>5. UNCHANGED <<target, status, phase>> /\ phase = "greedy"
    BY <1>1 DEF Pick
  <2>6. /\ Candidates' = Candidates
        /\ \A o : Planned(o)' = Planned(o)
    BY <2>5 DEF Candidates, Available, Covered, Planned, Winners, WinnerKey
  <2> DEFINE e == [key |-> t, new |-> Planned(t)]
  <2>7. /\ e \in [key : Target, new : SUBSET Unit]
        /\ ordered \in Seq([key : Target, new : SUBSET Unit])
        /\ ordered' = Append(ordered, e)
    BY <2>1, <2>2, <2>3 DEF CoverInv, OrderInv
  <2>8. /\ ordered' \in Seq([key : Target, new : SUBSET Unit])
        /\ Len(ordered') = Len(ordered) + 1
        /\ \A i \in 1..Len(ordered) : ordered'[i] = ordered[i]
        /\ ordered'[Len(ordered) + 1] = e
        /\ Len(ordered) \in Nat
    BY <2>7
  <2>9. \A i \in 1..Len(ordered') :
           /\ ordered'[i].key \in Candidates
           /\ ordered'[i].new = Planned(ordered'[i].key)
    BY <2>2, <2>8 DEF CoverInv, OrderInv
  <2>10. \A o \in Candidates \ remaining' : \E i \in 1..Len(ordered') : ordered'[i].key = o
    <3> SUFFICES ASSUME NEW o \in Candidates \ remaining'
                 PROVE  \E i \in 1..Len(ordered') : ordered'[i].key = o
      OBVIOUS
    <3>1. CASE o = t
      BY <2>8, <3>1
    <3>2. CASE o # t
      <4>1. PICK i \in 1..Len(ordered) : ordered[i].key = o
        BY <2>1, <3>2 DEF CoverInv, OrderInv
      <4> QED
        BY <2>8, <4>1
    <3> QED
      BY <3>1, <3>2
  <2>11. OrderInv'
    BY <2>1, <2>4, <2>5, <2>6, <2>8, <2>9, <2>10 DEF CoverInv, OrderInv
  <2>12. StatusInv'
    BY <2>5 DEF StatusInv
  <2> QED
    BY <2>11, <2>12 DEF CoverInv
<1>2. CASE EndGreedy
  <2>1. UNCHANGED <<target, remaining, uncovered, ordered, status>>
    BY <1>2 DEF EndGreedy
  <2>2. /\ Candidates' = Candidates
        /\ \A o : Planned(o)' = Planned(o)
    BY <2>1 DEF Candidates, Available, Covered, Planned, Winners, WinnerKey
  <2>3. OrderInv'
    BY <2>1, <2>2 DEF CoverInv, OrderInv
  <2> QED
    BY <1>2, <2>3 DEF EndGreedy, CoverInv, StatusInv
<1>3. CASE Classify
  <2>1. UNCHANGED <<target, remaining, uncovered, ordered>>
    BY <1>3 DEF Classify
  <2>2. /\ Candidates' = Candidates
        /\ \A o : Planned(o)' = Planned(o)
    BY <2>1 DEF Candidates, Available, Covered, Planned, Winners, WinnerKey
  <2>3. OrderInv'
    BY <2>1, <2>2 DEF CoverInv, OrderInv
  <2>4. remaining = {}
    BY <1>3 DEF Classify, CoverInv, StatusInv
  <2>5. DOMAIN ordered = 1..Len(ordered)
    BY DEF CoverInv, OrderInv
  <2>6. ASSUME NEW t \in Target
        PROVE  /\ status'[t] \in Recommended => t \in Candidates
               /\ t \in Candidates /\ Planned(t) # {} => status'[t] \in Recommended
    <3>1. CASE \E i \in 1..Len(ordered) : ordered[i].key = t
      <4> DEFINE i == CHOOSE i \in 1..Len(ordered) : ordered[i].key = t
      <4>1. i \in 1..Len(ordered) /\ ordered[i].key = t
        BY <3>1
      <4>2. t \in Candidates /\ ordered[i].new = Planned(t)
        BY <4>1 DEF CoverInv, OrderInv
      <4>3. status'[t] = StatusOf(t, ordered[i].new)
        BY <1>3, <2>5, <3>1 DEF Classify
      <4> HIDE DEF i
      <4>4. Strength(t) \in Recommended
        BY Zenon DEF Strength, Recommended
      <4> QED
        BY <4>2, <4>3, <4>4 DEF StatusOf
    <3>2. CASE ~ \E i \in 1..Len(ordered) : ordered[i].key = t
      <4>1. status'[t] = "none"
        BY <1>3, <2>5, <3>2 DEF Classify
      <4>2. t \notin Candidates
        BY <2>4, <3>2 DEF CoverInv, OrderInv
      <4> QED
        BY <4>1, <4>2 DEF Recommended
    <3> QED
      BY <3>1, <3>2
  <2> QED
    BY <2>1, <2>2, <2>3, <2>4, <2>6 DEF CoverInv, StatusInv
<1>4. CASE UNCHANGED <<target, remaining, uncovered, ordered, status>> /\ phase = phase'
  <2>1. /\ Candidates' = Candidates
        /\ \A o : Planned(o)' = Planned(o)
    BY <1>4 DEF Candidates, Available, Covered, Planned, Winners, WinnerKey
  <2> QED
    BY <1>4, <2>1 DEF CoverInv, OrderInv, StatusInv
<1>5. CASE Attach \/ Preflight
  <2>1. /\ UNCHANGED <<target, remaining, uncovered, ordered, status>>
        /\ phase \notin {"greedy", "classify"} /\ phase' \notin {"greedy", "classify"}
    BY <1>5 DEF Attach, Preflight
  <2>2. /\ Candidates' = Candidates
        /\ \A o : Planned(o)' = Planned(o)
    BY <2>1 DEF Candidates, Available, Covered, Planned, Winners, WinnerKey
  <2> QED
    BY <2>1, <2>2 DEF CoverInv, OrderInv, StatusInv
<1> QED
  BY <1>1, <1>2, <1>3, <1>4, <1>5 DEF Next, PlannerNext, vars, plannerVars

(* For any targets, units and profiles, a recommendation reports a unit as *)
(* uncovered only if no available target covers it.                        *)
THEOREM RecommendationLosesNoUnit == Spec => []UncoveredMeansUntestable
<1> QED
  BY CoverInit, CoverStep, CoverImplies, PTL DEF Spec
-----------------------------------------------------------------------------
(* Induction, of a set of numbers: what holds for 0 and goes on holds for all. *)
LEMMA Induction ==
    ASSUME NEW S, 0 \in S, \A n \in Nat : n \in S => n + 1 \in S
    PROVE  Nat \subseteq S
<1> SUFFICES ASSUME ~ (Nat \subseteq S) PROVE FALSE
  OBVIOUS
<1>1. PICK n \in Nat \ S : \A m \in Nat \ S : n <= m
  BY LeastNumber
<1>2. n # 0 /\ n - 1 \in Nat /\ n - 1 \in S
  BY <1>1
<1> QED
  BY <1>1, <1>2

(* A sum over a set takes an element away and goes on with the others.     *)
Chosen(s) == CHOOSE x \in s : TRUE

IsSum(g, f, D) ==
  \A s \in D : g[s] = IF s = {} THEN 0 ELSE f[Chosen(s)] + g[s \ {Chosen(s)}]

(* Such a function is found for sets of n elements, for every n.           *)
LEMMA SumExists ==
    ASSUME NEW U, IsFiniteSet(U), NEW f, \A x \in U : f[x] \in Nat
    PROVE  \E g \in [SUBSET U -> Nat] : IsSum(g, f, SUBSET U)
<1> DEFINE Upto(n) == {s \in SUBSET U : Cardinality(s) <= n}
           Good == {n \in Nat : \E g \in [Upto(n) -> Nat] : IsSum(g, f, Upto(n))}
<1>0. \A s \in SUBSET U : /\ IsFiniteSet(s) /\ Cardinality(s) \in Nat
                          /\ Cardinality(s) = 0 <=> s = {}
                          /\ s # {} => Chosen(s) \in s /\ Cardinality(s \ {Chosen(s)}) = Cardinality(s) - 1
  BY FS_Subset, FS_CardinalityType, FS_EmptySet, FS_RemoveElement DEF Chosen
<1>1. 0 \in Good
  <2>1. ASSUME NEW s \in Upto(0) PROVE s = {}
    <3>1. Cardinality(s) \in Nat /\ Cardinality(s) <= 0 /\ (Cardinality(s) = 0 <=> s = {})
      BY <1>0
    <3> QED BY <3>1
  <2>2. [s \in Upto(0) |-> 0] \in [Upto(0) -> Nat]
    OBVIOUS
  <2>3. IsSum([s \in Upto(0) |-> 0], f, Upto(0))
    BY <2>1 DEF IsSum
  <2> QED BY <2>2, <2>3
<1>2. ASSUME NEW n \in Nat, n \in Good PROVE n + 1 \in Good
  <2>1. PICK g \in [Upto(n) -> Nat] : IsSum(g, f, Upto(n))
    BY <1>2
  <2> DEFINE h == [s \in Upto(n + 1) |-> IF s \in Upto(n) THEN g[s] ELSE f[Chosen(s)] + g[s \ {Chosen(s)}]]
  <2>2. ASSUME NEW s \in Upto(n + 1), s # {} PROVE s \ {Chosen(s)} \in Upto(n) /\ s \ {Chosen(s)} \in Upto(n + 1) /\ Chosen(s) \in U
    BY <1>0, <2>2
  <2>3. ASSUME NEW s \in Upto(n + 1) \ Upto(n) PROVE s # {}
    <3>1. ~ (Cardinality(s) <= n) /\ (Cardinality(s) = 0 <=> s = {})
      BY <1>0
    <3> QED BY <3>1
  <2>4. ASSUME NEW s \in Upto(n) PROVE s \in Upto(n + 1)
    <3>1. s \in SUBSET U /\ Cardinality(s) \in Nat /\ Cardinality(s) <= n
      BY <1>0
    <3>2. Cardinality(s) <= n + 1
      BY <3>1
    <3> QED BY <3>1, <3>2
  <2>5. ASSUME NEW s \in Upto(n + 1) PROVE h[s] \in Nat /\ h[s] = IF s = {} THEN 0 ELSE f[Chosen(s)] + h[s \ {Chosen(s)}]
    <3> HIDE DEF Upto, Good
    <3>1. CASE s \in Upto(n)
      BY <2>1, <2>2, <2>4, <3>1 DEF IsSum
    <3>2. CASE s \notin Upto(n)
      BY <2>1, <2>2, <2>3, <2>4, <3>2
    <3> QED BY <3>1, <3>2
  <2>6. h \in [Upto(n + 1) -> Nat] /\ IsSum(h, f, Upto(n + 1))
    <3> HIDE DEF Upto, Good
    <3> QED BY <2>5 DEF IsSum
  <2>7. \E k \in [Upto(n + 1) -> Nat] : IsSum(k, f, Upto(n + 1))
    <3> HIDE DEF h, Upto, Good
    <3> QED BY <2>6
  <2> HIDE DEF h, Upto
  <2> QED BY <2>7
<1>3. Nat \subseteq Good
  <2> HIDE DEF Good
  <2> QED BY <1>1, <1>2, Induction
<1>4. Cardinality(U) \in Nat /\ Upto(Cardinality(U)) = SUBSET U
  BY <1>0, FS_Subset, FS_CardinalityType
<1>5. Cardinality(U) \in Good
  BY <1>3, <1>4
<1> QED BY <1>4, <1>5

(* A gain is a number, and without units it is zero.                       *)
LEMMA GainType ==
  ASSUME NEW t, NEW U, IsFiniteSet(U), \A x \in U : target[t].gain[x] \in Nat
  PROVE Gain(t, U) \in Nat /\ (U = {} => Gain(t, U) = 0)
<1> DEFINE f == target[t].gain
  Eq(g) == g = [s \in SUBSET U |-> IF s = {} THEN 0 ELSE f[Chosen(s)] + g[s \ {Chosen(s)}]]
  it == CHOOSE g : Eq(g)
<1>1. \E g : Eq(g)
  <2>1. PICK g \in [SUBSET U -> Nat] : IsSum(g, f, SUBSET U)
    BY SumExists
  <2>2. Eq(g)
    BY <2>1 DEF IsSum
  <2> QED BY <2>2
<1>2. Eq(it)
  BY <1>1
<1>3. Gain(t, U) = it[U]
  BY DEF Gain, MapThenSumSet, MapThenFoldSet, Chosen
<1>4. ASSUME NEW s \in SUBSET U PROVE it[s] = IF s = {} THEN 0 ELSE f[Chosen(s)] + it[s \ {Chosen(s)}]
  <2> HIDE DEF it, f
  <2> QED BY <1>2
<1> DEFINE Good == {n \in Nat : \A s \in SUBSET U : Cardinality(s) <= n => it[s] \in Nat}
<1>5. \A s \in SUBSET U : /\ Cardinality(s) \in Nat
                          /\ Cardinality(s) = 0 <=> s = {}
                          /\ s # {} => Chosen(s) \in s /\ Cardinality(s \ {Chosen(s)}) = Cardinality(s) - 1
  BY FS_Subset, FS_CardinalityType, FS_EmptySet, FS_RemoveElement DEF Chosen
<1> HIDE DEF it
<1>10. it[{}] = 0
  <2>1. it[{}] = IF {} = {} THEN 0 ELSE f[Chosen({})] + it[{} \ {Chosen({})}]
    BY <1>4, Zenon
  <2> QED BY <2>1, Zenon
<1>6. 0 \in Good
  <2> SUFFICES ASSUME NEW s \in SUBSET U, Cardinality(s) <= 0 PROVE it[s] \in Nat
    OBVIOUS
  <2>1. Cardinality(s) \in Nat /\ (Cardinality(s) = 0 <=> s = {})
    BY <1>5
  <2>2. s = {}
    BY <2>1
  <2> QED BY <1>10, <2>2
<1>7. ASSUME NEW n \in Nat, n \in Good PROVE n + 1 \in Good
  <2> SUFFICES ASSUME NEW s \in SUBSET U, Cardinality(s) <= n + 1 PROVE it[s] \in Nat
    OBVIOUS
  <2>1. CASE s = {}
    BY <1>10, <2>1
  <2>2. CASE s # {}
    <3>1. Chosen(s) \in U /\ s \ {Chosen(s)} \in SUBSET U /\ Cardinality(s \ {Chosen(s)}) <= n
      BY <1>5, <2>2
    <3>2. it[s \ {Chosen(s)}] \in Nat
      BY <1>7, <3>1
    <3>3. it[s] = f[Chosen(s)] + it[s \ {Chosen(s)}]
      BY <1>4, <2>2
    <3>4. f[Chosen(s)] \in Nat
      BY <3>1
    <3> HIDE DEF f, Good
    <3> QED BY <3>2, <3>3, <3>4
  <2> QED BY <2>1, <2>2
<1>8. Nat \subseteq Good
  <2> HIDE DEF Good
  <2> QED BY <1>6, <1>7, Induction
<1>9. U \in SUBSET U /\ Cardinality(U) \in Nat /\ Cardinality(U) \in Good
  BY <1>5, <1>8
<1> QED BY <1>3, <1>4, <1>9
-----------------------------------------------------------------------------
(* t comes before o in the greedy order: it adds as much, and something if *)
(* o does.  What is planned with a target is new with it, so that the      *)
(* order does not change while targets are picked.                         *)
Before(t, o) ==
    /\ Gain(t, Planned(t)) >= Gain(o, Planned(o))
    /\ Planned(t) = {} => Planned(o) = {}

(* Every target comes before those picked later and those not picked yet.  *)
GreedyInv ==
    \A i \in 1..Len(ordered) :
        /\ \A o \in remaining : Before(ordered[i].key, o)
        /\ \A j \in 1..Len(ordered) : i < j => Before(ordered[i].key, ordered[j].key)

(* The best candidate comes before every other one.                        *)
LEMMA BestIsBefore ==
    ASSUME OrderInv, NEW t \in remaining, NEW o \in remaining,
           LexLess(GreedyKey(t), GreedyKey(o))
    PROVE  Before(t, o)
<1> DEFINE a == GreedyKey(t)
           b == GreedyKey(o)
<1>1. ASSUME NEW x \in remaining
      PROVE  /\ Gain(x, Planned(x)) \in Nat
             /\ Planned(x) = {} => Gain(x, Planned(x)) = 0
             /\ Cardinality(Planned(x)) \in Nat
             /\ Cardinality(Planned(x)) = 0 <=> Planned(x) = {}
             /\ Planned(x) \cap uncovered = Planned(x)
  <2>1. x \in Target /\ Planned(x) \subseteq Unit
    BY DEF OrderInv, Candidates, Available, Planned, Covered
  <2>2. \A u \in Planned(x) : target[x].gain[u] \in Nat
    BY <2>1, KeyTypes, PlannerAssumption DEF OrderInv
  <2>3. IsFiniteSet(Planned(x))
    BY <2>1, FS_Subset, PlannerAssumption
  <2>4. /\ Gain(x, Planned(x)) \in Nat
        /\ Planned(x) = {} => Gain(x, Planned(x)) = 0
    BY <2>2, <2>3, GainType
  <2> QED
    BY <2>3, <2>4, FS_CardinalityType, FS_EmptySet DEF OrderInv
<1>2. /\ a[1] = -Gain(t, Planned(t)) /\ b[1] = -Gain(o, Planned(o))
      /\ a[2] = -Cardinality(Planned(t)) /\ b[2] = -Cardinality(Planned(o))
      /\ Len(a) = 8
  BY <1>1 DEF GreedyKey
<1> HIDE DEF a, b
<1>3. PICK i \in 1..8 : a[i] < b[i] /\ \A j \in 1..(i - 1) : a[j] = b[j]
  BY <1>2 DEF LexLess, a, b
<1>4. \/ a[1] < b[1]
      \/ a[1] = b[1] /\ (a[2] < b[2] \/ a[2] = b[2])
  BY <1>3
<1> QED
  BY <1>1, <1>2, <1>4 DEF Before

(* The target picked was the best of those that remained.                  *)
LEMMA GreedyStep == CoverInv /\ GreedyInv /\ [Next]_vars => GreedyInv'
<1> SUFFICES ASSUME CoverInv, GreedyInv, [Next]_vars PROVE GreedyInv'
  OBVIOUS
<1>0. OrderInv
  BY DEF CoverInv
<1>1. ASSUME target' = target, NEW t, NEW o, Before(t, o) PROVE Before(t, o)'
  <2>1. \A x : Planned(x)' = Planned(x)
    BY <1>1 DEF Available, Covered, Planned, Winners, WinnerKey
  <2>2. \A x : Gain(x, Planned(x))' = Gain(x, Planned(x))
    BY <1>1, <2>1 DEF Gain, MapThenSumSet, MapThenFoldSet
  <2> QED
    BY <1>1, <2>1, <2>2 DEF Before
<1>2. CASE Pick
  <2>1. PICK t \in remaining :
          /\ IsBest(t)
          /\ ordered' = Append(ordered, [key |-> t, new |-> Planned(t) \cap uncovered])
          /\ remaining' = remaining \ {t}
    BY <1>2 DEF Pick
  <2>2. target' = target
    BY <1>2 DEF Pick
  <2>3. \A o \in remaining' : Before(t, o)
    BY <1>0, <2>1, BestIsBefore DEF IsBest
  <2>4. /\ Len(ordered) \in Nat
        /\ Len(ordered') = Len(ordered) + 1
        /\ \A i \in 1..Len(ordered) : ordered'[i] = ordered[i]
        /\ ordered'[Len(ordered) + 1].key = t
    BY <2>1 DEF CoverInv, OrderInv
  <2>5. ASSUME NEW i \in 1..Len(ordered')
        PROVE  /\ \A o \in remaining' : Before(ordered'[i].key, o)
               /\ \A j \in 1..Len(ordered') : i < j => Before(ordered'[i].key, ordered'[j].key)
    <3>1. CASE i = Len(ordered) + 1
      BY <2>3, <2>4, <3>1
    <3>2. CASE i \in 1..Len(ordered)
      <4>1. ASSUME NEW j \in 1..Len(ordered'), i < j PROVE Before(ordered'[i].key, ordered'[j].key)
        <5>1. CASE j = Len(ordered) + 1
          BY <2>1, <2>4, <3>2, <5>1 DEF GreedyInv
        <5>2. CASE j \in 1..Len(ordered)
          BY <2>4, <3>2, <4>1, <5>2 DEF GreedyInv
        <5> QED
          BY <2>4, <5>1, <5>2
      <4> QED
        BY <2>1, <2>4, <3>2, <4>1 DEF GreedyInv
    <3> QED
      BY <2>4, <3>1, <3>2
  <2> QED
    BY <1>1, <2>2, <2>5 DEF GreedyInv
<1>3. CASE UNCHANGED <<target, remaining, ordered>>
  BY <1>1, <1>3 DEF GreedyInv
<1> QED
  BY <1>2, <1>3 DEF Next, PlannerNext, EndGreedy, Classify, Attach, Preflight, vars, plannerVars

(* For any ranking, no target is followed by one that adds more, and those *)
(* that add nothing come last: a limit on their number drops the least     *)
(* useful ones.                                                            *)
THEOREM GreedyIsBestFirst == Spec => []BestFirst
<1>1. Init => GreedyInv
  BY DEF Init, PlannerInit, GreedyInv
<1>2. CoverInv /\ GreedyInv => BestFirst
  <2> SUFFICES ASSUME CoverInv, GreedyInv, NEW i \in DOMAIN ordered, NEW j \in DOMAIN ordered, i < j
               PROVE  /\ Gain(ordered[i].key, ordered[i].new) >= Gain(ordered[j].key, ordered[j].new)
                      /\ ordered[i].new = {} => ordered[j].new = {}
    BY DEF BestFirst
  <2>1. i \in 1..Len(ordered) /\ j \in 1..Len(ordered)
    BY DEF CoverInv, OrderInv
  <2>2. ordered[i].new = Planned(ordered[i].key) /\ ordered[j].new = Planned(ordered[j].key)
    BY <2>1 DEF CoverInv, OrderInv
  <2>3. Before(ordered[i].key, ordered[j].key)
    BY <2>1 DEF GreedyInv
  <2> QED
    BY <2>2, <2>3 DEF Before
<1> QED
  BY <1>1, <1>2, CoverInit, CoverStep, GreedyStep, PTL DEF Spec
-----------------------------------------------------------------------------
(* f[n] is what of the first n members of s is in S.                        *)
Filters(f, s, S, m) ==
    \A n \in 0..m :
       f[n] = IF n = 0 THEN <<>>
              ELSE IF s[n] \in S THEN Append(f[n - 1], s[n]) ELSE f[n - 1]

(* Such a function is found for every length.                              *)
LEMMA FilterExists ==
    ASSUME NEW T, NEW s \in Seq(T), NEW S
    PROVE  \E f \in [0..Len(s) -> Seq(T)] : Filters(f, s, S, Len(s))
<1> DEFINE Good == {m \in Nat : m <= Len(s) => \E f \in [0..m -> Seq(T)] : Filters(f, s, S, m)}
<1>1. 0 \in Good
  <2> DEFINE f == [n \in 0..0 |-> <<>>]
  <2>1. f \in [0..0 -> Seq(T)] /\ Filters(f, s, S, 0)
    BY DEF Filters
  <2> HIDE DEF f
  <2> QED
    BY <2>1
<1>2. ASSUME NEW m \in Nat, m \in Good PROVE m + 1 \in Good
  <2> SUFFICES ASSUME m + 1 <= Len(s)
               PROVE  \E f \in [0..(m + 1) -> Seq(T)] : Filters(f, s, S, m + 1)
    OBVIOUS
  <2>1. PICK f \in [0..m -> Seq(T)] : Filters(f, s, S, m)
    BY <1>2
  <2> DEFINE more == IF s[m + 1] \in S THEN Append(f[m], s[m + 1]) ELSE f[m]
             g == [n \in 0..(m + 1) |-> IF n = m + 1 THEN more ELSE f[n]]
  <2>2. s[m + 1] \in T /\ f[m] \in Seq(T)
    OBVIOUS
  <2>3. more \in Seq(T)
    BY <2>2
  <2> HIDE DEF more, Good
  <2>4. g \in [0..(m + 1) -> Seq(T)]
    BY <2>3
  <2>5. Filters(g, s, S, m + 1)
    <3> SUFFICES ASSUME NEW n \in 0..(m + 1)
                 PROVE  g[n] = IF n = 0 THEN <<>>
                               ELSE IF s[n] \in S THEN Append(g[n - 1], s[n]) ELSE g[n - 1]
      BY DEF Filters
    <3>1. CASE n = m + 1
      <4>1. g[n] = more /\ g[n - 1] = f[m] /\ n # 0
        BY <3>1
      <4> QED
        BY <3>1, <4>1 DEF more
    <3>2. CASE n \in 0..m
      <4>1. g[n] = f[n] /\ (n # 0 => g[n - 1] = f[n - 1])
        BY <3>2
      <4> QED
        BY <2>1, <3>2, <4>1 DEF Filters
    <3> QED
      BY <3>1, <3>2
  <2> HIDE DEF g
  <2> QED
    BY <2>4, <2>5
<1>3. Nat \subseteq Good
  <2> HIDE DEF Good
  <2> QED BY <1>1, <1>2, Induction
<1> QED BY <1>3

(* What Filter returns is the last value of one.                           *)
LEMMA FilterIs ==
    ASSUME NEW T, NEW s \in Seq(T), NEW S
    PROVE  \E f : Filters(f, s, S, Len(s)) /\ Filter(s, S) = f[Len(s)]
<1> DEFINE Eq(g) == g = [n \in 0..Len(s) |-> IF n = 0 THEN <<>>
              ELSE IF s[n] \in S THEN Append(g[n - 1], s[n]) ELSE g[n - 1]]
           f == CHOOSE g : Eq(g)
<1>1. \E g : Eq(g)
  <2>1. PICK g \in [0..Len(s) -> Seq(T)] : Filters(g, s, S, Len(s))
    BY FilterExists
  <2>2. Eq(g)
    BY <2>1 DEF Filters
  <2> QED BY <2>2
<1>2. Eq(f)
  BY <1>1
<1>3. Filter(s, S) = f[Len(s)]
  BY DEF Filter
<1> HIDE DEF f
<1>4. Filters(f, s, S, Len(s))
  BY <1>2 DEF Filters
<1> QED BY <1>3, <1>4

(* The values depend on the members of the sequence up to there.           *)
LEMMA FiltersAgree ==
    ASSUME NEW m \in Nat, NEW S, NEW s, NEW t, \A i \in 1..m : s[i] = t[i],
           NEW f, NEW g, Filters(f, s, S, m), Filters(g, t, S, m)
    PROVE  f[m] = g[m]
<1> DEFINE Good == {n \in Nat : n <= m => f[n] = g[n]}
<1>1. 0 \in Good
  BY DEF Filters
<1>2. ASSUME NEW n \in Nat, n \in Good PROVE n + 1 \in Good
  BY <1>2 DEF Filters
<1>3. Nat \subseteq Good
  <2> HIDE DEF Good
  <2> QED BY <1>1, <1>2, Induction
<1> QED BY <1>3

(* A filtered sequence, by recursion on the sequence.                      *)
LEMMA FilterEmpty == \A S : Filter(<<>>, S) = <<>>
<1> SUFFICES ASSUME NEW S PROVE Filter(<<>>, S) = <<>>
  OBVIOUS
<1>1. <<>> \in Seq({}) /\ Len(<<>>) = 0
  OBVIOUS
<1>2. PICK f : Filters(f, <<>>, S, Len(<<>>)) /\ Filter(<<>>, S) = f[Len(<<>>)]
  BY <1>1, FilterIs
<1> QED BY <1>1, <1>2 DEF Filters

(* One more member is kept or dropped, and changes nothing before it.      *)
LEMMA FilterAppend ==
    ASSUME NEW T, NEW s \in Seq(T), NEW x \in T, NEW S
    PROVE  Filter(Append(s, x), S) = IF x \in S THEN Append(Filter(s, S), x) ELSE Filter(s, S)
<1> DEFINE t == Append(s, x)
<1>1. /\ t \in Seq(T) /\ Len(t) = Len(s) + 1 /\ Len(s) \in Nat
      /\ t[Len(s) + 1] = x /\ \A i \in 1..Len(s) : t[i] = s[i]
  OBVIOUS
<1> HIDE DEF t
<1>2. PICK f : Filters(f, s, S, Len(s)) /\ Filter(s, S) = f[Len(s)]
  BY FilterIs
<1>3. PICK g : Filters(g, t, S, Len(t)) /\ Filter(t, S) = g[Len(t)]
  BY <1>1, FilterIs
<1>4. Filters(g, t, S, Len(s))
  BY <1>1, <1>3 DEF Filters
<1>5. g[Len(s)] = f[Len(s)]
  BY <1>1, <1>2, <1>4, FiltersAgree
<1>6. g[Len(s) + 1] = IF t[Len(s) + 1] \in S THEN Append(g[Len(s)], t[Len(s) + 1]) ELSE g[Len(s)]
  BY <1>1, <1>3 DEF Filters
<1> QED BY <1>1, <1>2, <1>3, <1>5, <1>6 DEF t

(* Induction over sequences.                                               *)
LEMMA SeqInduction ==
    ASSUME NEW T, NEW P, <<>> \in P,
           \A s \in Seq(T), x \in T : s \in P => Append(s, x) \in P
    PROVE  Seq(T) \subseteq P
<1> DEFINE Good == {n \in Nat : \A s \in Seq(T) : Len(s) = n => s \in P}
<1>1. 0 \in Good
  <2>1. \A s \in Seq(T) : Len(s) = 0 => s = <<>>
    OBVIOUS
  <2> QED BY <2>1
<1>2. ASSUME NEW n \in Nat, n \in Good PROVE n + 1 \in Good
  <2> SUFFICES ASSUME NEW s \in Seq(T), Len(s) = n + 1 PROVE s \in P
    OBVIOUS
  <2> DEFINE t == SubSeq(s, 1, n)
  <2>1. t \in Seq(T) /\ Len(t) = n /\ s[n + 1] \in T
    OBVIOUS
  <2>2. s = Append(t, s[n + 1])
    OBVIOUS
  <2>3. t \in P
    BY <1>2, <2>1
  <2> HIDE DEF t
  <2> QED BY <2>1, <2>2, <2>3
<1>3. Nat \subseteq Good
  <2> HIDE DEF Good
  <2> QED BY <1>1, <1>2, Induction
<1> QED BY <1>3

(* The members of a sequence with one more.                                *)
LEMMA AppendSet ==
    ASSUME NEW T, NEW s \in Seq(T), NEW x \in T
    PROVE  ToSet(Append(s, x)) = ToSet(s) \cup {x}
<1> DEFINE r == Append(s, x)
<1>1. /\ Len(s) \in Nat /\ DOMAIN s = 1..Len(s) /\ DOMAIN r = 1..(Len(s) + 1)
      /\ r[Len(s) + 1] = x /\ \A i \in 1..Len(s) : r[i] = s[i]
  OBVIOUS
<1> HIDE DEF r
<1>2. \A i \in 1..(Len(s) + 1) : i = Len(s) + 1 \/ i \in 1..Len(s)
  BY <1>1
<1>3. /\ Len(s) + 1 \in 1..(Len(s) + 1)
      /\ \A i \in 1..Len(s) : i \in 1..(Len(s) + 1)
  BY <1>1
<1>4. ToSet(r) = ToSet(s) \cup {x}
  BY <1>1, <1>2, <1>3 DEF ToSet
<1> QED
  BY <1>4 DEF r

(* The members of the result are those of the sequence in the set.         *)
LEMMA FilterSet ==
    ASSUME NEW T, NEW s \in Seq(T), NEW S
    PROVE  /\ Filter(s, S) \in Seq(T)
           /\ ToSet(Filter(s, S)) = ToSet(s) \cap S
<1> DEFINE P == {t \in Seq(T) : /\ Filter(t, S) \in Seq(T)
                                /\ ToSet(Filter(t, S)) = ToSet(t) \cap S}
<1>1. <<>> \in P
  <2>1. Filter(<<>>, S) = <<>> /\ <<>> \in Seq(T)
    BY FilterEmpty
  <2>2. ToSet(<<>>) = {}
    BY DEF ToSet
  <2> QED
    BY <2>1, <2>2
<1>2. ASSUME NEW t \in Seq(T), NEW x \in T, t \in P PROVE Append(t, x) \in P
  <2> DEFINE f == Filter(t, S)
             g == Filter(Append(t, x), S)
             r == Append(t, x)
  <2>1. g = IF x \in S THEN Append(f, x) ELSE f
    BY FilterAppend
  <2>2. f \in Seq(T) /\ ToSet(f) = ToSet(t) \cap S
    BY <1>2
  <2>3. r \in Seq(T) /\ ToSet(r) = ToSet(t) \cup {x}
    BY AppendSet
  <2> HIDE DEF f, g, r, P
  <2>4. CASE x \in S
    <3>1. g \in Seq(T) /\ ToSet(g) = ToSet(f) \cup {x}
      BY <2>1, <2>2, <2>4, AppendSet
    <3> QED
      BY <2>2, <2>3, <2>4, <3>1 DEF P, g, r
  <2>5. CASE x \notin S
    BY <2>1, <2>2, <2>3, <2>5 DEF P, g, r
  <2> QED
    BY <2>4, <2>5
<1>3. Seq(T) \subseteq P
  <2> HIDE DEF P
  <2> QED
    BY <1>1, <1>2, SeqInduction
<1> QED
  BY <1>3

(* Two filters in turn are one.                                            *)
LEMMA FilterTwice ==
    ASSUME NEW T, NEW s \in Seq(T), NEW A, NEW B
    PROVE  Filter(Filter(s, A), B) = Filter(s, A \cap B)
<1> DEFINE P == {t \in Seq(T) : Filter(Filter(t, A), B) = Filter(t, A \cap B)}
<1>1. <<>> \in P
  BY FilterEmpty
<1>2. ASSUME NEW t \in Seq(T), NEW x \in T, t \in P PROVE Append(t, x) \in P
  <2>1. Filter(t, A) \in Seq(T)
    BY FilterSet
  <2>2. /\ Filter(Append(t, x), A) = IF x \in A THEN Append(Filter(t, A), x) ELSE Filter(t, A)
        /\ Filter(Append(t, x), A \cap B) =
              IF x \in A \cap B THEN Append(Filter(t, A \cap B), x) ELSE Filter(t, A \cap B)
        /\ Filter(Append(Filter(t, A), x), B) =
              IF x \in B THEN Append(Filter(Filter(t, A), B), x) ELSE Filter(Filter(t, A), B)
    BY <2>1, FilterAppend
  <2>3. Append(t, x) \in Seq(T)
    OBVIOUS
  <2>4. Filter(Filter(t, A), B) = Filter(t, A \cap B)
    BY <1>2
  <2>5. Filter(Filter(Append(t, x), A), B) = Filter(Append(t, x), A \cap B)
    <3>1. CASE x \in A /\ x \in B
      BY <2>2, <2>4, <3>1
    <3>2. CASE x \in A /\ x \notin B
      BY <2>2, <2>4, <3>2
    <3>3. CASE x \notin A
      BY <2>2, <2>4, <3>3
    <3> QED BY <3>1, <3>2, <3>3
  <2> QED BY <2>3, <2>5
<1>3. Seq(T) \subseteq P
  <2> HIDE DEF P
  <2> QED BY <1>1, <1>2, SeqInduction
<1> QED BY <1>3

(* x is no longer than y, and has what y has of A no later.                *)
Earlier(x, y, A) ==
    /\ Len(x) <= Len(y)
    /\ \A i \in 1..Len(y) : y[i] \in A => \E j \in 1..Len(x) : j <= i /\ x[j] = y[i]

(* The narrower filter has its members no later than the wider one.        *)
LEMMA FilterEarlier ==
    ASSUME NEW T, NEW s \in Seq(T), NEW A, NEW B, A \subseteq B
    PROVE  Earlier(Filter(s, A), Filter(s, B), A)
<1> DEFINE P == {t \in Seq(T) : Earlier(Filter(t, A), Filter(t, B), A)}
<1>1. <<>> \in P
  <2>1. Filter(<<>>, A) = <<>> /\ Filter(<<>>, B) = <<>> /\ Len(<<>>) = 0 /\ <<>> \in Seq(T)
    BY FilterEmpty
  <2> QED BY <2>1 DEF Earlier
<1>2. ASSUME NEW t \in Seq(T), NEW x \in T, t \in P PROVE Append(t, x) \in P
  <2> DEFINE a == Filter(t, A)
             b == Filter(t, B)
             c == Filter(Append(t, x), A)
             d == Filter(Append(t, x), B)
  <2>1. Filter(t, A) \in Seq(T) /\ Filter(t, B) \in Seq(T)
    BY FilterSet
  <2>2. /\ c = IF x \in A THEN Append(a, x) ELSE a
        /\ d = IF x \in B THEN Append(b, x) ELSE b
    BY FilterAppend
  <2>3. a \in Seq(T) /\ b \in Seq(T) /\ Earlier(a, b, A) /\ Append(t, x) \in Seq(T)
    BY <1>2, <2>1
  <2> HIDE DEF a, b, c, d
  <2>4. CASE x \in A
    <3>1. /\ Len(c) = Len(a) + 1 /\ c[Len(a) + 1] = x /\ \A i \in 1..Len(a) : c[i] = a[i]
          /\ Len(d) = Len(b) + 1 /\ d[Len(b) + 1] = x /\ \A i \in 1..Len(b) : d[i] = b[i]
          /\ Len(a) \in Nat /\ Len(b) \in Nat
      BY <2>2, <2>3, <2>4
    <3>2. ASSUME NEW i \in 1..Len(d), d[i] \in A PROVE \E j \in 1..Len(c) : j <= i /\ c[j] = d[i]
      <4>1. CASE i = Len(b) + 1
        <5>1. Len(a) + 1 \in 1..Len(c) /\ Len(a) + 1 <= i /\ c[Len(a) + 1] = d[i]
          BY <2>3, <3>1, <4>1 DEF Earlier
        <5> QED BY <5>1
      <4>2. CASE i \in 1..Len(b)
        <5>1. PICK j \in 1..Len(a) : j <= i /\ a[j] = b[i]
          BY <2>3, <3>1, <3>2, <4>2 DEF Earlier
        <5> QED BY <3>1, <4>2, <5>1
      <4> QED BY <3>1, <4>1, <4>2
    <3> QED BY <2>3, <3>1, <3>2 DEF Earlier, c, d
  <2>5. CASE x \notin A
    <3>1. c = a
      BY <2>2, <2>5
    <3>2. CASE x \in B
      <4>1. /\ Len(d) = Len(b) + 1 /\ d[Len(b) + 1] = x /\ \A i \in 1..Len(b) : d[i] = b[i]
            /\ Len(a) \in Nat /\ Len(b) \in Nat
        BY <2>2, <2>3, <3>2
      <4>2. ASSUME NEW i \in 1..Len(d), d[i] \in A PROVE \E j \in 1..Len(c) : j <= i /\ c[j] = d[i]
        <5>1. i \in 1..Len(b)
          BY <2>5, <4>1, <4>2
        <5> QED BY <2>3, <3>1, <4>1, <4>2, <5>1 DEF Earlier
      <4> QED BY <2>3, <3>1, <4>1, <4>2 DEF Earlier, c, d
    <3>3. CASE x \notin B
      BY <2>2, <2>3, <3>1, <3>3 DEF c, d
    <3> QED BY <3>2, <3>3
  <2> QED BY <2>4, <2>5
<1>3. Seq(T) \subseteq P
  <2> HIDE DEF P
  <2> QED BY <1>1, <1>2, SeqInduction
<1> QED BY <1>3
-----------------------------------------------------------------------------
(* A row with a tool is of an available target, and names a device only    *)
(* when the options do.                                                    *)
RowInv ==
    phase = "planned" =>
        \A r \in rows : /\ r.tool # "" => ~target[r.key].missing
                        /\ r.device # NoDevice => options.devices # <<>>

(* No tool is planned for a target whose artifacts are missing.            *)
LEMMA ToolOfAvailable ==
    ASSUME NEW o, NEW t, NEW device, target[t].missing
    PROVE  Tool(o, t, device) = ""
  BY DEF Tool

(* A plan without devices has one slot, without a device.                  *)
LEMMA RowsOfPlan ==
    ASSUME NEW o, NEW r \in Rows(o)
    PROVE  /\ r.tool # "" => ~target[r.key].missing
           /\ r.device # NoDevice => o.devices # <<>>
<1>1. PICK i \in DOMAIN Groups :
        \E slot \in DOMAIN PlanDevices(o, i) :
           /\ r.key = Groups[i]
           /\ r.device = PlanDevices(o, i)[slot]
           /\ r.tool = Tool(o, Groups[i], PlanDevices(o, i)[slot])
  BY DEF Rows
<1>2. PICK slot \in DOMAIN PlanDevices(o, i) :
        /\ r.key = Groups[i]
        /\ r.device = PlanDevices(o, i)[slot]
        /\ r.tool = Tool(o, Groups[i], PlanDevices(o, i)[slot])
  BY <1>1
<1>3. o.devices = <<>> => PlanDevices(o, i)[slot] = NoDevice
  BY <1>2 DEF PlanDevices
<1>4. target[Groups[i]].missing => r.tool = ""
  BY <1>2, ToolOfAvailable, Zenon
<1> QED
  BY <1>2, <1>3, <1>4

(* What the preflight relies on, and what it shows.                        *)
PassInv == RowInv /\ PassedMeansConnected

(* Planning a row sets it right, and a preflight that finds no error has   *)
(* looked for every device the rows name.                                  *)
LEMMA PassStep == PassInv /\ [Next]_vars => PassInv'
<1> SUFFICES ASSUME PassInv, [Next]_vars PROVE PassInv'
  OBVIOUS
<1> USE DEF PassInv
<1>1. CASE Attach
  <2>1. PICK o \in Options : options' = o /\ rows' = Rows(o)
    BY <1>1 DEF Attach
  <2>2. phase' = "planned" /\ target' = target
    BY <1>1 DEF Attach
  <2> QED
    BY <2>1, <2>2, RowsOfPlan DEF RowInv, PassedMeansConnected
<1>2. CASE Preflight
  <2>1. PICK present \in SUBSET {"hdc", "python", "runtest"},
             listed \in SUBSET Device, fits \in BOOLEAN :
          /\ phase' = IF FindsNoError(present, listed) /\ fits THEN "passed" ELSE "failed"
          /\ connected' = IF Queries /\ "hdc" \in present THEN listed ELSE {}
    BY <1>2 DEF Preflight
  <2>2. /\ phase = "planned"
        /\ UNCHANGED <<target, options, selected, rows>>
    BY <1>2 DEF Preflight
  <2>3. RowInv'
    BY <2>1 DEF RowInv
  <2>4. ASSUME phase' = "passed", NEW r \in SelectedRows
        PROVE  /\ r.tool # "" /\ ~target[r.key].missing
               /\ r.device # NoDevice => r.device \in connected'
               /\ r.tool \in {"xdevice", "aa_test"} => connected' # {}
    <3>1. FindsNoError(present, listed)
      BY <2>1, <2>4
    <3>2. r \in rows /\ r.tool # "" /\ ~target[r.key].missing
      BY <2>2, <3>1 DEF FindsNoError, SelectedRows, RowInv
    <3>3. r.tool \in SelectedTools
      BY <3>2 DEF SelectedTools
    <3>4. r.device # NoDevice \/ r.tool \in {"xdevice", "aa_test"} => Queries
      BY <2>2, <3>2, <3>3 DEF Queries, RowInv
    <3>5. Queries => /\ connected' = listed
                     /\ r.device # NoDevice => r.device \in listed
                     /\ listed # {}
      BY <2>1, <3>1 DEF FindsNoError
    <3> QED
      BY <3>2, <3>4, <3>5
  <2>5. SelectedRows' = SelectedRows
    BY <2>2 DEF SelectedRows
  <2> QED
    BY <2>2, <2>3, <2>4, <2>5 DEF PassedMeansConnected
<1>3. CASE PlannerNext /\ UNCHANGED planVars
  <2>1. phase' \notin {"planned", "passed"}
    BY <1>3 DEF PlannerNext, Pick, EndGreedy, Classify
  <2> QED
    BY <2>1 DEF RowInv, PassedMeansConnected
<1>4. CASE UNCHANGED vars
  <2>1. SelectedRows' = SelectedRows
    BY <1>4 DEF vars, planVars, SelectedRows
  <2> QED
    BY <1>4, <2>1 DEF vars, plannerVars, planVars, RowInv, PassedMeansConnected
<1> QED
  BY <1>1, <1>2, <1>3, <1>4 DEF Next

(* For any targets, options and environment, what passes the preflight has *)
(* a tool, its artifacts and a connected device.                           *)
THEOREM PreflightIsSound == Spec => []PassedMeansConnected
<1>1. Init => PassInv
  BY DEF Init, PlannerInit, PassInv, RowInv, PassedMeansConnected
<1>2. PassInv => PassedMeansConnected
  BY DEF PassInv
<1> QED
  BY <1>1, <1>2, PassStep, PTL DEF Spec
-----------------------------------------------------------------------------
(* The members of two joined sequences.                                    *)
LEMMA ConcatSet ==
    ASSUME NEW T, NEW s \in Seq(T), NEW t \in Seq(T)
    PROVE  s \o t \in Seq(T) /\ ToSet(s \o t) = ToSet(s) \cup ToSet(t)
<1> DEFINE c == s \o t
<1>1. /\ c \in Seq(T) /\ Len(c) = Len(s) + Len(t)
      /\ \A i \in 1..Len(s) : c[i] = s[i]
      /\ \A i \in 1..Len(t) : c[Len(s) + i] = t[i]
      /\ DOMAIN c = 1..Len(c) /\ DOMAIN s = 1..Len(s) /\ DOMAIN t = 1..Len(t)
      /\ Len(s) \in Nat /\ Len(t) \in Nat
  OBVIOUS
<1> HIDE DEF c
<1>2. ASSUME NEW i \in 1..Len(c) PROVE c[i] \in ToSet(s) \cup ToSet(t)
  <2>1. CASE i \in 1..Len(s)
    BY <1>1, <2>1 DEF ToSet
  <2>2. CASE i \notin 1..Len(s)
    <3>1. i - Len(s) \in 1..Len(t) /\ Len(s) + (i - Len(s)) = i
      BY <1>1, <2>2
    <3> QED
      BY <1>1, <3>1 DEF ToSet
  <2> QED
    BY <2>1, <2>2
<1>3. \A i \in 1..Len(s) : s[i] \in ToSet(c)
  <2>1. \A i \in 1..Len(s) : i \in 1..Len(c)
    BY <1>1
  <2> QED
    BY <1>1, <2>1 DEF ToSet
<1>4. \A i \in 1..Len(t) : t[i] \in ToSet(c)
  <2>1. \A i \in 1..Len(t) : Len(s) + i \in 1..Len(c)
    BY <1>1
  <2> QED
    BY <1>1, <2>1 DEF ToSet
<1>5. ToSet(c) = ToSet(s) \cup ToSet(t)
  BY <1>1, <1>2, <1>3, <1>4 DEF ToSet
<1> QED
  BY <1>1, <1>5 DEF c

(* All that the lists of the result need of the ordered targets.           *)
Keyed == ordered \in Seq([key : Target, new : SUBSET Unit])

(* The lists that the planner returns, and the groups, are of targets; a   *)
(* wider tier has all targets of a narrower one.                           *)
LEMMA KeyLists ==
    ASSUME Keyed
    PROVE  /\ OrderedKeys \in Seq(Target) /\ Len(OrderedKeys) = Len(ordered)
           /\ RequiredKeys \in Seq(Target) /\ AdditionalKeys \in Seq(Target)
           /\ RecommendedKeys \in Seq(Target)
           /\ Groups \in Seq(Target)
           /\ ToSet(RequiredKeys) \subseteq ToSet(RecommendedKeys)
           /\ ToSet(RecommendedKeys) \subseteq ToSet(OrderedKeys)
<1>1. OrderedKeys \in Seq(Target) /\ Len(OrderedKeys) = Len(ordered)
  <2>1. /\ Len(ordered) \in Nat /\ DOMAIN ordered = 1..Len(ordered)
        /\ \A i \in 1..Len(ordered) : ordered[i] \in [key : Target, new : SUBSET Unit]
    <3> DEFINE R == [key : Target, new : SUBSET Unit]
    <3>1. ordered \in Seq(R)
      BY DEF Keyed
    <3> HIDE DEF R
    <3>2. /\ Len(ordered) \in Nat /\ DOMAIN ordered = 1..Len(ordered)
          /\ \A i \in 1..Len(ordered) : ordered[i] \in R
      BY <3>1
    <3> QED
      BY <3>2 DEF R
  <2>2. OrderedKeys = [i \in 1..Len(ordered) |-> ordered[i].key]
    BY <2>1 DEF OrderedKeys
  <2>3. \A i \in 1..Len(ordered) : ordered[i].key \in Target
    BY <2>1
  <2> HIDE DEF Target
  <2> QED
    BY <2>1, <2>2, <2>3
<1>2. /\ RequiredKeys \in Seq(Target) /\ ToSet(RequiredKeys) \subseteq ToSet(OrderedKeys)
      /\ AdditionalKeys \in Seq(Target) /\ ToSet(AdditionalKeys) \subseteq ToSet(OrderedKeys)
  BY <1>1, FilterSet DEF RequiredKeys, AdditionalKeys
<1>3. /\ RecommendedKeys \in Seq(Target)
      /\ ToSet(RecommendedKeys) = ToSet(RequiredKeys) \cup ToSet(AdditionalKeys)
  BY <1>2, ConcatSet DEF RecommendedKeys
<1>4. Groups \in Seq(Target)
  <2>1. [t \in Target |-> t] \in Seq(Target)
    BY PlannerAssumption DEF Target
  <2>2. Filter([t \in Target |-> t], Target \ ToSet(OrderedKeys)) \in Seq(Target)
    BY <2>1, FilterSet
  <2> QED
    BY <1>1, <2>2, ConcatSet DEF Groups
<1> QED
  BY <1>1, <1>2, <1>3, <1>4

(* A narrower tier and a wider one.                                        *)
Tiers == {<<"required", "recommended">>, <<"recommended", "all">>}

(* The keys of a wider tier have those of the narrower one.                *)
LEMMA TierKeys ==
    ASSUME Keyed, NEW tiers \in Tiers
    PROVE  ToSet(KeysFor(tiers[1])) \subseteq ToSet(KeysFor(tiers[2]))
<1>1. /\ KeysFor("required") = RequiredKeys
      /\ KeysFor("recommended") = RecommendedKeys
      /\ KeysFor("all") = OrderedKeys
  BY DEF KeysFor
<1> QED
  BY <1>1, KeyLists DEF Tiers

(* Nothing is ordered when there is nothing to cover.                      *)
LEMMA NothingToCover ==
    ASSUME OrderInv, AllUnits = {}
    PROVE  ordered = <<>>
<1> SUFFICES ASSUME ordered # <<>> PROVE FALSE
  OBVIOUS
<1>1. Len(ordered) > 0 /\ 1 \in 1..Len(ordered)
  BY DEF OrderInv
<1>2. ordered[1].key \in Available /\ Covered(ordered[1].key) # {}
  BY <1>1 DEF OrderInv, Candidates
<1> QED
  BY <1>2, CoveredKnown DEF OrderInv

(* The targets that the names ask for, of a tier.                          *)
Named(o, priority) ==
    Filter(DefaultGroups(priority),
           {t \in Target : o.names = {} \/ Aliases[t] \cap o.names # {}})

(* A limit cuts a list at its end, so that what comes earlier stays.       *)
LEMMA CutEarlier ==
    ASSUME NEW T, NEW x \in Seq(T), NEW y \in Seq(T), NEW A, Earlier(x, y, A), NEW n \in Nat
    PROVE  ToSet(SubSeq(y, 1, IF n < Len(y) THEN n ELSE Len(y))) \cap A
             \subseteq ToSet(SubSeq(x, 1, IF n < Len(x) THEN n ELSE Len(x)))
<1> DEFINE b == IF n < Len(y) THEN n ELSE Len(y)
           a == IF n < Len(x) THEN n ELSE Len(x)
<1>1. /\ a \in 0..Len(x) /\ b \in 0..Len(y) /\ Len(x) \in Nat /\ Len(y) \in Nat
      /\ Len(x) <= Len(y)
      /\ \A j \in 1..Len(x), i \in 1..b : j <= i => j \in 1..a
  BY DEF Earlier
<1> HIDE DEF a, b
<1>2. /\ DOMAIN SubSeq(y, 1, b) = 1..b /\ \A i \in 1..b : SubSeq(y, 1, b)[i] = y[i]
      /\ DOMAIN SubSeq(x, 1, a) = 1..a /\ \A i \in 1..a : SubSeq(x, 1, a)[i] = x[i]
  BY <1>1
<1>3. ASSUME NEW i \in 1..b, y[i] \in A PROVE \E j \in 1..a : x[j] = y[i]
  BY <1>1, <1>3 DEF Earlier
<1>4. ToSet(SubSeq(y, 1, b)) \cap A \subseteq ToSet(SubSeq(x, 1, a))
  <2> SUFFICES ASSUME NEW i \in 1..b, y[i] \in A
               PROVE  y[i] \in ToSet(SubSeq(x, 1, a))
    BY <1>2 DEF ToSet
  <2>1. PICK j \in 1..a : x[j] = y[i]
    BY <1>3
  <2> QED
    BY <1>2, <2>1 DEF ToSet
<1> QED
  BY <1>4 DEF a, b

(* The choice of a tier against that of a narrower one.                    *)
LEMMA TiersNest ==
    ASSUME OrderInv, NEW o \in Options, NEW tiers \in Tiers
    PROVE  LET narrow == ToSet(SelectedGroups(o, tiers[1]))
               wide   == ToSet(SelectedGroups(o, tiers[2]))
           IN /\ o.top = 0 => narrow \subseteq wide
              /\ wide \cap ToSet(KeysFor(tiers[1])) \subseteq narrow
<1> DEFINE p == tiers[1]
           q == tiers[2]
           K == ToSet(KeysFor(p))
           L == ToSet(KeysFor(q))
           N == {t \in Target : o.names = {} \/ Aliases[t] \cap o.names # {}}
           x == Named(o, p)
           y == Named(o, q)
<1>0. Keyed
  BY DEF OrderInv, Keyed
<1>1. K \subseteq L
  BY <1>0, TierKeys
<1>2. Groups \in Seq(Target)
  BY <1>0, KeyLists
<1>3. o.top \in Nat
  BY PlanAssumption DEF Option
<1>4. /\ SelectedGroups(o, p) =
           IF o.top = 0 THEN x ELSE SubSeq(x, 1, IF o.top < Len(x) THEN o.top ELSE Len(x))
      /\ SelectedGroups(o, q) =
           IF o.top = 0 THEN y ELSE SubSeq(y, 1, IF o.top < Len(y) THEN o.top ELSE Len(y))
  BY DEF SelectedGroups, Named
<1>5. CASE K # {}
  <2>1. DefaultGroups(p) = Filter(Groups, K) /\ DefaultGroups(q) = Filter(Groups, L)
    BY <1>1, <1>5 DEF DefaultGroups
  <2>2. x = Filter(Groups, K \cap N) /\ y = Filter(Groups, L \cap N)
    BY <1>2, <2>1, FilterTwice DEF Named
  <2> HIDE DEF p, q, K, L, N, x, y
  <2>3. /\ x \in Seq(Target) /\ ToSet(x) = ToSet(Groups) \cap (K \cap N)
        /\ y \in Seq(Target) /\ ToSet(y) = ToSet(Groups) \cap (L \cap N)
    BY <1>2, <2>2, FilterSet
  <2>4. Earlier(x, y, K \cap N)
    BY <1>1, <1>2, <2>2, FilterEarlier
  <2>5. CASE o.top = 0
    BY <1>1, <1>4, <2>3, <2>5 DEF p, q, K
  <2>6. CASE o.top # 0
    <3> DEFINE c == SubSeq(y, 1, IF o.top < Len(y) THEN o.top ELSE Len(y))
               d == SubSeq(x, 1, IF o.top < Len(x) THEN o.top ELSE Len(x))
    <3>1. ToSet(c) \cap (K \cap N) \subseteq ToSet(d)
      BY <1>3, <2>3, <2>4, CutEarlier
    <3>2. ToSet(c) \subseteq ToSet(y)
      <4>1. Len(y) \in Nat /\ DOMAIN y = 1..Len(y)
        BY <2>3
      <4>2. (IF o.top < Len(y) THEN o.top ELSE Len(y)) \in 0..Len(y)
        BY <1>3, <4>1
      <4>3. \A i \in DOMAIN c : i \in DOMAIN y /\ c[i] = y[i]
        BY <2>3, <4>1, <4>2
      <4> QED
        BY <4>3 DEF ToSet
    <3>3. SelectedGroups(o, p) = d /\ SelectedGroups(o, q) = c
      BY <1>4, <2>6
    <3> HIDE DEF c, d
    <3> QED
      BY <2>3, <2>6, <3>1, <3>2, <3>3 DEF p, q, K
  <2> QED
    BY <2>5, <2>6
<1>6. CASE K = {} /\ AllUnits # {}
  <2>1. x = <<>>
    BY <1>6, FilterEmpty DEF DefaultGroups, Named
  <2>2. ToSet(x) = {}
    BY <2>1 DEF ToSet
  <2> QED
    BY <1>4, <1>6, <2>2
<1>7. CASE K = {} /\ AllUnits = {}
  <2>1. OrderedKeys = <<>>
    <3>1. Len(ordered) = 0
      BY <1>7, NothingToCover
    <3>2. OrderedKeys \in Seq(Target) /\ Len(OrderedKeys) = 0
      BY <1>0, <3>1, KeyLists
    <3> QED
      BY <3>2
  <2>2. ToSet(OrderedKeys) = {} 
    BY <2>1 DEF ToSet
  <2>3. L = {}
    <3>1. KeysFor("recommended") = RecommendedKeys /\ KeysFor("all") = OrderedKeys
      BY DEF KeysFor
    <3> QED
      BY <1>0, <2>2, <3>1, KeyLists DEF Tiers
  <2>4. DefaultGroups(p) = DefaultGroups(q)
    BY <1>7, <2>3 DEF DefaultGroups
  <2>5. x = y
    BY <2>4 DEF Named
  <2> QED
    BY <1>4, <1>7, <2>5
<1> QED
  BY <1>5, <1>6, <1>7

(* The row of a slot of a group, and of a session of its target.           *)
RowAt(o, index, slot, session) ==
    LET t == Groups[index]
        device == PlanDevices(o, index)[slot]
        tool == Tool(o, t, device)
    IN [key     |-> t,
        device  |-> device,
        session |-> session,
        tool    |-> tool,
        path    |-> IF tool \in {"xdevice", "aa_test"}
                    THEN ResultPath(o, index, slot, session)
                    ELSE <<>>]

(* Every row of a plan is the row of a slot and a session.                 *)
LEMMA RowsAt ==
    ASSUME NEW o, NEW r \in Rows(o)
    PROVE  \E index \in DOMAIN Groups :
              \E slot \in DOMAIN PlanDevices(o, index) :
                 \E session \in 1..Sessions(o, Groups[index]) :
                    r = RowAt(o, index, slot, session)
<1>1. PICK index \in DOMAIN Groups :
        r \in {RowAt(o, index, slot, session) :
                 slot \in DOMAIN PlanDevices(o, index), session \in 1..Sessions(o, Groups[index])}
  BY DEF Rows, RowAt
<1> QED
  BY <1>1

(* A tool is one of those asked for.                                       *)
LEMMA ToolType ==
    ASSUME NEW o \in Option, NEW t, NEW device
    PROVE  Tool(o, t, device) \in {"", "xdevice", "aa_test", "runtest"}
<1> DEFINE order == IF o.tool # "auto" THEN <<o.tool>>
                    ELSE IF o.endpoint THEN <<"aa_test", "xdevice", "runtest">>
                    ELSE <<"xdevice", "aa_test", "runtest">>
           usable == {i \in DOMAIN order :
                        /\ order[i] \in target[t].tools
                        /\ ~target[t].missing
                        /\ ~(order[i] = "runtest" /\ device = NoDevice)}
<1>1. /\ DOMAIN order \subseteq Nat
      /\ \A i \in DOMAIN order : order[i] \in {"xdevice", "aa_test", "runtest"}
  <2>1. CASE o.tool # "auto"
    <3>1. o.tool \in {"xdevice", "aa_test", "runtest"}
      BY <2>1 DEF Option
    <3>2. order = <<o.tool>>
      BY <2>1
    <3> QED
      BY <3>1, <3>2
  <2>2. CASE o.tool = "auto" /\ o.endpoint
    BY <2>2
  <2>3. CASE o.tool = "auto" /\ ~o.endpoint
    BY <2>3
  <2> QED
    BY <2>1, <2>2, <2>3
<1>2. Tool(o, t, device) = IF usable = {} THEN "" ELSE order[Min(usable)]
  BY DEF Tool
<1> HIDE DEF order
<1>3. usable # {} => Min(usable) \in usable
  <2> SUFFICES ASSUME usable # {} PROVE Min(usable) \in usable
    OBVIOUS
  <2>1. usable \subseteq Nat /\ usable # {}
    BY <1>1
  <2> HIDE DEF usable
  <2>2. \E n \in usable : \A m \in usable : n <= m
    BY <2>1, LeastNumber
  <2> QED
    BY <2>2 DEF Min
<1> QED
  BY <1>1, <1>2, <1>3

(* Facts of sequences and numbers.                                         *)
LEMMA ElementOfSeq ==
    ASSUME NEW T, NEW s \in Seq(T), NEW i \in 1..Len(s)
    PROVE  s[i] \in T
  OBVIOUS

LEMMA Remainder ==
    ASSUME NEW a \in Nat, NEW n \in Nat \ {0}
    PROVE  (a % n) + 1 \in 1..n
  OBVIOUS

(* The devices of a plan, whatever the sharding, and its sessions.         *)
LEMMA DevicesType ==
    ASSUME NEW o \in Option, NEW index \in Nat \ {0}
    PROVE  /\ PlanDevices(o, index) \in Seq(Device \cup {NoDevice})
           /\ Len(PlanDevices(o, index)) \in Nat \ {0}
<1>1. o.devices \in Seq(Device)
  BY DEF Option
<1>2. CASE o.devices = <<>>
  <2>1. PlanDevices(o, index) = <<NoDevice>>
    BY <1>2 DEF PlanDevices
  <2> QED
    BY <2>1
<1>3. CASE o.devices # <<>> /\ o.shard = "split"
  <2>1. Len(o.devices) \in Nat /\ Len(o.devices) > 0
    BY <1>1, <1>3
  <2>2. index - 1 \in Nat /\ Len(o.devices) \in Nat \ {0}
    BY <2>1
  <2>3. ((index - 1) % Len(o.devices)) + 1 \in 1..Len(o.devices)
    BY <2>2, Remainder
  <2>4. o.devices[((index - 1) % Len(o.devices)) + 1] \in Device
    BY <1>1, <2>3, ElementOfSeq
  <2>5. PlanDevices(o, index) = <<o.devices[((index - 1) % Len(o.devices)) + 1]>>
    BY <1>3 DEF PlanDevices
  <2> QED
    BY <2>4, <2>5
<1>4. CASE o.devices # <<>> /\ o.shard # "split"
  <2>1. PlanDevices(o, index) = o.devices
    BY <1>4 DEF PlanDevices
  <2> QED
    BY <1>1, <1>4, <2>1
<1> QED
  BY <1>2, <1>3, <1>4

(* A target has at least one session.                                      *)
LEMMA SessionsType ==
    ASSUME NEW o \in Option, NEW t \in Target
    PROVE  Sessions(o, t) \in Nat \ {0}
<1>1. Aliases[t] \cap o.names \subseteq Name
  BY PlanAssumption DEF Option
<1>2. Cardinality(Aliases[t] \cap o.names) \in Nat
  BY <1>1, PlanAssumption, FS_Subset, FS_CardinalityType
<1> QED
  BY <1>2 DEF Sessions

(* The rows of a plan.                                                     *)
LEMMA RowsType ==
    ASSUME Keyed, NEW o \in Option, NEW r \in Rows(o)
    PROVE  /\ r.key \in Target
           /\ r.device \in Device \cup {NoDevice}
           /\ r.tool \in {"", "xdevice", "aa_test", "runtest"}
<1>1. PICK index \in DOMAIN Groups : 
         \E slot \in DOMAIN PlanDevices(o, index) :
            \E session \in 1..Sessions(o, Groups[index]) : r = RowAt(o, index, slot, session)
  BY RowsAt
<1>2. PICK slot \in DOMAIN PlanDevices(o, index) :
         \E session \in 1..Sessions(o, Groups[index]) : r = RowAt(o, index, slot, session)
  BY <1>1
<1>3. /\ r.key = Groups[index]
      /\ r.device = PlanDevices(o, index)[slot]
      /\ r.tool = Tool(o, Groups[index], PlanDevices(o, index)[slot])
  BY <1>2 DEF RowAt
<1>4. Groups \in Seq(Target)
  BY KeyLists
<1>5. index \in Nat \ {0} /\ Groups[index] \in Target
  BY <1>4
<1>6. PlanDevices(o, index) \in Seq(Device \cup {NoDevice})
  BY <1>5, DevicesType
<1>7. PlanDevices(o, index)[slot] \in Device \cup {NoDevice}
  BY <1>6
<1> QED
  BY <1>3, <1>5, <1>7, ToolType

(* Products of numbers: a multiple tells what it is a multiple of.         *)
LEMMA NatMult ==
    ASSUME NEW a \in Nat, NEW b \in Nat PROVE a * b \in Nat
  OBVIOUS

LEMMA Positive ==
    ASSUME NEW p \in Nat, NEW q \in Nat, NEW n \in Nat \ {0}
    PROVE  p # p + q + n
  OBVIOUS

LEMMA OneWay ==
    ASSUME NEW n \in Nat \ {0}, NEW a \in Nat, NEW b \in Nat, a * n = b * n
    PROVE  a = b
<1>1. ASSUME NEW x \in Nat, NEW y \in Nat, x < y, x * n = y * n PROVE FALSE
  <2>1. PICK d \in Nat : y = x + d + 1
    <3>1. y - x - 1 \in Nat /\ y = x + (y - x - 1) + 1
      BY <1>1
    <3> QED
      BY <3>1
  <2>2. y * n = x * n + d * n + n
    BY <2>1
  <2>3. d * n \in Nat /\ x * n \in Nat
    BY NatMult
  <2> QED
    BY <1>1, <2>2, <2>3, Positive
<1> QED
  BY <1>1

(* The parts of a place.                                                   *)
LEMMA PathParts ==
    ASSUME NEW o, NEW index, NEW slot, NEW session
    PROVE  /\ ResultPath(o, index, slot, session)[2] = index
           /\ ResultPath(o, index, slot, session)[3] = slot
           /\ ResultPath(o, index, slot, session)[4] =
                 IF Sessions(o, Groups[index]) = 1 THEN 0
                 ELSE (session - 1) * Len(PlanDevices(o, index)) + slot
  BY DEF ResultPath

(* The place of a report tells the group, the slot and the session.        *)
LEMMA PathsOfRows ==
    ASSUME Keyed, NEW o \in Option, NEW r \in Rows(o), NEW s \in Rows(o),
           r.path # <<>>, r.path = s.path
    PROVE  r = s
<1>1. PICK index \in DOMAIN Groups : 
         \E slot \in DOMAIN PlanDevices(o, index) :
            \E session \in 1..Sessions(o, Groups[index]) : r = RowAt(o, index, slot, session)
  BY RowsAt
<1>2. PICK slot \in DOMAIN PlanDevices(o, index) :
         \E session \in 1..Sessions(o, Groups[index]) : r = RowAt(o, index, slot, session)
  BY <1>1
<1>3. PICK session \in 1..Sessions(o, Groups[index]) : r = RowAt(o, index, slot, session)
  BY <1>2
<1>4. PICK index2 \in DOMAIN Groups : 
         \E slot2 \in DOMAIN PlanDevices(o, index2) :
            \E session2 \in 1..Sessions(o, Groups[index2]) : s = RowAt(o, index2, slot2, session2)
  BY RowsAt
<1>5. PICK slot2 \in DOMAIN PlanDevices(o, index2) :
         \E session2 \in 1..Sessions(o, Groups[index2]) : s = RowAt(o, index2, slot2, session2)
  BY <1>4
<1>6. PICK session2 \in 1..Sessions(o, Groups[index2]) : s = RowAt(o, index2, slot2, session2)
  BY <1>5
<1>7. /\ r.path = ResultPath(o, index, slot, session)
      /\ s.path = ResultPath(o, index2, slot2, session2)
  BY <1>3, <1>6 DEF RowAt
<1> DEFINE p == ResultPath(o, index, slot, session)
           q == ResultPath(o, index2, slot2, session2)
           n == Len(PlanDevices(o, index))
<1>14. /\ p[2] = index /\ p[3] = slot
      /\ p[4] = IF Sessions(o, Groups[index]) = 1 THEN 0 ELSE (session - 1) * n + slot
  BY PathParts
<1>15. /\ q[2] = index2 /\ q[3] = slot2
      /\ q[4] = IF Sessions(o, Groups[index2]) = 1 THEN 0
                ELSE (session2 - 1) * Len(PlanDevices(o, index2)) + slot2
  BY PathParts
<1>16. p = q
  BY <1>7
<1> HIDE DEF p, q, n
<1>8. index = index2 /\ slot = slot2
  BY <1>14, <1>15, <1>16
<1>9. /\ index \in Nat \ {0} /\ Groups[index] \in Target
      /\ slot \in Nat /\ Len(PlanDevices(o, index)) \in Nat \ {0}
  <2>1. Groups \in Seq(Target)
    BY KeyLists
  <2>2. index \in Nat \ {0} /\ Groups[index] \in Target
    BY <2>1
  <2>3. /\ PlanDevices(o, index) \in Seq(Device \cup {NoDevice})
        /\ Len(PlanDevices(o, index)) \in Nat \ {0}
    BY <2>2, DevicesType
  <2> QED
    BY <2>2, <2>3
<1>10. Sessions(o, Groups[index]) \in Nat \ {0}
  BY <1>9, SessionsType
<1>11. session \in Nat /\ session2 \in Nat /\ session >= 1 /\ session2 >= 1
  BY <1>3, <1>6, <1>8, <1>10
<1>12. CASE Sessions(o, Groups[index]) = 1
  <2>1. session = 1 /\ session2 = 1
    BY <1>8, <1>12
  <2> QED
    BY <1>3, <1>6, <1>8, <2>1
<1>13. CASE Sessions(o, Groups[index]) # 1
  <2>1. (session - 1) * n + slot = (session2 - 1) * n + slot
    BY <1>14, <1>15, <1>16, <1>8, <1>13 DEF n
  <2>2. session - 1 \in Nat /\ session2 - 1 \in Nat /\ n \in Nat \ {0}
    BY <1>9, <1>11 DEF n
  <2>3. (session - 1) * n \in Nat /\ (session2 - 1) * n \in Nat
    BY <2>2, NatMult
  <2>4. (session - 1) * n = (session2 - 1) * n
    BY <1>9, <2>1, <2>3
  <2>5. session - 1 = session2 - 1
    BY <2>2, <2>4, OneWay
  <2>6. session = session2
    BY <1>11, <2>5
  <2> QED
    BY <1>3, <1>6, <1>8, <2>6
<1> QED
  BY <1>12, <1>13
-----------------------------------------------------------------------------
(* A plan is made for one of the command lines.                            *)
PlanInv ==
    /\ TypeOK
    /\ PathsDistinct
    /\ phase = "planned" => options \in Options

(* What the options select are targets.                                    *)
LEMMA SelectionType ==
    ASSUME Keyed, NEW o \in Options, NEW priority
    PROVE  SelectedGroups(o, priority) \in Seq(Target)
<1>1. Groups \in Seq(Target)
  BY KeyLists
<1>2. DefaultGroups(priority) \in Seq(Target)
  <2>1. <<>> \in Seq(Target)
    OBVIOUS
  <2>2. Filter(Groups, ToSet(KeysFor(priority))) \in Seq(Target)
    BY <1>1, FilterSet
  <2> QED
    BY <1>1, <2>1, <2>2 DEF DefaultGroups
<1>3. Named(o, priority) \in Seq(Target)
  BY <1>2, FilterSet DEF Named
<1>4. o.top \in Nat
  BY PlanAssumption DEF Option
<1>5. ASSUME NEW n \in 0..Len(Named(o, priority))
      PROVE  SubSeq(Named(o, priority), 1, n) \in Seq(Target)
  BY <1>3
<1>6. (IF o.top < Len(Named(o, priority)) THEN o.top ELSE Len(Named(o, priority)))
        \in 0..Len(Named(o, priority))
  BY <1>3, <1>4
<1>7. SelectedGroups(o, priority) =
        IF o.top = 0 THEN Named(o, priority)
        ELSE SubSeq(Named(o, priority), 1,
                    IF o.top < Len(Named(o, priority)) THEN o.top
                    ELSE Len(Named(o, priority)))
  BY DEF SelectedGroups, Named
<1> QED
  BY <1>3, <1>5, <1>6, <1>7

(* The classification has one of four values for a target.                 *)
LEMMA StatusType ==
    ASSUME NEW t, NEW new
    PROVE  StatusOf(t, new) \in {"none", "required", "recommended", "optional"}
  BY DEF StatusOf, Strength

(* Before a plan there are no rows, and every step keeps what there is.    *)
LEMMA PlanInit == Init => PlanInv
  BY DEF Init, PlannerInit, PlanInv, TypeOK, PlannerTypeOK, PathsDistinct

LEMMA PlanStep == OrderInv /\ PlanInv /\ [Next]_vars => PlanInv'
<1> SUFFICES ASSUME OrderInv, PlanInv, [Next]_vars PROVE PlanInv'
  OBVIOUS
<1>7. Keyed
  BY DEF OrderInv, Keyed
<1>1. CASE Pick /\ UNCHANGED planVars
  <2>1. PICK t \in remaining :
          /\ ordered' = Append(ordered, [key |-> t, new |-> Planned(t) \cap uncovered])
          /\ uncovered' = uncovered \ Planned(t)
          /\ remaining' = remaining \ {t}
    BY <1>1 DEF Pick
  <2>2. UNCHANGED <<target, status, phase, options, selected, rows, connected>>
    BY <1>1 DEF Pick, planVars
  <2>3. Available' = Available /\ AllUnits' = AllUnits
    BY <2>2 DEF Available, AllUnits
  <2>4. t \in Target /\ Planned(t) \cap uncovered \in SUBSET Unit
    BY DEF PlanInv, TypeOK, PlannerTypeOK, Available, Planned, Covered
  <2>5. ordered' \in Seq([key : Target, new : SUBSET Unit])
    <3>1. [key |-> t, new |-> Planned(t) \cap uncovered] \in [key : Target, new : SUBSET Unit]
      BY <2>4
    <3>2. ordered \in Seq([key : Target, new : SUBSET Unit])
      BY DEF PlanInv, TypeOK, PlannerTypeOK
    <3> QED
      BY <2>1, <3>1, <3>2
  <2> QED
    BY <2>1, <2>2, <2>3, <2>5 DEF PlanInv, TypeOK, PlannerTypeOK, PathsDistinct
<1>2. CASE EndGreedy /\ UNCHANGED planVars
  <2>1. /\ UNCHANGED <<target, remaining, uncovered, ordered, status>>
        /\ UNCHANGED <<options, selected, rows, connected>>
        /\ phase' = "classify"
    BY <1>2 DEF EndGreedy, planVars
  <2>2. Available' = Available /\ AllUnits' = AllUnits
    BY <2>1 DEF Available, AllUnits
  <2> QED
    BY <2>1, <2>2 DEF PlanInv, TypeOK, PlannerTypeOK, PathsDistinct
<1>3. CASE Classify /\ UNCHANGED planVars
  <2>1. /\ UNCHANGED <<target, remaining, uncovered, ordered>>
        /\ UNCHANGED <<options, selected, rows, connected>>
        /\ phase' = "recommended"
    BY <1>3 DEF Classify, planVars
  <2>2. Available' = Available /\ AllUnits' = AllUnits
    BY <2>1 DEF Available, AllUnits
  <2>3. status' \in [Target -> {"none", "required", "recommended", "optional"}]
    BY <1>3, StatusType DEF Classify
  <2> QED
    BY <2>1, <2>2, <2>3 DEF PlanInv, TypeOK, PlannerTypeOK, PathsDistinct
<1>4. CASE Attach
  <2>1. PICK o \in Options :
          /\ options' = o
          /\ selected' = SelectedGroups(o, o.priority)
          /\ rows' = Rows(o)
    BY <1>4 DEF Attach
  <2>2. /\ UNCHANGED <<target, remaining, uncovered, ordered, status, connected>>
        /\ phase' = "planned"
    BY <1>4 DEF Attach
  <2>3. Available' = Available /\ AllUnits' = AllUnits
    BY <2>2 DEF Available, AllUnits
  <2>4. o \in Option
    BY PlanAssumption
  <2>5. \A r \in rows' : /\ r.key \in Target
                         /\ r.device \in Device \cup {NoDevice}
                         /\ r.tool \in {"", "xdevice", "aa_test", "runtest"}
    BY <1>7, <2>1, <2>4, RowsType
  <2>6. \A r, s \in rows' : r # s /\ r.path # <<>> => r.path # s.path
    BY <1>7, <2>1, <2>4, PathsOfRows
  <2>7. selected' \in Seq(Target)
    BY <1>7, <2>1, SelectionType
  <2> QED
    BY <2>1, <2>2, <2>3, <2>5, <2>6, <2>7
    DEF PlanInv, TypeOK, PlannerTypeOK, PathsDistinct
<1>5. CASE Preflight
  <2>1. /\ UNCHANGED <<target, remaining, uncovered, ordered, status>>
        /\ UNCHANGED <<options, selected, rows>>
        /\ phase' \in {"passed", "failed"}
        /\ connected' \subseteq Device
    BY <1>5 DEF Preflight
  <2>2. Available' = Available /\ AllUnits' = AllUnits
    BY <2>1 DEF Available, AllUnits
  <2> QED
    BY <2>1, <2>2 DEF PlanInv, TypeOK, PlannerTypeOK, PathsDistinct
<1>6. CASE UNCHANGED vars
  <2>1. /\ UNCHANGED <<target, remaining, uncovered, ordered, status, phase>>
        /\ UNCHANGED <<options, selected, rows, connected>>
    BY <1>6 DEF vars, plannerVars, planVars
  <2>2. Available' = Available /\ AllUnits' = AllUnits
    BY <2>1 DEF Available, AllUnits
  <2> QED
    BY <2>1, <2>2 DEF PlanInv, TypeOK, PlannerTypeOK, PathsDistinct
<1> QED
  BY <1>1, <1>2, <1>3, <1>4, <1>5, <1>6 DEF Next, PlannerNext

(* For any targets, ranking, devices, names and options: the plan has its  *)
(* types, no two of its rows report to one place, and a wider tier takes   *)
(* up what a narrower one has.                                             *)
THEOREM PlanIsRight == Spec => []PlanOK
<1>1. Init => CoverInv /\ PlanInv
  BY CoverInit, PlanInit
<1>2. CoverInv /\ PlanInv /\ [Next]_vars => (CoverInv /\ PlanInv)'
  BY CoverStep, PlanStep DEF CoverInv
<1>3. CoverInv /\ PlanInv => PlanOK
  <2> SUFFICES ASSUME CoverInv, PlanInv PROVE TiersAreNested
    BY DEF PlanOK, PlanInv
  <2> QED
    BY TiersNest DEF CoverInv, PlanInv, TiersAreNested, Tiers
<1> QED
  BY <1>1, <1>2, <1>3, PTL DEF Spec

-------------------------------------------------------------------------------
(* The gate: what holds of it for every input.  Its three copies agree     *)
(* where they speak of the same thing (model/buckets.py,                   *)
(* graph/coverage_relation.py, gate_adapter.py), and the score of the      *)
(* graph never orders against the bucket.                                  *)

\* The rules are collected one by one; there is none exactly when none applies.
LEMMA RuleIfEmpty ==
  ASSUME NEW rule, NEW applies \in BOOLEAN
  PROVE  RuleIf(rule, applies) = {} <=> ~ applies
  BY DEF RuleIf

\* No rule speaks of the coverage class exactly when it is none of the four and
\* the use is more than an import.
LEMMA NoCoverageRule ==
  ASSUME NEW i \in GateInputs
  PROVE  CoverageRules(i) = {} <=>
           /\ i.coverage \notin {"unresolved_coverage", "harness_only_usage",
                                 "broad_fallback", "exact_api_unknown_usage_shape"}
           /\ ~ ImportOnly(i)
<1>1. ImportOnly(i) \in BOOLEAN
  BY DEF ImportOnly
<1>2. RuleIf("unresolved_coverage", i.coverage = "unresolved_coverage") = {}
        <=> i.coverage # "unresolved_coverage"
  BY RuleIfEmpty
<1>3. RuleIf("harness_only", i.coverage = "harness_only_usage") = {}
        <=> i.coverage # "harness_only_usage"
  BY RuleIfEmpty
<1>4. RuleIf("broad_fallback", i.coverage = "broad_fallback") = {}
        <=> i.coverage # "broad_fallback"
  BY RuleIfEmpty
<1>5. RuleIf("unknown_usage_shape", i.coverage = "exact_api_unknown_usage_shape") = {}
        <=> i.coverage # "exact_api_unknown_usage_shape"
  BY RuleIfEmpty
<1>6. RuleIf("import_only_non_module", ImportOnly(i)) = {} <=> ~ ImportOnly(i)
  BY <1>1, RuleIfEmpty
<1> QED
  BY <1>2, <1>3, <1>4, <1>5, <1>6 DEF CoverageRules

\* What the mirror asks of an input it lets pass.
Passes(i) ==
  /\ ~ i.blocked /\ ~ i.onlyFallback /\ ~ i.onlyPathRule
  /\ ~ ImportOnly(i)
  /\ i.source = "strong" /\ i.consumer = "strong"
  /\ \/ i.coverage = "exact_api_same_usage_shape"
     \/ i.coverage = "exact_api_different_arguments" /\ i.noBetter

\* violates_must_run_gate names no rule exactly for the inputs that pass.
LEMMA NoRule ==
  ASSUME NEW i \in GateInputs
  PROVE  ViolatedRules(i) = {} <=> Passes(i)
<1> DEFINE SameApi == {"exact_api_different_arguments", "exact_api_same_usage_shape"}
           Generic == i.fanout /\ i.consumer # "strong"
           Better == i.coverage = "exact_api_different_arguments" /\ ~ i.noBetter
           Unsupported == i.coverage \notin SameApi /\ CoverageRules(i) = {}
<1>0. /\ i.blocked \in BOOLEAN /\ i.onlyFallback \in BOOLEAN /\ i.onlyPathRule \in BOOLEAN
      /\ Generic \in BOOLEAN /\ Better \in BOOLEAN /\ Unsupported \in BOOLEAN
  BY DEF GateInputs
<1>1. RuleIf("semantic_blocker_present", i.blocked) = {} <=> ~ i.blocked
  BY <1>0, RuleIfEmpty
<1>2. RuleIf("fallback_only_source", i.onlyFallback) = {} <=> ~ i.onlyFallback
  BY <1>0, RuleIfEmpty
<1>3. RuleIf("path_only_source", i.onlyPathRule) = {} <=> ~ i.onlyPathRule
  BY <1>0, RuleIfEmpty
<1>4. RuleIf("generic_fanout_no_direct_consumer", Generic) = {} <=> ~ Generic
  BY <1>0, RuleIfEmpty
<1>5. RuleIf("source_not_strong", i.source # "strong") = {} <=> i.source = "strong"
  BY RuleIfEmpty
<1>6. RuleIf("consumer_not_strong", i.consumer # "strong") = {} <=> i.consumer = "strong"
  BY RuleIfEmpty
<1>7. RuleIf("diff_args_better_test_exists", Better) = {} <=> ~ Better
  BY <1>0, RuleIfEmpty
<1>8. RuleIf("unsupported_coverage_equivalence", Unsupported) = {} <=> ~ Unsupported
  BY <1>0, RuleIfEmpty
<1>9. ViolatedRules(i) = {} <=>
        /\ ~ i.blocked /\ CoverageRules(i) = {} /\ ~ i.onlyFallback /\ ~ i.onlyPathRule
        /\ ~ Generic /\ i.source = "strong" /\ i.consumer = "strong"
        /\ ~ Better /\ ~ Unsupported
  <2> HIDE DEF Generic, Better, Unsupported
  <2>1. ViolatedRules(i) =
          RuleIf("semantic_blocker_present", i.blocked)
          \cup CoverageRules(i)
          \cup RuleIf("fallback_only_source", i.onlyFallback)
          \cup RuleIf("path_only_source", i.onlyPathRule)
          \cup RuleIf("generic_fanout_no_direct_consumer", Generic)
          \cup RuleIf("source_not_strong", i.source # "strong")
          \cup RuleIf("consumer_not_strong", i.consumer # "strong")
          \cup RuleIf("diff_args_better_test_exists", Better)
          \cup RuleIf("unsupported_coverage_equivalence", Unsupported)
    BY DEF ViolatedRules, Generic, Better, Unsupported
  <2> QED
    BY <2>1, <1>1, <1>2, <1>3, <1>4, <1>5, <1>6, <1>7, <1>8
<1>10. CoverageRules(i) = {} /\ ~ Unsupported /\ ~ Better <=>
         /\ ~ ImportOnly(i)
         /\ \/ i.coverage = "exact_api_same_usage_shape"
            \/ i.coverage = "exact_api_different_arguments" /\ i.noBetter
  BY NoCoverageRule
<1> QED
  BY <1>9, <1>10 DEF Passes

\* assign_bucket says must_run exactly for the inputs that pass.
LEMMA MustRunPasses ==
  ASSUME NEW i \in GateInputs
  PROVE  AssignBucket(i) = "must_run" <=> Passes(i)
  BY DEF AssignBucket, Passes, Degraded, Fair

\* model/buckets.py says of violates_must_run_gate that it mirrors assign_bucket:
\* an input must run exactly when no rule forbids it.
THEOREM GateAgreesWithPolicy ==
  \A i \in GateInputs : AssignBucket(i) = "must_run" <=> ViolatedRules(i) = {}
  BY NoRule, MustRunPasses

\* The graph's copy of the policy knows three of the ten inputs: what it says must
\* run passes the gate, whatever the others are, unless one of them forbids it.
THEOREM GraphMustRunPassesGate ==
  ASSUME NEW i \in GateInputs,
         ~ i.blocked, ~ i.onlyFallback, ~ i.onlyPathRule, ~ ImportOnly(i),
         GraphBucket(i.source, i.consumer, i.coverage) = "must_run"
  PROVE  ViolatedRules(i) = {}
<1>1. /\ i.source = "strong" /\ i.consumer = "strong"
      /\ i.coverage = "exact_api_same_usage_shape"
  BY DEF GraphBucket
<1> QED
  BY <1>1, NoRule DEF Passes

\* The adapter never lets a test run on evidence that is lexical or indirect: it
\* knows no coverage class, so that the gate itself would let nothing pass.
THEOREM LegacyMustRun ==
  \A e \in LegacyEvidence :
    LegacyBucket("must_run", e) = "must_run" <=> e.nonLexical /\ e.direct
<1> SUFFICES ASSUME NEW e \in LegacyEvidence
             PROVE  LegacyBucket("must_run", e) = "must_run" <=> e.nonLexical /\ e.direct
  OBVIOUS
<1>1. LegacyInputs(e) \in GateInputs
  BY DEF LegacyInputs, LegacyEvidence, GateInputs, Confidences, Coverages, UsageKinds, ApiKinds
<1>2. LegacyInputs(e).coverage = "unknown"
  BY DEF LegacyInputs
<1>3. ViolatedRules(LegacyInputs(e)) # {}
  BY <1>1, <1>2, NoRule DEF Passes
<1> QED
  BY <1>3 DEF LegacyBucket

\* _deduplicate_results keeps the higher score: no boost lifts a test over one of
\* a better bucket, so that a pair of API and project keeps its best bucket.
THEOREM ScoreFollowsBucket ==
  ASSUME NEW b \in SemanticBuckets, NEW c \in SemanticBuckets, BaseScore(b) > BaseScore(c),
         NEW s \in Confidences, NEW u \in Confidences,
         NEW t \in Confidences, NEW v \in Confidences
  PROVE  BaseScore(b) + Boost(s) + Boost(u) > BaseScore(c) + Boost(t) + Boost(v)
<1>1. \A x \in Confidences : Boost(x) \in 0..10
  BY DEF Boost, Confidences
<1>2. BaseScore(b) >= BaseScore(c) + 30 /\ BaseScore(b) \in Nat /\ BaseScore(c) \in Nat
  BY DEF BaseScore, SemanticBuckets
<1> QED
  BY <1>1, <1>2
=============================================================================
