-------------------------- MODULE CoveragePlanner --------------------------
(***************************************************************************)
(* build_global_coverage_recommendations of coverage_planner.py: from the  *)
(* ranked tests of every changed file and query to an ordered list of test *)
(* targets, each required, recommended or optional.                        *)
(*                                                                         *)
(* A unit is a thing to cover: a member, type, capability or family of a   *)
(* source.  What the ranking says of a target is a choice from Profiles;   *)
(* its gain for a unit is the weighted sum the code forms over sources,    *)
(* its score how well it represents the unit.  The tail of the tie-breaks  *)
(* (scope, specificity, umbrella penalty, ...) is the number of the target.*)
(***************************************************************************)
EXTENDS Integers, Sequences, FiniteSets, FiniteSetsExt

CONSTANTS
    NumTargets, (* targets are 1..NumTargets, in the order of their names   *)
    Source,     (* changed files and queries                                *)
    Unit,
    Family,
    UnitsOf,    (* the units of a source: changed files can share one       *)
    FamilyOf,   (* the families (none or one) a unit stands for             *)
    Component,  (* the families (none or one) in the path of a source       *)
    Profiles,   (* what the ranking can say of a target                     *)
    MaxGain     (* bound on gains and scores                                *)

Target == 1..NumTargets

Bucket == {"must-run", "high-confidence related", "possible related"}

Profile ==
    [sources : SUBSET Source \ {{}},
     gain    : [Unit -> 0..MaxGain],
     score   : [Unit -> 0..MaxGain],
     bucket  : Bucket,
     direct  : SUBSET Unit,         (* members and types it uses directly   *)
     missing : BOOLEAN,             (* not among the built artifacts        *)
     tools   : SUBSET {"xdevice", "aa_test", "runtest"}]

ASSUME PlannerAssumption ==
    /\ NumTargets \in Nat /\ MaxGain \in Nat /\ IsFiniteSet(Unit)
    /\ UnitsOf \in [Source -> SUBSET Unit]
    /\ FamilyOf \in [Unit -> SUBSET Family]
    /\ Component \in [Source -> SUBSET Family]
    /\ Profiles \subseteq Profile
    /\ \A p \in Profiles, u \in Unit :
          p.gain[u] > 0 => \E s \in p.sources : u \in UnitsOf[s]

VARIABLES
    target,     (* the profile of each target                               *)
    remaining,  (* candidates not ordered yet                               *)
    uncovered,
    ordered,    (* ordered_candidates: targets and the units new with them  *)
    status,     (* coverage_status of the targets                           *)
    phase       (* "greedy", "classify", "recommended", and what a plan adds*)

plannerVars == <<target, remaining, uncovered, ordered, status, phase>>
-----------------------------------------------------------------------------
Available == {t \in Target : ~target[t].missing}

AllUnits == UNION {UnitsOf[s] : s \in UNION {target[t].sources : t \in Available}}

Covered(t) == {u \in Unit : target[t].gain[u] > 0}

Rank(b) == CASE b = "must-run" -> 0
             [] b = "high-confidence related" -> 1
             [] b = "possible related" -> 2

LexLess(a, b) == \E i \in 1..Len(a) : /\ a[i] < b[i]
                                       /\ \A j \in 1..(i - 1) : a[j] = b[j]

WinnerKey(t, u) == <<-target[t].score[u], -target[t].gain[u],
                     Rank(target[t].bucket), t>>

(* unit_winners: each unit is planned with the target that represents it best. *)
Winners(u) ==
    LET gainers == {t \in Available : u \in Covered(t)}
    IN {t \in gainers : \A o \in gainers \ {t} : LexLess(WinnerKey(t, u), WinnerKey(o, u))}

Planned(t) == {u \in Covered(t) : t \in Winners(u)}

Gain(t, units) == MapThenSumSet(LAMBDA u : target[t].gain[u], units)

(* Variant: the candidates are compared by all they cover.                 *)
CoveredKey(t) ==
    <<-Gain(t, Covered(t)), -Cardinality(Covered(t)), Rank(target[t].bucket), t>>

(* tie_key: what the target adds, what is planned with it, all it covers.  *)
GreedyKey(t) ==
    LET new == Planned(t) \cap uncovered
    IN <<-Gain(t, new), -Cardinality(new),
         -Gain(t, Planned(t)), -Cardinality(Planned(t)),
         -Gain(t, Covered(t)), -Cardinality(Covered(t)),
         Rank(target[t].bucket), t>>

IsBest(t) == \A o \in remaining \ {t} : LexLess(GreedyKey(t), GreedyKey(o))
-----------------------------------------------------------------------------
PlannerInit ==
    /\ target \in [Target -> Profiles]
    /\ remaining = {t \in Available : Covered(t) # {}}
    /\ uncovered = AllUnits
    /\ ordered = <<>>
    /\ status = [t \in Target |-> "none"]
    /\ phase = "greedy"

(* Variant: everything a picked target covers counts as covered.           *)
UncoverAll ==
    /\ phase = "greedy"
    /\ \E t \in remaining :
          /\ IsBest(t)
          /\ ordered' = Append(ordered, [key |-> t, new |-> Planned(t) \cap uncovered])
          /\ uncovered' = uncovered \ Covered(t)
          /\ remaining' = remaining \ {t}
    /\ UNCHANGED <<target, status, phase>>

Pick ==
    /\ phase = "greedy"
    /\ \E t \in remaining :
          /\ IsBest(t)
          /\ ordered' = Append(ordered, [key |-> t, new |-> Planned(t) \cap uncovered])
          /\ uncovered' = uncovered \ Planned(t)
          /\ remaining' = remaining \ {t}
    /\ UNCHANGED <<target, status, phase>>

EndGreedy ==
    /\ phase = "greedy"
    /\ remaining = {}
    /\ phase' = "classify"
    /\ UNCHANGED <<target, remaining, uncovered, ordered, status>>

Families(t) == UNION {FamilyOf[u] : u \in Covered(t)}

PathFamilies(t) == UNION {Component[s] : s \in target[t].sources}

(* The loop over the fan-out limits assigns covered_families for every     *)
(* target in turn and the next loop reads it without assigning it: it is   *)
(* still the value of the last target.                                     *)
TargetProjectFamilies(t) == Families(ordered[Len(ordered)].key)

MatchedDirect(t) == target[t].direct \cap Covered(t)

Strength(t) == IF target[t].bucket = "must-run" THEN "required" ELSE "recommended"

StatusOf(t, new) ==
    IF new # {} THEN Strength(t)
    ELSE IF \/ /\ PathFamilies(t) \cap TargetProjectFamilies(t) # {}
               /\ target[t].bucket = "must-run"
            \/ /\ MatchedDirect(t) # {}
               /\ target[t].bucket \in {"must-run", "high-confidence related"}
         THEN Strength(t)
         ELSE "optional"

Classify ==
    /\ phase = "classify"
    /\ status' = [t \in Target |->
                    IF \E i \in DOMAIN ordered : ordered[i].key = t
                    THEN LET i == CHOOSE i \in DOMAIN ordered : ordered[i].key = t
                         IN StatusOf(t, ordered[i].new)
                    ELSE "none"]
    /\ phase' = "recommended"
    /\ UNCHANGED <<target, remaining, uncovered, ordered>>

PlannerNext == Pick \/ EndGreedy \/ Classify

(* The members of the sequence s that are in S, in their order.            *)
Filter(s, S) ==
    LET upto[n \in 0..Len(s)] ==
          IF n = 0 THEN <<>>
          ELSE IF s[n] \in S THEN Append(upto[n - 1], s[n]) ELSE upto[n - 1]
    IN upto[Len(s)]

(* The lists of the result.                                                *)
OrderedKeys     == [i \in DOMAIN ordered |-> ordered[i].key]
RequiredKeys    == Filter(OrderedKeys, {t \in Target : status[t] = "required"})
AdditionalKeys  == Filter(OrderedKeys, {t \in Target : status[t] = "recommended"})
RecommendedKeys == RequiredKeys \o AdditionalKeys
OptionalKeys    ==
    Filter(OrderedKeys, {ordered[i].key : i \in {j \in DOMAIN ordered : ordered[j].new = {}}})

RecommendedTargets == {t \in Target : status[t] \in {"required", "recommended"}}

UncoveredSources == AllUnits \ UNION {Planned(t) : t \in RecommendedTargets}
-----------------------------------------------------------------------------
PlannerTypeOK ==
    /\ target \in [Target -> Profiles]
    /\ remaining \subseteq Available
    /\ uncovered \subseteq AllUnits
    /\ ordered \in Seq([key : Target, new : SUBSET Unit])
    /\ status \in [Target -> {"none", "required", "recommended", "optional"}]
    /\ phase \in {"greedy", "classify", "recommended", "planned", "passed", "failed"}

(* What the recommendation reports as uncovered is what no available       *)
(* target covers: leaving out the targets that add nothing, and planning   *)
(* every unit with one target only, loses no unit.                         *)
UncoveredMeansUntestable ==
    phase \notin {"greedy", "classify"} =>
        UncoveredSources = AllUnits \ UNION {Covered(t) : t \in Available}

(* Greedy order: no target is followed by one that adds more new gain, and *)
(* a target that adds nothing by none that adds something, so that a       *)
(* limit on the number of targets drops the least useful ones.             *)
BestFirst ==
    \A i, j \in DOMAIN ordered : i < j =>
        /\ Gain(ordered[i].key, ordered[i].new) >= Gain(ordered[j].key, ordered[j].new)
        /\ ordered[i].new = {} => ordered[j].new = {}
=============================================================================
