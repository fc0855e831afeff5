------------------------------ MODULE SampleLog ------------------------------
(***************************************************************************)
(* What the shared runtime history promises: the samples of a run are      *)
(* added as one batch to those of all earlier runs, of which the newest    *)
(* MaxSamples are kept per target and tool.                                *)
(***************************************************************************)
EXTENDS Naturals, Sequences

CONSTANTS
    Proc,           (* the runs that record samples                         *)
    Target,         (* pairs of a target key and a tool                     *)
    MaxSamples,     (* max_samples                                          *)
    Batch(_, _)     (* the samples that a run has for a target              *)

VARIABLES
    hist,           (* the samples of each target, oldest first             *)
    recorded        (* the runs whose samples have been added               *)

vars == <<hist, recorded>>

Newest(s) == SubSeq(s, IF Len(s) > MaxSamples THEN Len(s) - MaxSamples + 1 ELSE 1, Len(s))

Learn(h, p) == [t \in Target |-> Newest(h[t] \o Batch(p, t))]

Init ==
    /\ hist = [t \in Target |-> <<>>]
    /\ recorded = {}

Record(p) ==
    /\ p \notin recorded
    /\ hist' = Learn(hist, p)
    /\ recorded' = recorded \cup {p}

Next == \E p \in Proc : Record(p)

Spec == Init /\ [][Next]_vars
=============================================================================
