-------------------------- MODULE MCRuntimeHistory --------------------------
(* Small instances of RuntimeHistory for TLC. *)
EXTENDS RuntimeHistory, TLC

CONSTANTS p1, p2, p3, u1, u2, a, b

Row(target, status) ==
    [target |-> target, selected |-> TRUE, timed |-> TRUE, status |-> status]

(* p1 and p3 share a target; p2's result of it stands in two target dicts; *)
(* p3 has a result that does not count.                                    *)
MCReport ==
    (p1 :> <<Row(a, "passed"), Row(b, "failed")>>)
 @@ (p2 :> <<Row(a, "passed"), Row(a, "passed")>>)
 @@ (p3 :> <<Row(b, "blocked"), Row(a, "timeout"), Row(a, "failed")>>)

TwoUsers == [p \in Proc |-> IF p = p2 THEN u2 ELSE u1]
=============================================================================
