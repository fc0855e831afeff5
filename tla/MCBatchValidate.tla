---------------------------- MODULE MCBatchValidate ----------------------------
(* Three pull requests in two lists: p and s are of different repositories and
   have one number.  The threads are interchangeable.                         *)
EXTENDS BatchValidate

CONSTANTS p, q, s

MCLists == {<<p, s>>, <<q>>}
MCNumber == [pr \in Prs |-> IF pr = q THEN 2 ELSE 1]
Threads == Permutations(Workers)
===============================================================================
