---------------------------- MODULE MCAutoscaler ----------------------------
(* Autoscaler for TLC: one or two nodes, n1 preferred by every key.         *)
EXTENDS Autoscaler, TLC

CONSTANTS n1, n2, k1

MCNodes == {n1, n2}
MCKeys == {k1}

\* Two changes with one node, one with two or none.
MCMaxChanges == 0 :> 1 @@ 1 :> 2 @@ 2 :> 1

MCOwner ==
  [S \in (SUBSET Nodes) \ {{}} |->
     [k \in Keys |-> IF n1 \in S THEN n1 ELSE n2]]
=============================================================================
