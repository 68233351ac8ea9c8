------------------------------ MODULE MCCluster ------------------------------
(* Cluster for TLC.  The ring prefers the nodes in an order of their own for *)
(* every key: a key moves only when its owner leaves or a node it prefers    *)
(* joins, as on a consistent hash ring.                                      *)
EXTENDS Cluster, TLC

CONSTANTS n1, n2, k1, k2

MCNodes == {n1, n2}
MCKeys == {k1, k2}

Preferred == k1 :> n1 @@ k2 :> n2

MCOwner ==
  [S \in (SUBSET MCNodes) \ {{}} |->
     [k \in MCKeys |-> IF Preferred[k] \in S THEN Preferred[k] ELSE CHOOSE n \in S : TRUE]]
=============================================================================
