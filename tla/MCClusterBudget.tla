-------------------------- MODULE MCClusterBudget --------------------------
(* Up to four clusters; an empty list and lists with zeros are among them. *)
EXTENDS ClusterBudget

MCWeightLists == (UNION {[1..n -> 0..3] : n \in 0..3}) \union [1..4 -> 0..1]
MCBudgets == {0, 1, 7, 12}
=============================================================================
