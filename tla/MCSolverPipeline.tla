-------------------------- MODULE MCSolverPipeline --------------------------
(* Instances grafted from small ones, so that they have cluster points.     *)
EXTENDS SolverPipeline, SmallTrees

(* The tree s in the place of the leaf x of t. *)
Graft(t, x, s) ==
  {IF x \in n THEN (n \ {x}) \union LabelsOf(s) ELSE n : n \in t \ {{x}}} \union s

(* k trees; up to a renaming, the leaves of the first are in order and its  *)
(* two least ones are siblings.                                             *)
Tuples(k, X) ==
  LET y == SmallestOf(X)  z == SmallestOf(X \ {y})
  IN  {c \in [1..k -> TreesOver[X]] : InOrder(c[1]) /\ {y, z} \in c[1]}

Pairs(X) == Tuples(2, X)
UnlikePairs(X) == {c \in Pairs(X) : c[1] # c[2]}

Grafted(c, x, d) == [i \in DOMAIN c |-> Graft(c[i], x, d[i])]

(* A cluster of four leaves, two leaves beside it; some clusters are        *)
(* smaller once they are reduced.                                           *)
OneCluster == {Grafted(c, 9, d) : c \in UnlikePairs({5, 6, 9}), d \in Pairs(1..4)}

(* A cluster of three leaves with two beside it, in two or three trees. *)
SmallCluster(k) == {Grafted(c, 9, d) : c \in Tuples(k, {4, 5, 9}), d \in Tuples(k, 1..3)}

(* Two clusters, one in the other or side by side. *)
Nested ==
  {Grafted(Grafted(c, 9, d), 8, e) :
     c \in UnlikePairs({6, 7, 9}), d \in Pairs({4, 5, 8}), e \in UnlikePairs(1..3)}
SideBySide ==
  {Grafted(Grafted(c, 8, d), 9, e) :
     c \in UnlikePairs(7..9), d \in Pairs(1..3), e \in UnlikePairs(4..6)}

NoClusters == UnlikePairs(1..4)

MCInstances ==
  OneCluster \union SmallCluster(2) \union SmallCluster(3) \union Nested \union SideBySide
  \union NoClusters

(* The tracks on which a search may end early have many more outcomes. *)
MCTracks(trees) ==
  IF Len(trees) = 2 /\ Cardinality(LabelsOf(trees[1])) < 6
  THEN {"exact", "heuristic", "pipeline", "lower-bound"}
  ELSE {"exact"}

(* a = 1, 3/2, 5/4 *)
MCValidityConstants ==
  {NoLine, [a |-> 1, denominator |-> 1, b |-> 0], [a |-> 3, denominator |-> 2, b |-> 0],
   [a |-> 5, denominator |-> 4, b |-> 1]}
=============================================================================
