------------------------ MODULE ClusterDecomposition ------------------------
(***************************************************************************)
(* How an instance is taken apart into clusters and put together again:    *)
(* src/src/Solver/Cluster/ClusterSolver.cpp with the edits of              *)
(* src/src/Solver/Action/DecoupleSubtreeAction.cpp.                        *)
(*                                                                         *)
(* A tree is the set of the label sets of its nodes, a forest a set of     *)
(* trees, and a solution a partition of the labels: its components.        *)
(***************************************************************************)
EXTENDS Integers, Sequences, FiniteSets, SequencesExt, AgreementForests

MaxLabelOf(tree) == CHOOSE x \in LabelsOf(tree) : \A y \in LabelsOf(tree) : y <= x

(* A slip: the last tree decides. *)
InLastTree(trees, n) == n \in trees[Len(trees)]

InEveryTree(trees, n) == \A i \in DOMAIN trees : n \in trees[i]

(* The cluster points: inner nodes, not the root, with the same labels in  *)
(* every tree.  Module ClusterPoints shows that the generator finds them.  *)
CommonClusters(trees) ==
  {n \in trees[1] \ {LabelsOf(trees[1])} : Cardinality(n) > 1 /\ InEveryTree(trees, n)}

(* n is visited before m: it lies below m or, where their ways part, left. *)
VisitedBefore(tree, n, m) ==
  LET fork == LeastAbove(tree, n \union m)
  IN  \/ n \subseteq m
      \/ ~(m \subseteq n) /\ \E c \in tree : /\ c \subseteq fork /\ c # fork
                                             /\ n \union {SmallestOf(fork)} \subseteq c

PostorderNumber(tree, n) == Cardinality({m \in tree : VisitedBefore(tree, m, n)})

(* The elements of S by their numbers. *)
SortedBy(S, number) ==
  CHOOSE s \in SetToSeqs(S) :
    \A j, k \in DOMAIN s : j < k => number[s[j]] <= number[s[k]]

PointsInOrder(trees) ==
  SortedBy(CommonClusters(trees), [n \in CommonClusters(trees) |-> PostorderNumber(trees[1], n)])
-----------------------------------------------------------------------------
(* DecoupleSubtreeAction::doAction on the tree with the node n: the        *)
(* subtree gets a root with the new terminal r beside it, and in the tree  *)
(* that is left n is the terminal t.                                       *)
DecoupledSubtree(tree, n, r) ==
  {m \in tree : m \subseteq n} \union {{r}, n \union {r}}

(* The labels of a node after the subtree of n was replaced by t. *)
WithoutSubtree(m, n, t) == IF n \subseteq m THEN (m \ n) \union {t} ELSE m

ParentTree(tree, n, t) ==
  {WithoutSubtree(m, n, t) : m \in {k \in tree : k \intersect n = {} \/ n \subseteq k}}

Decouple(forest, n, t, r) ==
  LET tree == CHOOSE u \in forest : n \in u
  IN  (forest \ {tree}) \union {DecoupledSubtree(tree, n, r), ParentTree(tree, n, t)}

(* The terminal and the root that the k-th cluster point stands for. *)
ClusterTerminal(maxLabel, k) == maxLabel + 2 * k - 1
ClusterRoot(maxLabel, k) == maxLabel + 2 * k

(* getClusterPoints: every point with its twin in each of the trees. *)
PointsWithTwins(trees) ==
  LET points == PointsInOrder(trees)
  IN  [k \in DOMAIN points |-> [i \in DOMAIN trees |-> LeastAbove(trees[i], points[k])]]

RootsInOrder(forest) == SortedBy(forest, [tree \in forest |-> SmallestOf(LabelsOf(tree))])

(* splitInstance: the k-th roots of all trees make the k-th cluster, which *)
(* the terminals and roots in its first tree connect with the others.      *)
Split(forests, terminals, roots) ==
  {LET trees == [i \in DOMAIN forests |-> RootsInOrder(forests[i])[k]]
   IN  [trees |-> trees, roots |-> roots \intersect LabelsOf(trees[1]),
        terminals |-> terminals \intersect LabelsOf(trees[1])]
     : k \in 1..Cardinality(forests[1])}

(* The cluster a whole instance is, if nothing is decoupled. *)
WholeInstance(trees) == [trees |-> trees, roots |-> {}, terminals |-> {}]

IsChild(c, d) == \E r \in c.roots : r - 1 \in d.terminals

(* A slip: any order. *)
AnyOrder(clusters) == SetToSeqs(clusters)

(* sortClusters: a cluster comes after those below it; in which order the  *)
(* children of one are visited depends on a hash set.                      *)
BottomUp(clusters) ==
  {s \in SetToSeqs(clusters) : \A i, j \in DOMAIN s : IsChild(s[i], s[j]) => i < j}
-----------------------------------------------------------------------------
(* A slip: the terminal is not cut off and forgotten with the root. *)
CoupleForgettingRoot(P, t, r) ==
  IF {r} \in P
  THEN P \ {{r}}
  ELSE {B \in P : B \intersect {t, r} = {}}
         \union {(UNION {B \in P : B \intersect {t, r} # {}}) \ {t, r}}

(* DecoupleSubtreeAction::undoAction: if r is alone, t is cut off and both *)
(* are forgotten; otherwise the components of t and r become one.          *)
Couple(P, t, r) ==
  IF {r} \in P
  THEN {B \ {t} : B \in P \ {{r}, {t}}}
  ELSE {B \in P : B \intersect {t, r} = {}}
         \union {(UNION {B \in P : B \intersect {t, r} # {}}) \ {t, r}}

(* coupleSubtrees: the last decoupling first. *)
CoupleAll(P, maxLabel, k) ==
  LET coupled[j \in 0..k] ==
        IF j = k THEN P
        ELSE Couple(coupled[j + 1], ClusterTerminal(maxLabel, j + 1), ClusterRoot(maxLabel, j + 1))
  IN  coupled[0]
=============================================================================
