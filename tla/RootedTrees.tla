----------------------------- MODULE RootedTrees -----------------------------
(***************************************************************************)
(* A tree as the set of the label sets of its nodes: what the nodes and    *)
(* pointers of src/src/Graph/Node.hpp come to while no edge is cut.  The   *)
(* children of a node are sorted by their smallest label                   *)
(* (Forest::sortChildrenAndCollectTerminals).                              *)
(***************************************************************************)
EXTENDS Integers, FiniteSets

SmallestOf(X) == CHOOSE x \in X : \A y \in X : x <= y

LabelsOf(tree) == UNION tree

(* A node has labels, the root has all; two nodes are nested or disjoint. *)
IsTree(tree) ==
  /\ \A m \in tree : m # {}
  /\ LabelsOf(tree) # {} => LabelsOf(tree) \in tree
  /\ \A m, n \in tree : m \subseteq n \/ n \subseteq m \/ m \intersect n = {}

IsLeaf(n) == Cardinality(n) = 1

(* The least node above the labels X: the least common ancestor. *)
LeastAbove(tree, X) ==
  CHOOSE n \in tree : X \subseteq n /\ \A m \in tree : X \subseteq m => n \subseteq m

LeftChild(tree, n) ==
  LET below == {m \in tree : m \subseteq n /\ m # n /\ SmallestOf(n) \in m}
  IN  CHOOSE m \in below : \A k \in below : k \subseteq m

RightChild(tree, n) == n \ LeftChild(tree, n)
=============================================================================
