-------------------------- MODULE MutableForestView --------------------------
(***************************************************************************)
(* The two clones that the dual lower bounds take apart, and their active  *)
(* leaves: src/src/Solver/Approximation/MutableForestView.hpp with the     *)
(* structural predicates of RedBlueDual.cpp.                               *)
(*                                                                         *)
(* A view is the tree that was cloned, its nodes in the fixed order of     *)
(* their indices, and the nodes whose edge to the parent was cut.  No node *)
(* is ever suppressed: a cut leaves its parent with one child.             *)
(***************************************************************************)
EXTENDS RootedTrees, Sequences

VARIABLES
  t1, t2,    \* the views of the two forests
  active,    \* the leaves that are not finalised and not merged
  dualSum    \* the sum of the dual variables

(* The constructor: with a stack, the right child comes before the left. *)
ViewOf(tree) ==
  LET below[n \in tree] ==
        IF IsLeaf(n) THEN <<n>>
        ELSE <<n>> \o below[RightChild(tree, n)] \o below[LeftChild(tree, n)]
  IN  [tree |-> tree, nodes |-> below[LabelsOf(tree)], cut |-> {}]

Cut(v, n) == [v EXCEPT !.cut = @ \union ({n} \ {LabelsOf(v.tree)})]

RootOf(v, n) == LeastAbove(v.cut \union {LabelsOf(v.tree)}, n)

Children(v, n) ==
  IF IsLeaf(n) THEN {} ELSE {LeftChild(v.tree, n), RightChild(v.tree, n)} \ v.cut

(* refreshCounts: what the counts are taken of. *)
ActiveUnder(v, n) == (n \intersect active) \ UNION {m \in v.cut : m \subseteq n /\ m # n}

Count(v, n) == Cardinality(ActiveUnder(v, n))

(* The same in the order of the nodes. *)
ActiveInOrder(v, n) ==
  LET leaves == SelectSeq(v.nodes, LAMBDA m : IsLeaf(m) /\ m \subseteq ActiveUnder(v, n))
  IN  [k \in DOMAIN leaves |-> SmallestOf(leaves[k])]

SameTree(v, a, b) == RootOf(v, {a}) = RootOf(v, {b})

AloneInTree(v, u) == Count(v, RootOf(v, {u})) = 1

ActiveSiblings(v, a, b) == SameTree(v, a, b) /\ Count(v, LeastAbove(v.tree, {a, b})) = 2

(* The lowest nodes with two active leaves. *)
IsCherry(v, n) == ~IsLeaf(n) /\ Count(v, n) = 2 /\ \A c \in Children(v, n) : Count(v, c) < 2

Cherries(v) ==
  LET nodes == SelectSeq(v.nodes, LAMBDA n : IsCherry(v, n))
  IN  [k \in DOMAIN nodes |-> ActiveInOrder(v, nodes[k])]
-----------------------------------------------------------------------------
(* The nodes above u, in its tree, with an active leaf other than u. *)
Meets(v, u) ==
  {n \in v.tree : /\ u \in n /\ n \subseteq RootOf(v, {u})
                  /\ ActiveUnder(v, n) \ {u} # {}}

(* p(u), the lowest of them, and its child above u. *)
MeetOf(v, u) == LeastAbove(Meets(v, u), {u})

Towards(v, u) ==
  LET p == MeetOf(v, u)
  IN  IF u \in LeftChild(v.tree, p) THEN LeftChild(v.tree, p) ELSE RightChild(v.tree, p)

(* The subtree beside u at p(u). *)
Pendant(v, u) == MeetOf(v, u) \ Towards(v, u)

CutPendant(v, u) == IF Meets(v, u) = {} THEN v ELSE Cut(v, Pendant(v, u))

CutOffLeaf(v, u) == IF Meets(v, u) = {} THEN v ELSE Cut(v, Towards(v, u))

(* p(u) lies strictly below the least common ancestor of u and w. *)
BelowLca(v, u, w) ==
  /\ Meets(v, u) # {}
  /\ \E p \in {MeetOf(v, u)}, m \in {LeastAbove(v.tree, {u, w})} : p \subseteq m /\ p # m
=============================================================================
