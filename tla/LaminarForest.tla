---------------------------- MODULE LaminarForest ----------------------------
(***************************************************************************)
(* The X-forests of the solver (src/src/Graph/Forest.hpp) as data.         *)
(*                                                                         *)
(* A forest is a function f from the nodes reachable from its roots to the *)
(* set of labels below each node -- the bitmask Node::subtreeTerminals of  *)
(* src/src/Graph/Node.hpp.  Ancestry is inclusion of these sets, so the    *)
(* pointers parent, sibling, leftChild and rightChild need no copy here:   *)
(* module ForestPointers keeps them and shows that they agree.             *)
(***************************************************************************)

(* m lies strictly below n. *)
Below(f, m, n) == m # n /\ f[m] \subseteq f[n]

IsRoot(f, n) == \A m \in DOMAIN f : ~Below(f, n, m)

Roots(f) == {n \in DOMAIN f : IsRoot(f, n)}

(* A terminal: no children.  It may stand for a collapsed subtree. *)
IsTerminal(f, n) == \A m \in DOMAIN f : ~Below(f, m, n)

Terminals(f) == {n \in DOMAIN f : IsTerminal(f, n)}

IsParent(f, p, n) ==
  /\ Below(f, n, p)
  /\ \A q \in DOMAIN f : Below(f, n, q) => f[p] \subseteq f[q]

AreChildren(f, a, b, p) ==
  /\ Below(f, a, p) /\ Below(f, b, p)
  /\ f[a] \union f[b] = f[p]
  /\ f[a] \intersect f[b] = {}

(* Slips: the parent stays; the labels of the parent are taken off too. *)
CutEdgeKeepingParent(f, n, p) ==
  [m \in DOMAIN f |-> IF Below(f, n, m) THEN f[m] \ f[n] ELSE f[m]]

CutEdgeWithParent(f, n, p) ==
  [m \in DOMAIN f \ {p} |-> IF Below(f, p, m) THEN f[m] \ f[p] ELSE f[m]]

(***************************************************************************)
(* DeleteEdgeAction::doAction: the edge above n is cut, n becomes a root,  *)
(* and its parent p -- left with one child -- leaves the forest.           *)
(***************************************************************************)
CutEdge(f, n, p) ==
  [m \in DOMAIN f \ {p} |-> IF Below(f, n, m) THEN f[m] \ f[n] ELSE f[m]]

(* A slip: the new terminal is labelled by its node. *)
CollapseSubtreeToNode(f, n) ==
  [m \in {k \in DOMAIN f : ~Below(f, k, n)} |-> IF m = n THEN {n} ELSE f[m]]

(***************************************************************************)
(* CollapseSubtreeAction::doAction: n becomes a terminal that stands for   *)
(* its whole subtree.                                                      *)
(***************************************************************************)
CollapseSubtree(f, n) ==
  [m \in {k \in DOMAIN f : ~Below(f, k, n)} |-> f[m]]

(* A slip: the ancestors get their old labels back as well. *)
ExpandSubtreeAndAbove(f, h, n) ==
  [m \in DOMAIN f \union {k \in DOMAIN h : Below(h, k, n)} |->
     IF m \in DOMAIN h THEN h[m] ELSE f[m]]

(***************************************************************************)
(* CollapseSubtreeAction::undoAction: the terminal n of f gets back the    *)
(* subtree it has in the forest h.                                         *)
(***************************************************************************)
ExpandSubtree(f, h, n) ==
  [m \in DOMAIN f \union {k \in DOMAIN h : Below(h, k, n)} |->
     IF m \in DOMAIN f THEN f[m] ELSE h[m]]

-----------------------------------------------------------------------------
(* What Forest::isValid asks of a forest over the labels X. *)

(* No node without labels, no two nodes with the same labels. *)
Distinct(f) ==
  /\ \A n \in DOMAIN f : f[n] # {}
  /\ \A n, m \in DOMAIN f : f[n] = f[m] => n = m

(* Two subtrees are nested or disjoint. *)
Laminar(f) ==
  \A n, m \in DOMAIN f :
     f[n] \subseteq f[m] \/ f[m] \subseteq f[n] \/ f[n] \intersect f[m] = {}

(* Every inner node has exactly two children, which share its labels. *)
Binary(f) ==
  \A n \in DOMAIN f :
     IsTerminal(f, n) \/ \E a, b \in DOMAIN f : AreChildren(f, a, b, n)

(* Every label is in the forest and no other is. *)
Covers(f, X) ==
  /\ \A n \in DOMAIN f : f[n] \subseteq X
  /\ \A x \in X : \E n \in DOMAIN f : x \in f[n]

WellFormed(f, X) == Distinct(f) /\ Laminar(f) /\ Binary(f) /\ Covers(f, X)
=============================================================================
