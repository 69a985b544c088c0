----------------------------- MODULE ForestStore -----------------------------
(***************************************************************************)
(* How a heap of ForestHeap stores a forest of LaminarForest: what the     *)
(* code relies on between two actions, and Forest::isValid partly checks   *)
(* (src/src/Graph/Forest.cpp).                                             *)
(***************************************************************************)
EXTENDS ForestHeap, LaminarForest

(* The forest of a heap: its reachable nodes and their bitmasks. *)
ForestOf(h) == [n \in Reachable(h) |-> h.terms[n]]

Pointers == [Node -> Node \union {Nil}]

Heaps ==
  [parent : Pointers, sibling : Pointers, left : Pointers, right : Pointers,
   terms : [Node -> SUBSET Label], roots : Seq(Node), labelToTerminal : [Label -> Node],
   terminalToLabel : UNION {[S -> Label] : S \in SUBSET Node}]

(* Whoever follows the parents, on nodes of the forest or not, comes to an end. *)
NoCycle(h) == \A S \in SUBSET Node : S # {} => \E n \in S : h.parent[n] \notin S

ParentFits(h, f, n) ==
  IF IsRoot(f, n) THEN h.parent[n] = Nil /\ h.sibling[n] = Nil
  ELSE /\ h.parent[n] \in DOMAIN f /\ h.sibling[n] \in DOMAIN f
       /\ IsParent(f, h.parent[n], n) /\ AreChildren(f, n, h.sibling[n], h.parent[n])

ChildrenFit(h, f, n) ==
  IF IsTerminal(f, n) THEN h.left[n] = Nil /\ h.right[n] = Nil
  ELSE /\ h.left[n] \in DOMAIN f /\ h.right[n] \in DOMAIN f
       /\ AreChildren(f, h.left[n], h.right[n], n)
       /\ Smallest(f[h.left[n]]) < Smallest(f[h.right[n]])

RootsFit(h, f) ==
  /\ Range(h.roots) = Roots(f)
  /\ \A j, k \in DOMAIN h.roots :
       j < k => Smallest(h.terms[h.roots[j]]) < Smallest(h.terms[h.roots[k]])

LabelsFit(h, f) ==
  /\ DOMAIN h.terminalToLabel = Terminals(f)
  /\ \A n \in Terminals(f) : h.terminalToLabel[n] = Smallest(f[n])
  /\ \A x \in Label : /\ h.labelToTerminal[x] \in Terminals(f)
                      /\ x \in f[h.labelToTerminal[x]]

Stores(h, f) ==
  /\ h \in Heaps /\ NoCycle(h)
  /\ DOMAIN f \subseteq Node /\ f = [n \in DOMAIN f |-> h.terms[n]] /\ WellFormed(f, Label)
  /\ \A n \in DOMAIN f : ParentFits(h, f, n) /\ ChildrenFit(h, f, n)
  /\ RootsFit(h, f) /\ LabelsFit(h, f)
=============================================================================
