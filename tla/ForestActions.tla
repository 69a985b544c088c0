---------------------------- MODULE ForestActions ----------------------------
(***************************************************************************)
(* What the actions of the rules do to one forest of ForestHeap:           *)
(*                                                                         *)
(*   src/src/Solver/Action/DeleteEdgeAction.cpp      cut the edge above a  *)
(*                                                   node, undo the cut    *)
(*   src/src/Solver/Action/CollapseSubtreeAction.cpp make a subtree one    *)
(*                                                   terminal, undo that   *)
(***************************************************************************)
EXTENDS ForestHeap

-----------------------------------------------------------------------------
(* DeleteEdgeAction *)

DoParentIsRoot(h, a) ==
  LET at == a.leftIndex
      roots1 == ReplaceAt(h.roots, at, a.left)
      right == LowerBound(h, roots1, at, h.terms[a.right])
  IN  [heap |-> [Detach(Detach(h, a.sibling), a.child)
                   EXCEPT !.roots = InsertAt(roots1, right, a.right)],
       left |-> at, right |-> right]

UndoParentIsRoot(h, a) ==
  [h EXCEPT !.sibling[a.sibling] = a.child, !.parent[a.sibling] = a.parent,
            !.sibling[a.child] = a.sibling, !.parent[a.child] = a.parent,
            !.roots = RemoveAt(ReplaceAt(@, a.leftIndex, a.parent), a.rightIndex)]

(* The node p is replaced by s, in both directions; and put back. *)
Lifted(h, p, s) ==
  [Relink(h, h.parent[p], p, s) EXCEPT
     !.parent[s] = h.parent[p],
     !.sibling[s] = h.sibling[p],
     !.sibling[h.sibling[p]] = s]

Lowered(h, c, p, s) ==
  [Relink(h, h.parent[p], s, p) EXCEPT
     !.parent[s] = p, !.sibling[s] = c, !.parent[c] = p, !.sibling[c] = s,
     !.sibling[h.sibling[p]] = p]

(* XOR and OR with the labels T on the nodes of a path. *)
LessLabels(h, path, T) ==
  [h EXCEPT !.terms = [m \in Node |->
     IF m \in path THEN (@[m] \ T) \union (T \ @[m]) ELSE @[m]]]

MoreLabels(h, path, T) ==
  [h EXCEPT !.terms = [m \in Node |-> IF m \in path THEN @[m] \union T ELSE @[m]]]

(* The child becomes a root: before the root it was below, or behind it. *)
SplitRoot(h, root, child) ==
  LET at == CHOOSE k \in DOMAIN h.roots : h.roots[k] = root
      rootFirst == HasSmallestTerminal(h.terms[root], h.terms[child])
      roots1 == IF rootFirst THEN h.roots ELSE ReplaceAt(h.roots, at, child)
      second == IF rootFirst THEN child ELSE root
      right == LowerBound(h, roots1, at, h.terms[second])
  IN  [heap |-> [Detach(h, child) EXCEPT !.roots = InsertAt(roots1, right, second)],
       left |-> at, right |-> right]

DoParentIsInner(h, a) ==
  LET h1 == Lifted(h, a.parent, a.sibling)
      path == PathUp(h1, a.parent)
      h2 == SortChildren(LessLabels(h1, path, h1.terms[a.child]), path)
  IN  SplitRoot(h2, RootOfPath(h2, a.parent), a.child)

UndoParentIsInner(h, a) ==
  LET h1 == Lowered(h, a.child, a.parent, a.sibling)
      path == PathUp(h1, a.parent)
      h2 == SortChildren(MoreLabels(h1, path, h1.terms[a.child]), path)
  IN  [h2 EXCEPT !.roots = RemoveAt(ReplaceAt(@, a.leftIndex, RootOfPath(h2, a.parent)),
                                    a.rightIndex)]

(* What the action remembers of the node child and the nodes around it. *)
EdgeAbove(h, child) ==
  LET p == h.parent[child]
      at == {k \in DOMAIN h.roots : h.roots[k] = p}
  IN  [child |-> child, sibling |-> h.sibling[child], parent |-> p,
       left |-> h.left[p], right |-> h.right[p],
       parentIsRoot |-> at # {},
       leftIndex |-> IF at # {} THEN CHOOSE k \in at : TRUE ELSE 0]

DoDelete(h, a) == IF a.parentIsRoot THEN DoParentIsRoot(h, a) ELSE DoParentIsInner(h, a)

-----------------------------------------------------------------------------
(* CollapseSubtreeAction *)

DoCollapse(h, n) ==
  LET labels == h.terms[n]
      \* the terminals whose own label is met before they leave terminalToLabel
      old == {o \in {h.labelToTerminal[x] : x \in labels} :
                /\ o \in DOMAIN h.terminalToLabel
                /\ h.terminalToLabel[o] =
                     Smallest({x \in labels : h.labelToTerminal[x] = o})}
      gone == {h.labelToTerminal[x] : x \in labels}
      kept == DOMAIN h.terminalToLabel \ gone
  IN  [heap |-> [h EXCEPT
         !.left[n] = Nil, !.right[n] = Nil,
         !.labelToTerminal = [x \in Label |-> IF x \in labels THEN n ELSE @[x]],
         !.terminalToLabel = [m \in kept \union {n} |->
            IF m \in kept THEN @[m] ELSE Smallest(labels)]],
       \* collapsedLabelToTerminals and collapsedTerminals
       labelTerminals |-> [x \in labels |-> h.labelToTerminal[x]],
       terminalLabels |-> [o \in old |-> h.terminalToLabel[o]]]

UndoCollapse(h, a) ==
  LET n == h.labelToTerminal[a.label]
      t2l == [m \in DOMAIN h.terminalToLabel \union DOMAIN a.terminalLabels |->
                IF m \in DOMAIN a.terminalLabels THEN a.terminalLabels[m]
                ELSE h.terminalToLabel[m]]
  IN  [h EXCEPT
         !.left[n] = a.left, !.right[n] = a.right,
         !.parent[a.left] = n, !.parent[a.right] = n,
         !.labelToTerminal = [x \in Label |->
            IF x \in DOMAIN a.labelTerminals THEN a.labelTerminals[x] ELSE @[x]],
         !.terminalToLabel = [m \in DOMAIN t2l \ {n} |-> t2l[m]]]
=============================================================================
