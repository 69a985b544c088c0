--------------------------- MODULE ForestPointers ---------------------------
(***************************************************************************)
(* The two actions every rule of the solver is made of, on the forests of  *)
(* ForestHeap:                                                             *)
(*                                                                         *)
(*   src/src/Solver/Action/DeleteEdgeAction.cpp      cut the edge above a  *)
(*                                                   node, undo the cut    *)
(*   src/src/Solver/Action/CollapseSubtreeAction.cpp make a subtree one    *)
(*                                                   terminal, undo that   *)
(*   src/src/Solver/Context.hpp   per label, the number of forests where   *)
(*                                it is a tree of its own                  *)
(*                                                                         *)
(* The actions of all forests go on one undo stack.  During the search it  *)
(* is popped (LIFO); BranchingSolver::unapplyReductions afterwards takes   *)
(* back the collapses only and leaves the cuts between them in place.      *)
(***************************************************************************)
EXTENDS ForestActions, ForestStore

CONSTANTS
  Tree,       \* the indices of the forests
  Parsed,     \* the forests as they are read
  MaxEdits    \* bound on the length of the undo stack

-----------------------------------------------------------------------------
(* Every label is in one terminal of every forest that is read. *)
ASSUME PointersAssumption ==
  Parsed = [i \in Tree |-> Parsed[i]] /\ \A i \in Tree : Stores(Parsed[i], ForestOf(Parsed[i]))

(* The counters of Context are uint16_t and count forests. *)
ASSUME CountAssumption ==
  /\ IsFiniteSet(Label) /\ IsFiniteSet(Node)
  /\ IsFiniteSet(Tree) /\ Cardinality(Tree) < 65536

Start == [i \in Tree |-> ForestOf(Parsed[i])]

VARIABLES
  heap,       \* per forest: the pointers, terminals, roots and label maps
  svtCount,   \* Context::singleVertexForestCount
  mismatch,   \* Context::singleVertexMismatchCount
  stack,      \* the actions done and not undone, the last one at the end
  trail,      \* auxiliary: the forests before each action of the stack
  final       \* unapplyReductions has begun

vars == <<heap, svtCount, mismatch, stack, trail, final>>

-----------------------------------------------------------------------------
(* Context: labels that are a tree of their own in some but not all forests. *)

IsMismatch(c) == 0 < c /\ c < Cardinality(Tree)

(* adjustSingleVertexForNode, for nodes with the labels S and T (S, T disjoint). *)
AdjustSingleVertex(S, delta) ==
  LET new == [x \in Label |-> IF x \in S THEN (svtCount[x] + delta) % 65536
                              ELSE svtCount[x]]
  IN  /\ svtCount' = new
      /\ mismatch' = mismatch
           + Cardinality({x \in S : IsMismatch(new[x]) /\ ~IsMismatch(svtCount[x])})
           - Cardinality({x \in S : ~IsMismatch(new[x]) /\ IsMismatch(svtCount[x])})

LabelsIf(cond, S) == IF cond THEN S ELSE {}

-----------------------------------------------------------------------------
SingleVertexCount(hs, x) ==
  Cardinality({i \in Tree : \E k \in DOMAIN hs[i].roots :
     LET r == hs[i].roots[k] IN hs[i].left[r] = Nil /\ x \in hs[i].terms[r]})

Init ==
  /\ heap = Parsed
  /\ svtCount = [x \in Label |-> SingleVertexCount(heap, x)]
  /\ mismatch = Cardinality({x \in Label : IsMismatch(svtCount[x])})
  /\ stack = <<>> /\ trail = <<>> /\ final = FALSE

(* The forests without their pointers, as ForestEditing sees them. *)
Forests == [i \in Tree |-> ForestOf(heap[i])]

-----------------------------------------------------------------------------
(* What the two actions remember of what they did to forest i. *)
DeleteRecord(h, i, child) ==
  LET a == EdgeAbove(h, child)
      done == DoDelete(h, a)
  IN  [kind |-> "delete", tree |-> i, child |-> child, sibling |-> a.sibling,
       parent |-> a.parent, parentIsRoot |-> a.parentIsRoot,
       leftIndex |-> done.left, rightIndex |-> done.right,
       svtChild |-> done.heap.left[child] = Nil,
       svtSibling |-> a.parentIsRoot /\ done.heap.left[a.sibling] = Nil]

CollapseRecord(h, i, n) ==
  LET done == DoCollapse(h, n)
  IN  [kind |-> "collapse", tree |-> i, label |-> Smallest(h.terms[n]),
       left |-> h.left[n], right |-> h.right[n],
       labelTerminals |-> done.labelTerminals, terminalLabels |-> done.terminalLabels,
       svtNode |-> h.parent[n] = Nil]

(* DeleteEdgeAction::doAction for a node of forest i that has a parent. *)
DeleteEdge(i, child) ==
  LET h == heap[i]
      a == DeleteRecord(h, i, child)
  IN  /\ ~final /\ Len(stack) < MaxEdits
      /\ child \in Reachable(h) /\ h.parent[child] # Nil
      /\ heap' = [heap EXCEPT ![i] = DoDelete(h, EdgeAbove(h, child)).heap]
      /\ AdjustSingleVertex(LabelsIf(a.svtChild, h.terms[child])
                              \union LabelsIf(a.svtSibling, h.terms[a.sibling]), 1)
      /\ stack' = Append(stack, a)
      /\ trail' = Append(trail, Forests)
      /\ UNCHANGED final

(* CollapseSubtreeAction::doAction for an inner node of forest i. *)
Collapse(i, n) ==
  LET h == heap[i]
      a == CollapseRecord(h, i, n)
  IN  /\ ~final /\ Len(stack) < MaxEdits
      /\ n \in Reachable(h) /\ h.left[n] # Nil
      /\ heap' = [heap EXCEPT ![i] = DoCollapse(h, n).heap]
      /\ AdjustSingleVertex(LabelsIf(a.svtNode, h.terms[n]), 1)
      /\ stack' = Append(stack, a)
      /\ trail' = Append(trail, Forests)
      /\ UNCHANGED final

(* A slip: the sibling of a child of a root is not counted back. *)
UndoDeleteOfChild(a) ==
  LET h == heap[a.tree]
  IN  /\ AdjustSingleVertex(LabelsIf(a.svtChild, h.terms[a.child]), -1)
      /\ heap' = [heap EXCEPT ![a.tree] =
                    IF a.parentIsRoot THEN UndoParentIsRoot(h, a)
                    ELSE UndoParentIsInner(h, a)]

(* DeleteEdgeAction::undoAction *)
UndoDelete(a) ==
  LET h == heap[a.tree]
  IN  /\ AdjustSingleVertex(LabelsIf(a.svtChild, h.terms[a.child])
                              \union LabelsIf(a.svtSibling, h.terms[a.sibling]), -1)
      /\ heap' = [heap EXCEPT ![a.tree] =
                    IF a.parentIsRoot THEN UndoParentIsRoot(h, a)
                    ELSE UndoParentIsInner(h, a)]

(* CollapseSubtreeAction::undoAction, which looks its node up again. *)
UndoCollapseAction(a) ==
  LET h == heap[a.tree]
  IN  /\ AdjustSingleVertex(LabelsIf(a.svtNode, h.terms[h.labelToTerminal[a.label]]), -1)
      /\ heap' = [heap EXCEPT ![a.tree] = UndoCollapse(h, a)]

(* The unapply of a rule undoes the action done last. *)
Undo ==
  /\ ~final
  /\ stack # <<>>
  /\ \/ Last(stack).kind = "delete" /\ UndoDelete(Last(stack))
     \/ Last(stack).kind = "collapse" /\ UndoCollapseAction(Last(stack))
  /\ stack' = Front(stack)
  /\ trail' = Front(trail)
  /\ UNCHANGED final

(* unapplyReductions: the last collapse not yet undone; the cuts stay. *)
UnapplyReduction ==
  \E k \in DOMAIN stack :
     /\ stack[k].kind = "collapse"
     /\ \A j \in k+1..Len(stack) : stack[j].kind = "delete"
     /\ UndoCollapseAction(stack[k])
     /\ stack' = RemoveAt(stack, k)
     /\ final' = TRUE
     /\ UNCHANGED trail

Next ==
  \/ \E i \in Tree : \E n \in Node : DeleteEdge(i, n)
  \/ \E i \in Tree : \E n \in Node : Collapse(i, n)
  \/ Undo
  \/ UnapplyReduction

Spec == Init /\ [][Next]_vars

-----------------------------------------------------------------------------
(***************************************************************************)
(* The pointers, the order of children and roots, and both label maps fit  *)
(* together after every edit and every undo, in order or not.  A stale     *)
(* sibling, a root list out of order or a label left pointing at a hidden  *)
(* node would break it (src/src/Graph/Forest.cpp isValid, checkTriple).    *)
(***************************************************************************)
PointersAgree == \A i \in Tree : IsValid(heap[i])

(***************************************************************************)
(* The counts that SingleVertexTreePropagationRule trusts instead of a     *)
(* scan are what a scan would find, at every point of the search: the do   *)
(* and undo of the two actions keep them exact across forests.             *)
(***************************************************************************)
CountsExact ==
  ~final =>
    /\ \A x \in Label : svtCount[x] = SingleVertexCount(heap, x)
    /\ mismatch = Cardinality({x \in Label :
                     IsMismatch(SingleVertexCount(heap, x))})

(***************************************************************************)
(* The pointer surgery implements ForestEditing: each do is the abstract   *)
(* edit, each undo gives back the forests of before, and the final undo of *)
(* a collapse, with later cuts left in place, only expands its terminal.   *)
(***************************************************************************)
Abstract == INSTANCE ForestEditing
              WITH forest <- Forests, history <- trail, final <- final

Implements == Abstract!Spec
=============================================================================
