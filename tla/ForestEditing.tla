---------------------------- MODULE ForestEditing ----------------------------
(***************************************************************************)
(* What the edit actions of the solver promise (src/src/Solver/Action):    *)
(* the forests of an instance are changed by cutting an edge or collapsing *)
(* a subtree, every change goes on one undo stack, and undoing the last    *)
(* change gives the forests back exactly as they were before it.  At the   *)
(* end of a run (BranchingSolver::unapplyReductions) only the collapses    *)
(* are taken back, out of order: the cuts stay.                            *)
(*                                                                         *)
(* This is the abstract specification.  Module ForestPointers, which has   *)
(* the pointers, root lists and label maps of the code, implements it.     *)
(***************************************************************************)
EXTENDS Integers, Sequences, FiniteSets, LaminarForest

CONSTANTS
  Label,      \* the labels of the instance
  Node,       \* the nodes allocated for its forests
  Tree,       \* the indices of its forests
  Start       \* the forests the solver starts from

IsForest(f) == DOMAIN f \subseteq Node /\ f \in [DOMAIN f -> SUBSET Label]

(* One forest for every tree of the input. *)
IsInstance(g) == g = [i \in Tree |-> g[i]] /\ \A i \in Tree : IsForest(g[i])

ASSUME NodeAssumption == IsFiniteSet(Node)

ASSUME StartAssumption ==
  /\ IsInstance(Start)
  /\ \A i \in Tree : WellFormed(Start[i], Label)

VARIABLES
  forest,     \* [Tree -> forest]
  history,    \* the earlier values of forest, the last one on top
  final       \* the search is over and collapses are being taken back

vars == <<forest, history, final>>

Init ==
  /\ forest = Start
  /\ history = <<>>
  /\ final = FALSE

(* The constructor of DeleteEdgeAction refuses a node without a parent. *)
DeleteEdge(i, n, p) ==
  /\ ~final
  /\ IsParent(forest[i], p, n)
  /\ forest' = [forest EXCEPT ![i] = CutEdge(@, n, p)]
  /\ history' = Append(history, forest)
  /\ UNCHANGED final

Collapse(i, n) ==
  /\ ~final
  /\ ~IsTerminal(forest[i], n)
  /\ forest' = [forest EXCEPT ![i] = CollapseSubtree(@, n)]
  /\ history' = Append(history, forest)
  /\ UNCHANGED final

Undo ==
  /\ ~final
  /\ history # <<>>
  /\ forest' = history[Len(history)]
  /\ history' = SubSeq(history, 1, Len(history) - 1)
  /\ UNCHANGED final

(***************************************************************************)
(* The terminal n gets back a subtree that it had at an earlier time h.    *)
(* The cuts made since then, above n or elsewhere, are left as they are.   *)
(***************************************************************************)
Expand(i, n, h) ==
  /\ IsTerminal(forest[i], n)
  /\ n \in DOMAIN h[i] /\ h[i][n] = forest[i][n] /\ ~IsTerminal(h[i], n)
  /\ \A m \in DOMAIN h[i] : Below(h[i], m, n) => m \notin DOMAIN forest[i]
  /\ forest' = [forest EXCEPT ![i] = ExpandSubtree(@, h[i], n)]
  /\ final' = TRUE
  /\ UNCHANGED history

Next ==
  \/ \E i \in Tree : \E n, p \in DOMAIN forest[i] : DeleteEdge(i, n, p)
  \/ \E i \in Tree : \E n \in DOMAIN forest[i] : Collapse(i, n)
  \/ Undo
  \/ \E i \in Tree : \E n \in DOMAIN forest[i] :
        \E k \in 1..Len(history) : Expand(i, n, history[k])

Spec == Init /\ [][Next]_vars

-----------------------------------------------------------------------------
(* Forests of allocated nodes and known labels, now and on the undo stack. *)
TypeOK ==
  /\ IsInstance(forest)
  /\ history \in Seq({history[k] : k \in DOMAIN history})
  /\ \A k \in DOMAIN history : IsInstance(history[k])
  /\ final \in BOOLEAN

(***************************************************************************)
(* No edit, undo or final expansion leaves a forest that is not an         *)
(* X-forest: the clusters stay laminar, distinct and binary and the labels *)
(* all stay (src/src/Graph/Forest.cpp isValid, checkTriple).               *)
(***************************************************************************)
ForestsValid == \A i \in Tree : WellFormed(forest[i], Label)

(* The components of forest i, each as the set of its labels. *)
Components(f) == {f[r] : r \in Roots(f)}

(***************************************************************************)
(* One edit adds at most one component, and none goes away but by an undo: *)
(* the number of roots is a lower bound for the rest of the branch, which  *)
(* is what CutBranchRule prunes by.  Taking the collapses back at the end  *)
(* changes no component: the solution that is printed has those the search *)
(* counted (BranchingSolver::unapplyReductions, after the replay).         *)
(***************************************************************************)
EditsOnlySplit ==
  [][/\ Len(history') > Len(history) =>
          \A i \in Tree :
            /\ Cardinality(Roots(forest'[i])) - Cardinality(Roots(forest[i])) \in {0, 1}
            /\ \A c \in Components(forest'[i]) :
                 \E d \in Components(forest[i]) : c \subseteq d
     /\ final' => \A i \in Tree : Components(forest'[i]) = Components(forest[i])]_vars
=============================================================================
