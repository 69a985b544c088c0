--------------------------- MODULE DecoupledForest ---------------------------
(***************************************************************************)
(* How one tree of an instance is taken apart at the cluster points and    *)
(* put together again, pointer by pointer:                                 *)
(*                                                                         *)
(*   src/src/Solver/Action/DecoupleSubtreeAction.cpp   both directions     *)
(*   src/src/Solver/Cluster/ClusterSolver.cpp          their order         *)
(*                                                                         *)
(* Between the two the edges of each cluster are cut, on its own list of   *)
(* roots.  Every action object owns three nodes, which are freed with it   *)
(* when it is undone.  ClusterDecomposition says what the two directions   *)
(* are to achieve, without the pointers.                                   *)
(***************************************************************************)
EXTENDS NewickText, ForestActions

C == INSTANCE ClusterDecomposition

CONSTANTS
  Texts,      \* the trees, as they may be read
  Nodes,      \* the size of the vector of nodes of such a tree
  MaxPoints,  \* bound on the cluster points
  MaxCuts     \* bound on the edges cut

MaxLabel == CHOOSE x \in Label : \A y \in Label : y <= x

(* The nodes of the k-th action. *)
DecoupledSubtreeRoot(k) == Nodes + 3 * k - 2
VirtualSibling(k)       == Nodes + 3 * k - 1
VirtualRoot(k)          == Nodes + 3 * k

ASSUME DecouplingAssumption ==
  /\ Node = 1..VirtualRoot(MaxPoints)
  /\ \A text \in Texts : IsValid(ReadNewick(text))

VARIABLES
  heap,     \* the forest
  phase,    \* "decouple", "solve" and "couple"; "thrown" after an exception
  points,   \* the cluster points, in the order of their decoupling
  open,     \* the size of changesOnF0: decouplings done and not undone
  pieces,   \* the roots of each cluster while they are solved
  planned   \* auxiliary: the trees after 0, 1, ... decouplings

vars == <<heap, phase, points, open, pieces, planned>>

NewLabelParentTree(k) == C!ClusterTerminal(MaxLabel, k)
NewLabelSubtree(k)    == C!ClusterRoot(MaxLabel, k)

Xor(S, T) == (S \ T) \union (T \ S)

(* xorLabelPropagation *)
XorLabelPropagation(h, labels, start) ==
  LET path == PathUp(h, start)
  IN  SortChildren([h EXCEPT !.terms = [n \in Node |-> IF n \in path THEN Xor(@[n], labels) ELSE @[n]]],
                   {n \in path : h.left[n] # Nil /\ h.right[n] # Nil})

IndexOf(roots, n) == CHOOSE k \in DOMAIN roots : roots[k] = n

(* The children of n get n as their parent. *)
AdoptChildren(h, n) ==
  [h EXCEPT !.parent = [m \in Node |-> IF m \in Children(h, n) THEN n ELSE @[m]]]

Without(f, keys) == Restrict(f, DOMAIN f \ keys)

-----------------------------------------------------------------------------
(* DecoupleSubtreeAction::doAction *)

(* The copy of the point, its virtual sibling and the root above the two. *)
BuildSubtree(h, point, sub, sib, root, r) ==
  AdoptChildren(
    [h EXCEPT !.left = [@ EXCEPT ![sub] = h.left[point], ![root] = sub, ![point] = Nil],
              !.right = [@ EXCEPT ![sub] = h.right[point], ![root] = sib, ![point] = Nil],
              !.parent = [@ EXCEPT ![sub] = root, ![sib] = root],
              !.sibling = [@ EXCEPT ![sub] = sib, ![sib] = sub],
              !.terms = [@ EXCEPT ![sub] = h.terms[point], ![sib] = {r},
                                  ![root] = Xor(h.terms[point], {r})]],
    sub)

(* The new root goes behind the tree it was part of, or in front of it. *)
WithNewRoot(h, at, root) ==
  LET parentTree == h.roots[at]
  IN  IF HasSmallestTerminal(h.terms[parentTree], h.terms[root])
      THEN InsertAt(h.roots, LowerBound(h, h.roots, at, h.terms[root]), root)
      ELSE LET roots1 == ReplaceAt(h.roots, at, root)
           IN  InsertAt(roots1, LowerBound(h, roots1, at, h.terms[parentTree]), parentTree)

DoDecouple(h, k, point) ==
  LET t == NewLabelParentTree(k)
      r == NewLabelSubtree(k)
      built == BuildSubtree(h, point, DecoupledSubtreeRoot(k), VirtualSibling(k), VirtualRoot(k), r)
      h1 == XorLabelPropagation(built, Xor(h.terms[point], {t}), point)
      at == Smallest({i \in DOMAIN h1.roots : h1.terms[point] \subseteq h1.terms[h1.roots[i]]})
  IN  [h1 EXCEPT !.labelToTerminal = (t :> point) @@ (r :> VirtualSibling(k)) @@ @,
                 !.terminalToLabel = (point :> t) @@ (VirtualSibling(k) :> r) @@ @,
                 !.roots = WithNewRoot(h1, at, VirtualRoot(k))]

-----------------------------------------------------------------------------
(* DecoupleSubtreeAction::undoAction *)

ForgetLabels(h, k, point) ==
  [h EXCEPT !.labelToTerminal = Without(@, {NewLabelParentTree(k), NewLabelSubtree(k)}),
            !.terminalToLabel = Without(@, {point, VirtualSibling(k)})]

(* Slips: the parent tree keeps its place, or always takes the other. *)
RootsKeepingPlace(roots, parentTreeFirst, p, s) == RemoveAt(roots, s)

RootsMoved(roots, parentTreeFirst, p, s) == ReplaceAt(RemoveAt(roots, p), s, roots[p])

(* The root of the subtree goes; the parent tree takes the first place of the two. *)
RootsJoined(roots, parentTreeFirst, p, s) ==
  IF parentTreeFirst THEN RemoveAt(roots, s)
  ELSE ReplaceAt(RemoveAt(roots, p), s, roots[p])

(* The label of a subtree that is a single terminal goes to the point. *)
TakeLabel(h, point, part) ==
  IF part \notin DOMAIN h.terminalToLabel THEN h
  ELSE LET label == h.terminalToLabel[part]
       IN  [h EXCEPT !.labelToTerminal[label] = point,
                     !.terminalToLabel = (point :> label) @@ Without(@, {part})]

UndoWithThrows(h, k) ==
  LET part == h.sibling[VirtualSibling(k)]
  IN  \/ h.sibling[part] # VirtualSibling(k)
      \/ h.parent[VirtualSibling(k)] # VirtualRoot(k) \/ h.parent[part] # VirtualRoot(k)
      \/ h.left[VirtualRoot(k)] # part \/ h.right[VirtualRoot(k)] # VirtualSibling(k)
      \/ VirtualRoot(k) \notin Range(h.roots)

(* undoWithSubtreeRoot: the subtree beside the virtual sibling replaces the point. *)
UndoWithSubtreeRoot(h, k) ==
  LET t == NewLabelParentTree(k)
      point == h.labelToTerminal[t]
      part == h.sibling[VirtualSibling(k)]
      p == Smallest({i \in DOMAIN h.roots : t \in h.terms[h.roots[i]]})
      parentTreeFirst == HasSmallestTerminal(h.terms[h.roots[p]], h.terms[part])
      h1 == [h EXCEPT !.roots = RootsJoined(@, parentTreeFirst, p, IndexOf(@, VirtualRoot(k)))]
      h2 == TakeLabel(ForgetLabels(h1, k, point), point, part)
      h3 == XorLabelPropagation(h2, h.terms[part], point)
  IN  AdoptChildren([h3 EXCEPT !.left[point] = h.left[part], !.right[point] = h.right[part]], point)

(* The temporary DeleteEdgeAction of undoWithoutSubtreeRoot. *)
CutOff(h, point) ==
  IF h.parent[point] = Nil THEN h ELSE DoDelete(h, EdgeAbove(h, point)).heap

UndoWithoutThrows(h, k) ==
  \/ VirtualRoot(k) \in Range(h.roots)
  \/ ~({VirtualSibling(k), h.labelToTerminal[NewLabelParentTree(k)]}
         \subseteq Range(CutOff(h, h.labelToTerminal[NewLabelParentTree(k)]).roots))

(* std::swap of two nodes. *)
SwapNodes(h, m, n) ==
  LET swapped(f) == [f EXCEPT ![m] = f[n], ![n] = f[m]]
  IN  [h EXCEPT !.parent = swapped(@), !.sibling = swapped(@),
                !.left = swapped(@), !.right = swapped(@), !.terms = swapped(@)]

(* The node of the action that may still be a root moves to the point. *)
ReplaceCopy(h, point, sub) ==
  LET swapped == SwapNodes(h, point, sub)
  IN  IF sub \notin Range(h.roots) THEN swapped
      ELSE TakeLabel(AdoptChildren([swapped EXCEPT !.roots = ReplaceAt(@, IndexOf(@, sub), point)],
                                   point),
                     point, sub)

(* undoWithoutSubtreeRoot: the point is cut off and forgotten. *)
UndoWithoutSubtreeRoot(h, k) ==
  LET point == h.labelToTerminal[NewLabelParentTree(k)]
      h1 == CutOff(h, point)
      h2 == [h1 EXCEPT !.roots = SelectSeq(@, LAMBDA n : n \notin {point, VirtualSibling(k)})]
  IN  ReplaceCopy(ForgetLabels(h2, k, point), point, DecoupledSubtreeRoot(k))

UndoThrows(h, k) ==
  \/ h.labelToTerminal[NewLabelSubtree(k)] # VirtualSibling(k)
  \/ h.terminalToLabel[VirtualSibling(k)] # NewLabelSubtree(k)
  \/ IF h.sibling[VirtualSibling(k)] = Nil THEN UndoWithoutThrows(h, k) ELSE UndoWithThrows(h, k)

(* A slip: the subtree is given up whether or not it kept its root. *)
UndoByCutting(h, k) == UndoWithoutSubtreeRoot(h, k)

UndoDecouple(h, k) ==
  IF h.sibling[VirtualSibling(k)] = Nil THEN UndoWithoutSubtreeRoot(h, k)
  ELSE UndoWithSubtreeRoot(h, k)

-----------------------------------------------------------------------------
(* The inner nodes but the root: what a cluster point may be. *)
Inner(h) == {n \in Reachable(h) : h.left[n] # Nil /\ h.parent[n] # Nil}

(* n before m in the order of the generator: bottom-up, left to right. *)
Before(h, n, m) ==
  \/ n # m /\ h.terms[n] \subseteq h.terms[m]
  \/ \E f \in Reachable(h) : /\ h.left[f] # Nil
                             /\ h.terms[n] \subseteq h.terms[h.left[f]]
                             /\ h.terms[m] \subseteq h.terms[h.right[f]]

TreeOf(h, root, forgotten) ==
  {h.terms[n] \ forgotten : n \in {m \in Node : root \in PathUp(h, m) /\ m \in Reachable(h)}}

Init ==
  /\ \E text \in Texts : heap = ReadNewick(text)
  /\ phase = "decouple"
  /\ \E S \in SUBSET Inner(heap) :
       /\ Cardinality(S) \in 1..MaxPoints
       /\ points = SetToSortSeq(S, LAMBDA n, m : Before(heap, n, m))
  /\ open = 0
  /\ pieces = <<>>
  /\ planned = <<{TreeOf(heap, heap.roots[1], {})}>>

(* decoupleSubtrees, for this tree. *)
DecoupleNext ==
  /\ phase = "decouple" /\ open < Len(points)
  /\ LET k == open + 1
         point == points[k]
     IN  /\ heap' = DoDecouple(heap, k, point)
         /\ planned' = Append(planned, C!Decouple(Last(planned), heap.terms[point],
                                NewLabelParentTree(k), NewLabelSubtree(k)))
         /\ open' = k
  /\ UNCHANGED <<phase, points, pieces>>

(* splitInstance: every root becomes a cluster. *)
Split ==
  /\ phase = "decouple" /\ open = Len(points)
  /\ phase' = "solve"
  /\ pieces' = [k \in DOMAIN heap.roots |-> <<heap.roots[k]>>]
  /\ UNCHANGED <<heap, points, open, planned>>

(* buildSingleCluster: the k-th cluster, with its part of the label maps. *)
Piece(k) ==
  LET labels == UNION {heap.terms[n] : n \in Range(pieces[k])}
  IN  [heap EXCEPT
         !.roots = pieces[k],
         !.labelToTerminal = Restrict(@, labels),
         !.terminalToLabel = Restrict(@, {n \in DOMAIN @ : @[n] \in labels})]

Cuts == Len(FlattenSeq(pieces)) - Len(pieces)

(* DeleteEdgeAction::doAction, in the solution of the k-th cluster. *)
CutEdge(k, n) ==
  /\ phase = "solve" /\ Cuts < MaxCuts
  /\ n \in Reachable(Piece(k)) /\ heap.parent[n] # Nil
  /\ LET done == DoDelete(Piece(k), EdgeAbove(Piece(k), n)).heap
     IN  /\ pieces' = [pieces EXCEPT ![k] = done.roots]
         /\ heap' = [done EXCEPT !.roots = heap.roots,
                                 !.labelToTerminal = heap.labelToTerminal,
                                 !.terminalToLabel = heap.terminalToLabel]
  /\ UNCHANGED <<phase, points, open, planned>>

(* mergeCluster *)
Merge ==
  /\ phase = "solve"
  /\ phase' = "couple"
  /\ heap' = [heap EXCEPT !.roots =
                SetToSortSeq(Range(FlattenSeq(pieces)),
                             LAMBDA m, n : HasSmallestTerminal(heap.terms[m], heap.terms[n]))]
  /\ pieces' = <<>>
  /\ UNCHANGED <<points, open, planned>>

(* coupleSubtrees: the last decoupling is undone and its object destroyed. *)
CoupleLast ==
  /\ phase = "couple" /\ open > 0
  /\ IF UndoThrows(heap, open)
     THEN phase' = "thrown" /\ UNCHANGED <<heap, open, planned>>
     ELSE /\ heap' = UndoDecouple(heap, open)
          /\ open' = open - 1
          /\ planned' = Front(planned)
          /\ UNCHANGED phase
  /\ UNCHANGED <<points, pieces>>

Next ==
  \/ DecoupleNext
  \/ Split
  \/ \E k \in DOMAIN pieces : \E n \in Node : CutEdge(k, n)
  \/ Merge
  \/ CoupleLast

Spec == Init /\ [][Next]_vars

-----------------------------------------------------------------------------
(* The labels of the decouplings that were undone, and the nodes freed. *)
Forgotten == {NewLabelParentTree(k) : k \in open+1..Len(points)}
               \union {NewLabelSubtree(k) : k \in open+1..Len(points)}

Freed == UNION {{DecoupledSubtreeRoot(k), VirtualSibling(k), VirtualRoot(k)}
                  : k \in open+1..MaxPoints}

(* The forest without the bits that undoWithSubtreeRoot leaves behind. *)
Cleaned == [heap EXCEPT !.terms = [n \in Node |-> @[n] \ Forgotten]]

(* Once a decoupling is undone nothing leads to the three nodes of its     *)
(* action object, which is destroyed at once, or to its two labels.  The   *)
(* comment in undoWithoutSubtreeRoot asks for this.                        *)
NothingDangles ==
  /\ Freed \intersect Reachable(heap) = {}
  /\ \A n \in Reachable(heap) : {heap.parent[n], heap.sibling[n]} \intersect Freed = {}
  /\ Range(heap.labelToTerminal) \intersect Freed = {}
  /\ DOMAIN heap.terminalToLabel \intersect Freed = {}
  /\ Forgotten \intersect (DOMAIN heap.labelToTerminal \union Range(heap.terminalToLabel)) = {}

(***************************************************************************)
(* No exception is thrown and, but for the bits of forgotten labels, the   *)
(* forest is valid after every decoupling, cut and coupling: pointers,     *)
(* label sets, label maps, the order of children and of roots; and nothing *)
(* leads to what was freed.                                                *)
(***************************************************************************)
PointersFit ==
  /\ phase # "thrown"
  /\ IF phase = "solve" THEN \A k \in DOMAIN pieces : IsValid(Piece(k)) ELSE IsValid(Cleaned)
  /\ NothingDangles

(* The trees of the forest, and its components. *)
Roots == IF phase = "solve" THEN FlattenSeq(pieces) ELSE heap.roots
Trees == {TreeOf([heap EXCEPT !.roots = Roots], r, Forgotten) : r \in Range(Roots)}
Components == {heap.terms[r] \ Forgotten : r \in Range(Roots)}

(***************************************************************************)
(* Whatever was cut in the clusters, every component looks as it does in   *)
(* the tree, or in the part of it that is decoupled still: a subtree comes *)
(* back where it was, and two are never exchanged.                         *)
(***************************************************************************)
KeepsShape ==
  \A tree \in Trees : \E whole \in Last(planned) :
     /\ UNION tree \subseteq UNION whole
     /\ tree = C!Restricted(C!AsForest(whole), UNION tree)

(***************************************************************************)
(* Undoing a decoupling joins the two components that meet at its point,   *)
(* or forgets both labels if the root of the subtree was cut off: what     *)
(* Couple of ClusterDecomposition says, and the pipeline relies on.        *)
(***************************************************************************)
CouplesComponents ==
  [][open' < open =>
       Components' = C!Couple(Components, NewLabelParentTree(open), NewLabelSubtree(open))]_vars
=============================================================================
