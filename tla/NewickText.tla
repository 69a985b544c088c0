----------------------------- MODULE NewickText -----------------------------
(***************************************************************************)
(* Reading and writing forests: src/src/Graph/ForestIO.cpp ReadNewick and  *)
(* WriteNewick.  A text is a sequence of symbols and labels, one tree      *)
(* after the other, each with a semicolon at its end.                      *)
(***************************************************************************)
EXTENDS ForestHeap

Symbol(s) == [kind |-> s, label |-> 0]
LabelToken(x) == [kind |-> "label", label |-> x]

-----------------------------------------------------------------------------
(* WriteNewick: a walk along the pointers, from the root and back to it. *)

WalkDown(h, s) ==
  IF h.left[s.at] # Nil
  THEN [s EXCEPT !.text = Append(@, Symbol("(")), !.at = h.left[@]]
  ELSE [s EXCEPT !.text = Append(@, LabelToken(h.terminalToLabel[s.at])), !.down = FALSE]

WalkUp(h, s) ==
  IF s.at = h.left[h.parent[s.at]]
  THEN [s EXCEPT !.text = Append(@, Symbol(",")), !.at = h.sibling[@], !.down = TRUE]
  ELSE [s EXCEPT !.text = Append(@, Symbol(")")), !.at = h.parent[@]]

RECURSIVE Walk(_, _)
Walk(h, s) ==
  IF s.down THEN Walk(h, WalkDown(h, s))
  ELSE IF h.parent[s.at] = Nil THEN Append(s.text, Symbol(";"))
  ELSE Walk(h, WalkUp(h, s))

WriteNewick(h) ==
  FlattenSeq([k \in DOMAIN h.roots |-> Walk(h, [at |-> h.roots[k], down |-> TRUE, text |-> <<>>])])

-----------------------------------------------------------------------------
(* ReadNewick: the state of the reader is the forest so far, the inner     *)
(* nodes that are open, the last child read, and a label not yet a node.   *)

NoForest ==
  [parent |-> [n \in Node |-> Nil], sibling |-> [n \in Node |-> Nil],
   left |-> [n \in Node |-> Nil], right |-> [n \in Node |-> Nil],
   terms |-> [n \in Node |-> {}], roots |-> <<>>,
   labelToTerminal |-> <<>>, terminalToLabel |-> <<>>]

NoInput == [forest |-> NoForest, used |-> {}, open |-> <<>>, sibling |-> Nil,
            root |-> Nil, last |-> Nil, pending |-> 0]

(* addNode: the next node, as a child of the innermost open node. *)
AddNode(s) ==
  LET n == Smallest(Node \ s.used)
      p == IF s.open = <<>> THEN Nil ELSE Last(s.open)
      linked == IF p = Nil THEN s.forest
                ELSE IF s.sibling = Nil
                THEN [s.forest EXCEPT !.parent[n] = p, !.left[p] = n]
                ELSE [s.forest EXCEPT !.parent[n] = p, !.right[p] = n,
                        !.sibling[n] = s.sibling, !.sibling[s.sibling] = n]
  IN  [s EXCEPT !.forest = linked, !.used = @ \union {n}, !.last = n,
                !.root = IF @ = Nil THEN n ELSE @]

(* A pending label becomes a terminal. *)
AddTerminal(s) ==
  LET t == AddNode(s)
  IN  [t EXCEPT !.pending = 0,
                !.forest.terminalToLabel = @ @@ (t.last :> s.pending),
                !.forest.labelToTerminal = @ @@ (s.pending :> t.last)]

OpenSubtree(s) ==
  LET t == AddNode(s) IN [t EXCEPT !.sibling = Nil, !.open = Append(@, t.last)]

NextChild(s) ==
  IF s.pending = 0 THEN s
  ELSE LET t == AddTerminal(s) IN [t EXCEPT !.sibling = t.last]

CloseSubtree(s) ==
  LET t == IF s.pending = 0 THEN s ELSE AddTerminal(s)
  IN  IF t.open = <<>> THEN [t EXCEPT !.sibling = Nil]
      ELSE [t EXCEPT !.sibling = Last(t.open), !.open = Front(@)]

EndTree(s) ==
  LET t == IF s.pending = 0 THEN s ELSE AddTerminal(s)
  IN  [t EXCEPT !.forest.roots = Append(@, t.root),
                !.root = Nil, !.open = <<>>, !.sibling = Nil]

ReadToken(s, token) ==
  CASE token.kind = "(" -> OpenSubtree(s)
    [] token.kind = "," -> NextChild(s)
    [] token.kind = ")" -> CloseSubtree(s)
    [] token.kind = ";" -> EndTree(s)
    [] token.kind = "label" -> [s EXCEPT !.pending = token.label]

(***************************************************************************)
(* sortChildrenAndCollectTerminals.  A node with one child, on which the   *)
(* code crashes, is left as it is.                                         *)
(***************************************************************************)
SortChildrenAndCollectTerminals(h) ==
  LET labels == [n \in Node |-> {x \in DOMAIN h.labelToTerminal :
                                   n \in PathUp(h, h.labelToTerminal[x])}]
      swap == {n \in Node : /\ h.left[n] # Nil /\ h.right[n] # Nil
                            /\ Smallest(labels[h.left[n]]) > Smallest(labels[h.right[n]])}
  IN  [SwapChildren([h EXCEPT !.terms = labels], swap) EXCEPT !.roots = SetToSortSeq(Range(@),
                            LAMBDA a, b : HasSmallestTerminal(labels[a], labels[b]))]

ReadNewick(text) ==
  SortChildrenAndCollectTerminals(FoldLeft(ReadToken, NoInput, text).forest)

-----------------------------------------------------------------------------
(* Forest::operator== *)

RECURSIVE SameSubtree(_, _, _, _)
SameSubtree(g, m, h, n) ==
  \/ /\ Children(g, m) = {} /\ Children(h, n) = {}
     /\ g.terminalToLabel[m] = h.terminalToLabel[n]
  \/ /\ Cardinality(Children(g, m)) = 2 /\ Cardinality(Children(h, n)) = 2
     /\ SameSubtree(g, g.left[m], h, h.left[n])
     /\ SameSubtree(g, g.right[m], h, h.right[n])

SameForest(g, h) ==
  /\ Len(g.roots) = Len(h.roots)
  /\ \A k \in DOMAIN g.roots : SameSubtree(g, g.roots[k], h, h.roots[k])
=============================================================================
