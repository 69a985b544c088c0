-------------------------- MODULE MCForestPointers --------------------------
(* Two trees over four labels, read from (2,((1,3),4)); and                *)
(* ((4,3),(1,2)); -- a caterpillar and a balanced tree, children unsorted.  *)
EXTENDS ForestPointers, NewickText

MCLabel == 1..4
MCTree == 1..2
MCNode == 1..7

(* A leaf and an inner node of a text, children in any order. *)
Leaf(x) == <<LabelToken(x)>>
Join(s, t) == <<Symbol("(")>> \o s \o <<Symbol(",")>> \o t \o <<Symbol(")")>>
Tree1 == Join(Leaf(2), Join(Join(Leaf(1), Leaf(3)), Leaf(4)))
Tree2 == Join(Join(Leaf(4), Leaf(3)), Join(Leaf(1), Leaf(2)))

MCText == <<Append(Tree1, Symbol(";")), Append(Tree2, Symbol(";"))>>
MCParsed == [i \in MCTree |-> ReadNewick(MCText[i])]

(***************************************************************************)
(* What is printed can be read: the forest read back from the text is the  *)
(* forest printed, with its components and children in the same order, at  *)
(* every point between two edits or undos, in order or not.                *)
(***************************************************************************)
ReadsBack == \A i \in Tree : SameForest(ReadNewick(WriteNewick(heap[i])), heap[i])
=============================================================================
