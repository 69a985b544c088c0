-------------------------- MODULE MCDecoupledForest --------------------------
(* A caterpillar and two other trees over five labels, children unsorted. *)
EXTENDS DecoupledForest

MCLabel == 1..5
MCNodes == 9
MCPoints == 3
MCNode == 1..18

(* A leaf and an inner node of a text, children in any order. *)
Leaf(x) == <<LabelToken(x)>>
Join(s, t) == <<Symbol("(")>> \o s \o <<Symbol(",")>> \o t \o <<Symbol(")")>>
Line(s) == Append(s, Symbol(";"))

MCTexts == {
  Line(Join(Leaf(3), Join(Join(Join(Leaf(4), Leaf(2)), Leaf(5)), Leaf(1)))),
  Line(Join(Join(Leaf(4), Leaf(5)), Join(Leaf(2), Join(Leaf(3), Leaf(1))))),
  Line(Join(Join(Join(Leaf(1), Leaf(5)), Join(Leaf(2), Leaf(3))), Leaf(4)))}
=============================================================================
