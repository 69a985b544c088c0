-------------------------- MODULE MCForestEditing --------------------------
(* Two forests: a tree of three labels beside a single vertex, and a      *)
(* caterpillar.  Every edit removes a node, so no bound is needed.         *)
EXTENDS ForestEditing, TLC

MCLabel == 1..4
MCTree == 1..2
MCNode == 1..7

Leaf(x) == x :> {x}
Leaves == Leaf(1) @@ Leaf(2) @@ Leaf(3) @@ Leaf(4)

(* ((1,3),4) and 2 *)
Split == Leaves @@ 5 :> {1, 3} @@ 6 :> {1, 3, 4}
(* ((1,2),(3,4)) *)
Balanced == Leaves @@ 5 :> {1, 2} @@ 6 :> {3, 4} @@ 7 :> {1, 2, 3, 4}

MCStart == <<Split, Balanced>>
=============================================================================
