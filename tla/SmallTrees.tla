------------------------------ MODULE SmallTrees ------------------------------
(* The binary trees over small sets of labels, for the model checker. *)
EXTENDS AgreementForests

LargestLabel == 9

(* The trees over a set of labels, a tree as the set of its clusters. *)
TreesOver[X \in SUBSET (1..LargestLabel) \ {{}}] ==
  IF Cardinality(X) = 1 THEN {{X}}
  ELSE UNION {{{X} \union s \union t : s \in TreesOver[A], t \in TreesOver[X \ A]} :
                A \in {B \in SUBSET X \ {X, {}} : SmallestOf(X) \in B}}

(* The labels of t are in order: every cluster is an interval. *)
InOrder(t) ==
  \A n \in t : \A x, z \in n : \A y \in UNION t : x < y /\ y < z => y \in n
=============================================================================
