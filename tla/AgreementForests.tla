-------------------------- MODULE AgreementForests --------------------------
(***************************************************************************)
(* What the solver is to compute, stated without its rules: an agreement   *)
(* forest of some trees is a partition of the labels whose blocks look the *)
(* same in every tree and do not overlap in any.  README.md of the         *)
(* repository and src/src/Graph/Forest.cpp (isTrueSubtreeOf) state it.     *)
(***************************************************************************)
EXTENDS RootedTrees, LaminarForest

(* A tree given by the label sets of its nodes. *)
AsForest(t) == [n \in t |-> n]
AsForests(trees) == [i \in DOMAIN trees |-> AsForest(trees[i])]

(* The nodes of the tree f that join the labels of B. *)
Spanned(f, B) ==
  LET above == {n \in DOMAIN f : B \subseteq f[n]}
  IN  {n \in DOMAIN f : /\ f[n] \intersect B # {}
                        /\ \A m \in above : f[n] \subseteq f[m]}

(* The shape of B in f. *)
Restricted(f, B) == {f[n] \intersect B : n \in Spanned(f, B)}

IsTogether(f, B) == \E n \in DOMAIN f : B \subseteq f[n]

Agrees(trees, B) ==
  \A i \in DOMAIN trees :
    IsTogether(trees[i], B) /\ Restricted(trees[i], B) = Restricted(trees[1], B)

AreApart(f, P) ==
  \E spanned \in {[B \in P |-> Spanned(f, B)]} :
    \A B, C \in P : B = C \/ spanned[B] \intersect spanned[C] = {}

IsAgreementForest(trees, P) ==
  (\A B \in P : Agrees(trees, B)) /\ \A i \in DOMAIN trees : AreApart(trees[i], P)

IsPartition(P, X) ==
  /\ UNION P = X
  /\ \A B, C \in P : B # {} /\ (B = C \/ B \intersect C = {})

(* The partitions of the labels X: a block with some x, and the others. *)
Partitions(X) ==
  LET partition[S \in SUBSET X] ==
        IF S = {} THEN {{}}
        ELSE LET x == CHOOSE y \in S : TRUE
             IN  UNION {{{B} \union P : P \in partition[S \ B]} :
                          B \in {C \in SUBSET S : x \in C}}
  IN  partition[X]

(* Twice the number of components, less one if the label rho is alone. *)
PartitionWeight(P, rho) == 2 * Cardinality(P) - (IF {rho} \in P THEN 1 ELSE 0)

AgreementForestsOver(trees, X) ==
  {P \in Partitions(X) : IsAgreementForest(trees, P)}

LeastWeights(trees, X, rho) ==
  UNION {{w \in weights : \A v \in weights : w <= v} :
           weights \in {{PartitionWeight(P, rho) : P \in AgreementForestsOver(trees, X)}}}

LeastWeight(trees, X, rho) == CHOOSE w \in LeastWeights(trees, X, rho) : TRUE
-----------------------------------------------------------------------------
(* The subtree below n. *)
Shape(f, n) == {f[m] : m \in {k \in DOMAIN f : f[k] \subseteq f[n]}}

(* The roots in the first tree of the subtrees that are the same in all. *)
CommonRoots(trees) ==
  {n \in DOMAIN trees[1] :
     \A i \in DOMAIN trees : \E m \in DOMAIN trees[i] :
        trees[i][m] = trees[1][n] /\ Shape(trees[i], m) = Shape(trees[1], n)}

MaximalCommonRoots(trees) ==
  UNION {{n \in common : \A k \in common : ~Below(trees[1], n, k)} :
           common \in {CommonRoots(trees)}}
=============================================================================
