--------------------------- MODULE MCPreprocessing ---------------------------
(* Every instance of two trees of five leaves, the leaves of the first in   *)
(* order, and every instance of three trees of four, the leaves of the      *)
(* first and the last in order.  Tours of 13 and 17 nodes have tables with  *)
(* five and six levels.                                                     *)
EXTENDS Preprocessing, SmallTrees

MCInstances ==
  UNION {{AsForests(c) : c \in {d \in [1..k -> TreesOver[1..n]] :
                                   InOrder(d[1]) /\ (k = 3 => InOrder(d[3]))}} :
           <<k, n>> \in {<<2, 5>>, <<3, 4>>}}

(* kNw of src/tests/ReductionSolverTests.cpp: in both trees 1, 6 and 7 hang *)
(* above 5 and what is beside it, once the cherry of 1 and 2 is collapsed.  *)
CooperationTest ==
  LET leaves == {{x} : x \in 1..10}
      chain(below) == {below, below \union 1..2, below \union {1, 2, 6}, below \union {1, 2, 6, 7}}
  IN  {AsForests(<<leaves \union {{4, 9}, {3, 4, 9}, {1, 2}, {8, 10}, 1..10} \union chain({3, 4, 5, 9}),
                   leaves \union {{3, 4}, {1, 2}, {9, 10}, {8, 9, 10}, 1..10} \union chain({3, 4, 5})>>)}

ReductionOnly == {<<"Reduction">>}

(* The presets with a Cluster stage, and the tests of the generator.       *)
MCPipelines == {<<"Reduction", "Cluster">>, <<"Cluster">>}

(***************************************************************************)
(* The reduction loses no optimal solution: an agreement forest of the     *)
(* reduced trees can be as small as one of the trees given.                *)
(***************************************************************************)
KeepsTheOptimum ==
  reduction = "done" /\ generator = "idle" =>
    \A X \in {Leaves(given[1])}, Y \in {Leaves(forest[1])} :
    \A least \in {LeastWeight(given, X, 0)} :
    \A reduced \in {[i \in DOMAIN forest |-> AsForest(Reduced(forest[i]))]} :
      \E P \in Partitions(Y) : IsAgreementForest(reduced, P) /\ PartitionWeight(P, 0) = least

(***************************************************************************)
(* ReductionSolverTests.cpp, "solve() lets SubtreeReductionRule and        *)
(* ChainReductionRule cooperate": fewer than 9 of the 10 terminals of its  *)
(* instance are left.                                                      *)
(***************************************************************************)
RulesCooperate ==
  reduction = "done" => \A i \in DOMAIN forest : Cardinality(Terminals(forest[i])) < 9
=============================================================================
