---------------------------- MODULE Preprocessing ----------------------------
(***************************************************************************)
(* What happens to an instance before it is taken apart: the stages        *)
(* Reduction and Cluster of the pipeline (runOnStream,                     *)
(* src/src/startSolver.cpp).  The subtree reduction runs to its end, and   *)
(* the cluster points are then looked for in what it leaves.  A generator  *)
(* built for an instance that was not reduced is what the tests of         *)
(* src/src/Solver/Cluster do.                                              *)
(***************************************************************************)
EXTENDS SubtreeReduction, ClusterPoints

CONSTANTS Pipelines  \* sequences of "Reduction" and "Cluster"

VARIABLES pipeline   \* the stages still to come

vars == <<pipeline, reductionVars, generatorVars>>

Init ==
  /\ pipeline \in Pipelines
  /\ InitReduction
  /\ InitGenerator

Reduce ==
  /\ pipeline # <<>> /\ Head(pipeline) = "Reduction"
  /\ ReduceNext
  /\ pipeline' = IF reduction' = "done" THEN Tail(pipeline) ELSE pipeline
  /\ UNCHANGED generatorVars

(* A collapsed subtree is a leaf, with the least of its labels. *)
Leaves(f) == {SmallestOf(f[n]) : n \in Terminals(f)}
Reduced(f) ==
  UNION {{f[n] \intersect leaves : n \in DOMAIN f} \ {{}} : leaves \in {Leaves(f)}}

(* ClusterSolver::getClusterPoints *)
BeginCluster ==
  /\ pipeline # <<>> /\ Head(pipeline) = "Cluster"
  /\ \E instance \in {[i \in DOMAIN forest |-> Reduced(forest[i])]} : Begin(instance)
  /\ pipeline' = Tail(pipeline)
  /\ UNCHANGED reductionVars

Generate ==
  /\ GenerateNext
  /\ UNCHANGED <<pipeline, reductionVars>>

Next == Reduce \/ BeginCluster \/ Generate

(* One thread that nothing blocks: what it has begun goes on. *)
Spec == Init /\ [][Next]_vars /\ WF_vars(Reduce)
-----------------------------------------------------------------------------
(***************************************************************************)
(* The walk finds exactly the maximal common subtrees: each label is in    *)
(* one terminal of the reduced instance, that terminal is the same in all  *)
(* trees, and no two terminals could be collapsed further.                 *)
(***************************************************************************)
ReductionIsMaximal ==
  reduction = "done" /\ generator = "idle" => \A i \in DOMAIN forest :
    {forest[i][n] : n \in Terminals(forest[i])} =
      {given[1][n] : n \in MaximalCommonRoots(given)}

(***************************************************************************)
(* The two overlapping entries that answer a query reach over the whole    *)
(* range and no further, and the number found is that of the least common  *)
(* ancestor, for every two nodes.                                          *)
(***************************************************************************)
AncestorsAreLeast ==
  generator = "points" =>
    \A i \in DOMAIN trees : \A n, m \in trees[i] :
      LeastCommonAncestor(i, n, m) = LeastAbove(trees[i], n \union m)

(***************************************************************************)
(* The cluster points are the inner clusters that all trees have, and they *)
(* come in the order in which SolverPipeline decouples them: those below a *)
(* point before it.  After a reduction no subtree below a point is the     *)
(* same in all trees, so that every cluster is worth a search.             *)
(***************************************************************************)
PointsAreCommon ==
  generator = "done" =>
    /\ clusterPoints = PointsInOrder(trees)
    /\ reduction = "done" =>
         \A k \in DOMAIN clusterPoints : \E i \in DOMAIN trees :
           {m \in trees[i] : m \subseteq clusterPoints[k]}
             # {m \in trees[1] : m \subseteq clusterPoints[k]}

(***************************************************************************)
(* The walk ends: a subtree put back because nothing is known of its       *)
(* siblings is not put back for ever.  (The loops of the generator count.) *)
(***************************************************************************)
Reduces == (pipeline # <<>> /\ Head(pipeline) = "Reduction") ~> reduction = "done"
=============================================================================
