--------------------------- MODULE SolverPipeline ---------------------------
(***************************************************************************)
(* runOnStream of src/src/startSolver.cpp: the stages of a track, from the *)
(* instance to the printed forest.  The instance is reduced and decoupled, *)
(* one search runs for each cluster, from the bottom up, and everything is *)
(* undone.  A signal may arrive at any time, and on the lower-bound track  *)
(* a second thread computes a better threshold.                            *)
(*                                                                         *)
(* Trees are sets of label sets, solutions partitions of the labels (see   *)
(* ClusterDecomposition).  A search is one step, with the outcomes that    *)
(* BranchingSolver shows it to have.                                       *)
(***************************************************************************)
EXTENDS ClusterDecomposition

CONSTANTS
  Tracks(_),          \* how an instance, a sequence of trees, may be solved
  Instances,
  ValidityConstants,  \* the "#a" lines: a as a fraction and b, or NoLine
  NoLine, NoOutput

(* There is a first tree, the trees have the same labels, each label has a *)
(* leaf, and labels are numbers from 1 on (LabelToTerminalMap of           *)
(* src/src/Graph relies on that).                                          *)
ASSUME PipelineAssumption ==
  \A trees \in Instances :
    /\ 1 \in DOMAIN trees
    /\ LabelsOf(trees[1]) \subseteq Nat \ {0}
    /\ IsFiniteSet(LabelsOf(trees[1])) /\ LabelsOf(trees[1]) # {}
    /\ \A i \in DOMAIN trees :
         /\ IsTree(trees[i]) /\ LabelsOf(trees[i]) = LabelsOf(trees[1])
         /\ \A x \in LabelsOf(trees[1]) : {x} \in trees[i]

(* The multiplier is at least 1 and the offset not negative (Context.hpp). *)
ASSUME ValidityAssumption ==
  \A l \in ValidityConstants \ {NoLine} :
    /\ l.a \in Nat /\ l.denominator \in Nat \ {0} /\ l.b \in Nat
    /\ l.a >= l.denominator

VARIABLES
  track, given,
  line,         \* the "#a" line of the file
  lineFirst,    \* whether it comes before the "#p" line
  pc,           \* what the main thread does next
  reduced,      \* the trees after the reduction
  twins,        \* pointsAndForests_perCluster: the cluster points
  forests,      \* the trees while they are decoupled
  decoupled,    \* the number of points decoupled
  clusters,     \* the clusters, in the order in which they are solved
  index,        \* clusterIndex: the cluster to solve
  cutRoots,     \* cuttedClusterRoots
  pinned,       \* the terminals cut in the cluster before it is solved
  modified,     \* propagationModifiedClusters
  probed,       \* probedSeeds: what was cut when each was computed
  seed,         \* what was cut when the seed of the search was computed
  solutions,    \* the solutions of the clusters solved
  output,
  armed, signalled,  \* the handler is installed; g_timeout
  threshold, boundThread, boundStop,  \* certifiedThreshold; lbThread; lbStop
  candidates,   \* auxiliary: the solutions of the cluster to solve
  optimum       \* auxiliary: the least number of components

input == <<track, line, lineFirst, given, optimum>>
decomposition == <<reduced, twins, forests, decoupled, clusters>>
propagation == <<cutRoots, pinned, modified>>
seeding == <<probed, seed, candidates>>
bound == <<threshold, boundThread, boundStop>>
vars == <<input, pc, decomposition, index, propagation, seeding, solutions, output,
          armed, signalled, bound>>

-----------------------------------------------------------------------------
(* The presets of SolverConfig.hpp. *)
HasClusterStage == track # "lower-bound"
EnableSigterm == track \in {"heuristic", "pipeline"}
SliceBudget == track = "heuristic"
CertifiedEarlyExit == track = "lower-bound"

(* A slip: rounded up. *)
CertifiedCeilingRoundedUp(l) == (line.a * l + line.denominator - 1) \div line.denominator + line.b

(* Context::certifiedCeiling *)
CertifiedCeiling(l) == (line.a * l) \div line.denominator + line.b

(* A sound lower bound, as a dual promises. *)
LowerBounds == 1..optimum
-----------------------------------------------------------------------------
Init ==
  /\ given \in Instances
  /\ \E trees \in {AsForests(given)} :
       optimum = LeastWeight(trees, LabelsOf(given[1]), 0) \div 2
  /\ track \in Tracks(given)
  /\ line \in (IF track = "lower-bound" THEN ValidityConstants ELSE {NoLine})
  /\ lineFirst \in (IF line = NoLine THEN {FALSE} ELSE BOOLEAN)
  /\ pc = "read"
  /\ reduced = <<>> /\ twins = <<>> /\ forests = <<>> /\ decoupled = 0
  /\ clusters = <<>> /\ index = 1
  /\ cutRoots = {} /\ pinned = {} /\ modified = {}
  /\ probed = <<>> /\ seed = {} /\ candidates = {} /\ solutions = <<>>
  /\ output = NoOutput
  /\ armed = FALSE /\ signalled = FALSE
  /\ threshold = -1 /\ boundThread = "none" /\ boundStop = FALSE

(* The instance is read; ReadInstance looks for an "#a" line until it has  *)
(* met the "#p" line.  With the constants the 3-approximation dual gives a *)
(* first threshold, and a thread goes on to compute the other dual.        *)
Read ==
  /\ pc = "read"
  /\ pc' = "reduce"
  /\ IF ~lineFirst
     THEN UNCHANGED bound
     ELSE /\ \E l3 \in LowerBounds : threshold' = CertifiedCeiling(l3)
          /\ boundThread' = "running"
          /\ UNCHANGED boundStop
  /\ UNCHANGED <<input, decomposition, index, propagation, seeding, solutions, output,
                 armed, signalled>>

(* The labels below the roots of the maximal common subtrees. *)
CommonSubtrees == MaximalCommonRoots(AsForests(given))

(* Every common subtree is collapsed to the terminal of its least label. *)
Reduce ==
  /\ pc = "reduce"
  /\ pc' = IF HasClusterStage THEN "find" ELSE "branch"
  /\ \E kept \in {{SmallestOf(S) : S \in CommonSubtrees}} :
       reduced' = [i \in DOMAIN given |-> {n \intersect kept : n \in given[i]} \ {{}}]
  /\ UNCHANGED <<input, twins, forests, decoupled, clusters, index, propagation, seeding,
                 solutions, output, armed, signalled, bound>>

MaxLabel == MaxLabelOf(given[1])
ClusterTerminals == {ClusterTerminal(MaxLabel, k) : k \in DOMAIN twins}
ClusterRoots == {ClusterRoot(MaxLabel, k) : k \in DOMAIN twins}

FindPoints ==
  /\ pc = "find"
  /\ pc' = "decouple"
  /\ twins' = PointsWithTwins(reduced)
  /\ forests' = [i \in DOMAIN reduced |-> {reduced[i]}]
  /\ UNCHANGED <<input, reduced, decoupled, clusters, index, propagation, seeding, solutions,
                 output, armed, signalled, bound>>

(* decoupleSubtrees: a point and its twins, in every tree.  The points     *)
(* above lose the labels below it.                                         *)
DecoupleNext ==
  /\ pc = "decouple" /\ decoupled < Len(twins)
  /\ LET k == decoupled + 1
         t == ClusterTerminal(MaxLabel, k)
     IN  /\ forests' = [i \in DOMAIN forests |->
                          Decouple(forests[i], twins[k][i], t, ClusterRoot(MaxLabel, k))]
         /\ twins' = [j \in DOMAIN twins |-> [i \in DOMAIN forests |->
              IF j > k THEN WithoutSubtree(twins[j][i], twins[k][i], t) ELSE twins[j][i]]]
         /\ decoupled' = k
  /\ UNCHANGED <<input, pc, reduced, clusters, index, propagation, seeding, solutions, output,
                 armed, signalled, bound>>

(* splitInstance and sortClusters; without points, a single cluster. *)
SplitInstance ==
  /\ pc = "decouple" /\ decoupled = Len(twins)
  /\ pc' = "branch"
  /\ IF twins = <<>>
     THEN clusters' = <<WholeInstance(reduced)>>
     ELSE clusters' \in BottomUp(Split(forests, ClusterTerminals, ClusterRoots))
  /\ forests' = <<>>
  /\ UNCHANGED <<input, reduced, twins, decoupled, index, propagation, seeding, solutions,
                 output, armed, signalled, bound>>

(* The handler is installed, and on a time budget the approximation of     *)
(* every cluster is computed for its weight.                               *)
BeginBranching ==
  /\ pc = "branch"
  /\ pc' = "seed"
  /\ armed' = EnableSigterm
  /\ clusters' = IF HasClusterStage THEN clusters ELSE <<WholeInstance(reduced)>>
  /\ probed' = IF SliceBudget THEN [k \in DOMAIN clusters |-> {}] ELSE <<>>
  /\ UNCHANGED <<input, reduced, twins, forests, decoupled, index, propagation, seed, candidates,
                 solutions, output, signalled, bound>>

Current == clusters[index]

(* What a search can return: agreement forests with the cut terminals cut. *)
Candidates ==
  UNION {{P \in AgreementForestsOver(trees, LabelsOf(Current.trees[1])) :
            \A t \in pinned : {t} \in P} : trees \in {AsForests(Current.trees)}}

Seed ==
  /\ pc = "seed"
  /\ pc' = "solve"
  /\ seed' = IF SliceBudget /\ index \notin modified THEN probed[index] ELSE pinned
  /\ candidates' = Candidates
  /\ UNCHANGED <<input, decomposition, index, propagation, probed, solutions, output,
                 armed, signalled, bound>>
-----------------------------------------------------------------------------
(* The cluster root, which is half a component if it is alone; or 0. *)
RootLabel == IF Current.roots = {} THEN 0 ELSE SmallestOf(Current.roots)

(* A slip: it is a component like the others. *)
PlainWeight(P) == PartitionWeight(P, 0)

SolutionWeight(P) == PartitionWeight(P, RootLabel)

Lightest(S) == {P \in S : \A Q \in S : SolutionWeight(P) <= SolutionWeight(Q)}

(* The search stops when it has seen every branch, when the time is over   *)
(* or its slice is, or when its incumbent is certified.                    *)
MayReturn ==
  Lightest(candidates)
  \union (IF (EnableSigterm /\ signalled) \/ SliceBudget THEN candidates ELSE {})
  \union (IF CertifiedEarlyExit THEN {P \in candidates : Cardinality(P) <= threshold} ELSE {})

Solve ==
  /\ pc = "solve"
  /\ pc' = "next"
  /\ \E P \in MayReturn : solutions' = Append(solutions, P)
  /\ candidates' = {}
  /\ UNCHANGED <<input, decomposition, index, propagation, probed, seed, output,
                 armed, signalled, bound>>

(* collectCuttedClusterRoot *)
RootsCollected ==
  cutRoots \union {r \in Current.roots : {r} \in solutions[index]}

(* A slip: the cluster is not marked. *)
ModifiedIfMarked(cuts) == modified

ModifiedBy(cuts) == IF cuts = {} THEN modified ELSE modified \union {index + 1}

(* ClusterRangeIterator::operator++: the root of the cluster just solved   *)
(* is collected if it is alone; the terminals of such roots are cut in the *)
(* next cluster.                                                           *)
NextCluster ==
  /\ pc = "next"
  /\ cutRoots' = RootsCollected
  /\ index' = index + 1
  /\ IF index = Len(clusters)
     THEN pc' = "unapply" /\ UNCHANGED <<pinned, modified>>
     ELSE /\ pinned' = {t \in clusters[index + 1].terminals : t + 1 \in cutRoots'}
          /\ modified' = ModifiedBy(pinned')
          /\ pc' = "seed"
  /\ UNCHANGED <<input, decomposition, seeding, solutions, output, armed, signalled, bound>>
-----------------------------------------------------------------------------
(* The terminals stand for common subtrees again. *)
Expand(P, subtrees) == {UNION {S \in subtrees : SmallestOf(S) \in B} : B \in P}

(* The solvers are unapplied, last one first, and the forest is printed.   *)
Finish ==
  /\ pc = "unapply"
  /\ pc' = "leave"
  /\ LET merged == UNION {solutions[k] : k \in DOMAIN solutions}
     IN  \E subtrees \in {CommonSubtrees} :
           output' = Expand(CoupleAll(merged, MaxLabel, Len(twins)), subtrees)
  /\ UNCHANGED <<input, decomposition, index, propagation, seeding, solutions,
                 armed, signalled, bound>>

(* A slip: the thread is joined without being told to stop. *)
LeaveWaiting ==
  /\ pc = "leave"
  /\ pc' = "join"
  /\ UNCHANGED <<input, decomposition, index, propagation, seeding, solutions, output,
                 armed, signalled, bound>>

(* The destructor of LbJoiner. *)
Leave ==
  /\ pc = "leave"
  /\ pc' = "join"
  /\ boundStop' = TRUE
  /\ UNCHANGED <<input, decomposition, index, propagation, seeding, solutions, output,
                 armed, signalled, threshold, boundThread>>

Join ==
  /\ pc = "join" /\ boundThread # "running"
  /\ pc' = "ended"
  /\ UNCHANGED <<input, decomposition, index, propagation, seeding, solutions, output,
                 armed, signalled, bound>>

Main == Read \/ Reduce \/ FindPoints \/ DecoupleNext \/ SplitInstance \/ BeginBranching
        \/ Seed \/ Solve \/ NextCluster \/ Finish \/ Leave \/ Join
-----------------------------------------------------------------------------
(* SIGTERM sets the flag, or kills a process without a handler for it. *)
Sigterm ==
  /\ pc \notin {"ended", "killed"} /\ ~signalled
  /\ IF armed
     THEN signalled' = TRUE /\ UNCHANGED <<pc, boundThread>>
     ELSE pc' = "killed" /\ boundThread' = "none" /\ UNCHANGED signalled
  /\ UNCHANGED <<input, decomposition, index, propagation, seeding, solutions, output,
                 armed, threshold, boundStop>>

(* The 2-approximation dual is computed; it raises the threshold. *)
FinishBound ==
  /\ boundThread = "running"
  /\ \E l2 \in LowerBounds :
       threshold' = IF CertifiedCeiling(l2) > threshold THEN CertifiedCeiling(l2) ELSE threshold
  /\ boundThread' = "ended"
  /\ UNCHANGED <<input, pc, decomposition, index, propagation, seeding, solutions, output,
                 armed, signalled, boundStop>>

(* It is cancelled. *)
CancelBound ==
  /\ boundThread = "running" /\ boundStop
  /\ boundThread' = "ended"
  /\ UNCHANGED <<input, pc, decomposition, index, propagation, seeding, solutions, output,
                 armed, signalled, threshold, boundStop>>

Next == Main \/ Sigterm \/ FinishBound \/ CancelBound

(* The main thread blocks only in the join.  Computing a lower bound may   *)
(* take for ever, but it looks at the flag that stops it.                  *)
Spec == Init /\ [][Next]_vars /\ WF_vars(Main) /\ WF_vars(CancelBound)
-----------------------------------------------------------------------------
(***************************************************************************)
(* The k-th roots of all trees belong together: every cluster has the same *)
(* labels in each of its trees, each label is in one cluster, and at most  *)
(* one cluster has no root of its own.  splitInstance pairs the roots by   *)
(* their position only.                                                    *)
(***************************************************************************)
ClustersLineUp ==
  /\ \A k \in DOMAIN clusters : \A i \in DOMAIN given :
       LabelsOf(clusters[k].trees[i]) = LabelsOf(clusters[k].trees[1])
  /\ \A j, k \in DOMAIN clusters : j # k =>
       /\ LabelsOf(clusters[j].trees[1]) \intersect LabelsOf(clusters[k].trees[1]) = {}
       /\ clusters[j].roots # {} \/ clusters[k].roots # {}

(***************************************************************************)
(* The seed handed to a search was computed on the cluster as the search   *)
(* finds it, though all seeds may be computed before the first search and  *)
(* a terminal may be cut in between.                                       *)
(***************************************************************************)
SeedsFresh == pc = "solve" => seed = pinned

(***************************************************************************)
(* A cluster root that was left alone has its terminal alone in the        *)
(* cluster above, when both are forgotten.                                 *)
(***************************************************************************)
RootsCutTogether ==
  pc = "unapply" =>
    \A j, k \in DOMAIN clusters : \A r \in clusters[j].roots :
      {r} \in solutions[j] /\ r - 1 \in clusters[k].terminals => {r - 1} \in solutions[k]

(***************************************************************************)
(* Whatever the track and whenever the signal or the end of a slice came,  *)
(* the forest printed is an agreement forest of the trees read.            *)
(***************************************************************************)
PrintedAgrees ==
  output # NoOutput =>
    /\ IsPartition(output, LabelsOf(given[1]))
    /\ \A trees \in {AsForests(given)} : IsAgreementForest(trees, output)

(***************************************************************************)
(* Solving the reduced clusters one by one gives an optimal solution of    *)
(* the trees read, if no search was interrupted and none stopped early.    *)
(***************************************************************************)
PrintedIsOptimal ==
  output # NoOutput /\ ~signalled /\ ~SliceBudget /\ ~lineFirst
    => Cardinality(output) = optimum

(***************************************************************************)
(* On the lower-bound track the number of components is at most a k + b,   *)
(* whichever of the two bounds stopped the search.                         *)
(***************************************************************************)
PrintedIsValid ==
  output # NoOutput /\ line # NoLine
    => line.denominator * (Cardinality(output) - line.b) <= line.a * optimum

(***************************************************************************)
(* The process ends: the thread of the lower bounds, which may never be    *)
(* done, is told to stop before it is waited for.                          *)
(***************************************************************************)
Terminates == <>(pc \in {"ended", "killed"})

(***************************************************************************)
(* README.md of the repository, of the heuristic and lower-bound tracks:   *)
(* "Anytime; stops and prints best on SIGTERM."  Here it is asked only of  *)
(* a signal that arrives once the searches have begun.                     *)
(***************************************************************************)
SigtermPrints ==
  track \in {"heuristic", "lower-bound"} /\ solutions # <<>> => pc # "killed"
=============================================================================
