------------------------ MODULE SolverPipelineProofs ------------------------
(***************************************************************************)
(* What the stages of a track hand to each other whatever the instance:    *)
(* the seed of a search was computed on the cluster that is searched, and  *)
(* a cluster root that was left alone has its terminal cut above.          *)
(*                                                                         *)
(* They rest on what taking an instance apart keeps: trees that have the   *)
(* same labels still have the same labels when a cluster point is          *)
(* decoupled in each of them, and sorted by their least labels they line   *)
(* up.                                                                     *)
(*                                                                         *)
(* And what is printed: an agreement forest of the trees read, on the      *)
(* lower-bound track with few enough components.  The stages are undone in *)
(* reverse, and each loses nothing of what ClusterDecompositionProofs says *)
(* of agreement forests.                                                   *)
(***************************************************************************)
EXTENDS SolverPipeline, ClusterDecompositionProofs

-----------------------------------------------------------------------------
(* How the instance is taken apart. *)

(* The trees after the reduction have the same labels. *)
ReducedAreTrees ==
  /\ DOMAIN reduced = DOMAIN given
  /\ \E X : /\ X \subseteq LabelsOf(given[1])
            /\ \A i \in DOMAIN reduced : IsTree(reduced[i]) /\ LabelsOf(reduced[i]) = X

(* There is a forest for every tree, and it has a tree. *)
AreForests ==
  /\ DOMAIN forests = DOMAIN given
  /\ Len(twins) \in Nat /\ DOMAIN twins = 1..Len(twins)
  /\ decoupled \in 0..Len(twins)
  /\ \A i \in DOMAIN forests : IsFiniteSet(forests[i]) /\ forests[i] # {}

(* The trees of all forests have the same labels, none that is still to be *)
(* used for a point.                                                       *)
LabelsMatch ==
  /\ \A i \in DOMAIN forests : /\ IsForest(forests[i])
                               /\ LabelSets(forests[i]) = LabelSets(forests[1])
  /\ \A x \in UNION LabelSets(forests[1]) : x \in Nat /\ x <= MaxLabel + 2 * decoupled

(* All trees but one have a cluster root. *)
RootsDiffer ==
  \A L, M \in LabelSets(forests[1]) :
    L # M => L \intersect ClusterRoots # {} \/ M \intersect ClusterRoots # {}

(* A point that is still to be decoupled is a node of every forest. *)
PointsLeft ==
  \A j \in DOMAIN twins : j > decoupled =>
    \E m : /\ m \intersect ClusterRoots = {}
           /\ \A i \in DOMAIN forests : twins[j][i] = m /\ HasNode(forests[i], m)

DecompositionInv ==
  /\ given \in Instances
  /\ pc \in {"read", "reduce", "find"} => decoupled = 0
  /\ pc \in {"read", "reduce", "find", "decouple"} => clusters = <<>>
  /\ pc \in {"find", "decouple", "branch"} => ReducedAreTrees
  /\ pc = "decouple" => AreForests
  /\ pc = "decouple" /\ twins # <<>> => LabelsMatch /\ RootsDiffer /\ PointsLeft
  /\ ClustersLineUp

-----------------------------------------------------------------------------
(* Labels. *)

LEMMA MaxLabelIsGreatest ==
  ASSUME given \in Instances
  PROVE  MaxLabel \in Nat /\ \A x \in LabelsOf(given[1]) : x \in Nat /\ x <= MaxLabel
<1>1. \E x \in LabelsOf(given[1]) : \A y \in LabelsOf(given[1]) : y <= x
  BY PipelineAssumption, GreatestElement
<1>2. LabelsOf(given[1]) \subseteq Nat
  BY PipelineAssumption
<1>3. /\ MaxLabel \in LabelsOf(given[1])
      /\ \A y \in LabelsOf(given[1]) : y <= MaxLabel
  BY <1>1 DEF MaxLabel, MaxLabelOf
<1> QED BY <1>2, <1>3

(* The labels made for the points are numbers, each made once. *)
LEMMA NewLabels ==
  ASSUME given \in Instances, NEW k \in DOMAIN twins, DOMAIN twins \subseteq Nat
  PROVE  /\ ClusterTerminal(MaxLabel, k) = MaxLabel + 2 * k - 1
         /\ ClusterRoot(MaxLabel, k) = MaxLabel + 2 * k
         /\ ClusterRoot(MaxLabel, k) \in ClusterRoots
         /\ ClusterTerminal(MaxLabel, k) \notin ClusterRoots
<1>1. MaxLabel \in Nat
  BY MaxLabelIsGreatest
<1>2. \A j \in Nat : MaxLabel + 2 * k - 1 # MaxLabel + 2 * j
  BY <1>1
<1>3. \A j \in DOMAIN twins : ClusterTerminal(MaxLabel, k) # ClusterRoot(MaxLabel, j)
  BY <1>2 DEF ClusterTerminal, ClusterRoot
<1> QED BY <1>3 DEF ClusterTerminal, ClusterRoot, ClusterRoots

-----------------------------------------------------------------------------
(* Every step keeps the invariant. *)

LEMMA ReduceKeepsTrees ==
  ASSUME DecompositionInv, Reduce
  PROVE  DecompositionInv'
<1>1. /\ pc = "reduce" /\ pc' \in {"find", "branch"}
      /\ UNCHANGED <<given, twins, forests, decoupled, clusters>>
  BY DEF Reduce, input
<1>2. PICK kept :
        reduced' = [i \in DOMAIN given |-> {n \intersect kept : n \in given[i]} \ {{}}]
  BY DEF Reduce
<1>3. ASSUME NEW i \in DOMAIN given
      PROVE  /\ IsTree(reduced'[i])
             /\ LabelsOf(reduced'[i]) = LabelsOf(given[1]) \intersect kept
  <2>1. IsTree(given[i]) /\ LabelsOf(given[i]) = LabelsOf(given[1])
    BY PipelineAssumption DEF DecompositionInv
  <2>2. reduced'[i] = {n \intersect kept : n \in given[i]} \ {{}}
    BY <1>2
  <2> DEFINE v == {n \intersect kept : n \in given[i]} \ {{}}
  <2>3. IsTree(v) /\ LabelsOf(v) = LabelsOf(given[i]) \intersect kept
    BY <2>1, KeptIsTree
  <2>4. reduced'[i] = v
    BY <2>2
  <2> HIDE DEF v
  <2> QED BY <2>1, <2>3, <2>4
<1>4. ReducedAreTrees'
  <2>1. LabelsOf(given[1]) \intersect kept \subseteq LabelsOf(given[1])
    OBVIOUS
  <2>2. DOMAIN reduced' = DOMAIN given
    BY <1>2
  <2> QED BY <1>1, <1>3, <2>1, <2>2 DEF ReducedAreTrees
<1>5. ClustersLineUp'
  BY <1>1 DEF DecompositionInv, ClustersLineUp
<1> QED BY <1>1, <1>4, <1>5 DEF DecompositionInv

LEMMA FindKeepsTrees ==
  ASSUME DecompositionInv, FindPoints
  PROVE  DecompositionInv'
<1>1. /\ pc = "find" /\ pc' = "decouple" /\ UNCHANGED <<given, reduced, decoupled, clusters>>
      /\ twins' = PointsWithTwins(reduced)
      /\ forests' = [i \in DOMAIN reduced |-> {reduced[i]}]
      /\ decoupled = 0
  BY DEF FindPoints, input, DecompositionInv
<1>2. given \in Instances /\ DOMAIN reduced = DOMAIN given /\ 1 \in DOMAIN reduced
  BY <1>1, PipelineAssumption DEF DecompositionInv, ReducedAreTrees
<1>3. PICK X : /\ X \subseteq LabelsOf(given[1])
               /\ \A i \in DOMAIN reduced : IsTree(reduced[i]) /\ LabelsOf(reduced[i]) = X
  BY <1>1 DEF DecompositionInv, ReducedAreTrees
<1>4. IsFiniteSet(reduced[1])
  <2>1. IsFiniteSet(X)
    BY <1>2, <1>3, PipelineAssumption, FS_Subset
  <2> QED BY <1>2, <1>3, <2>1, TreeIsFinite
<1>5. /\ DOMAIN twins' = 1..Len(twins') /\ Len(twins') \in Nat
      /\ \A k \in DOMAIN twins' :
           \E n \in CommonClusters(reduced) : twins'[k] = [i \in DOMAIN reduced |-> n]
  BY <1>1, <1>4, PointsAreNodes
<1>6. AreForests'
  <2>1. decoupled' \in 0..Len(twins')
    BY <1>1, <1>5
  <2>2. DOMAIN forests' = DOMAIN given'
    BY <1>1, <1>2
  <2>3. \A i \in DOMAIN forests' : IsFiniteSet(forests'[i]) /\ forests'[i] # {}
    BY <1>1, FS_Singleton
  <2> QED BY <1>5, <2>1, <2>2, <2>3 DEF AreForests
<1>7. ASSUME twins' # <<>>
      PROVE  LabelsMatch' /\ RootsDiffer' /\ PointsLeft'
  <2>1. MaxLabel' = MaxLabel /\ MaxLabel \in Nat
    BY <1>1, <1>2, MaxLabelIsGreatest DEF MaxLabel
  <2>2. PICK k \in DOMAIN twins' : TRUE
    BY <1>5, <1>7
  <2>3. PICK c \in CommonClusters(reduced) : TRUE
    BY <1>5, <2>2
  <2>4. c \in reduced[1] /\ c # {} /\ c \subseteq LabelsOf(reduced[1])
    BY <1>2, <1>3 DEF CommonClusters, IsTree, LabelsOf
  <2>5. X # {}
    BY <1>2, <1>3, <2>4
  <2>6. \A i \in DOMAIN reduced : IsForest({reduced[i]}) /\ LabelSets({reduced[i]}) = {X}
    BY <1>3, <2>5 DEF IsForest, LabelSets
  <2>7. /\ DOMAIN forests' = DOMAIN reduced
        /\ \A i \in DOMAIN reduced : IsForest(forests'[i]) /\ LabelSets(forests'[i]) = {X}
    BY <1>1, <2>6
  <2>8. \A x \in X : x \in Nat /\ x <= MaxLabel
    BY <1>2, <1>3, MaxLabelIsGreatest
  <2>9. LabelsMatch'
    BY SMTT(30), <1>1, <1>2, <2>1, <2>7, <2>8 DEF LabelsMatch
  <2>10. RootsDiffer'
    BY <1>2, <2>7 DEF RootsDiffer
  <2>11. \A j \in DOMAIN twins' : ClusterRoot(MaxLabel, j) \notin X
    BY <1>5, <2>1, <2>8 DEF ClusterRoot
  <2>12. ClusterRoots' = {ClusterRoot(MaxLabel, j) : j \in DOMAIN twins'}
    BY <2>1 DEF ClusterRoots
  <2>13. ASSUME NEW j \in DOMAIN twins'
         PROVE  \E m : /\ m \intersect ClusterRoots' = {}
                       /\ \A i \in DOMAIN forests' :
                            twins'[j][i] = m /\ HasNode(forests'[i], m)
    <3>1. PICK n \in CommonClusters(reduced) : twins'[j] = [i \in DOMAIN reduced |-> n]
      BY <1>5
    <3>2. \A i \in DOMAIN reduced : n \in reduced[i]
      BY DEF CommonClusters, InEveryTree
    <3>3. n \subseteq X
      BY <1>2, <1>3, <3>2 DEF LabelsOf
    <3>4. n \intersect ClusterRoots' = {}
      BY <2>11, <2>12, <3>3
    <3>5. \A i \in DOMAIN reduced : HasNode(forests'[i], n)
      BY <1>1, <3>2 DEF HasNode
    <3> QED BY <2>7, <3>1, <3>4, <3>5
  <2>14. PointsLeft'
    BY <2>13 DEF PointsLeft
  <2> QED BY <2>9, <2>10, <2>14
<1>8. ReducedAreTrees' /\ ClustersLineUp'
  BY <1>1 DEF DecompositionInv, ReducedAreTrees, ClustersLineUp
<1> QED BY <1>1, <1>2, <1>6, <1>7, <1>8 DEF DecompositionInv

(* A point that is decoupled is the same node in every forest, and the     *)
(* labels made for it are new.                                             *)
NextPoint(n, t, r) ==
  /\ t = ClusterTerminal(MaxLabel, decoupled + 1) /\ r = ClusterRoot(MaxLabel, decoupled + 1)
  /\ t # r /\ t \notin UNION LabelSets(forests[1]) /\ r \notin UNION LabelSets(forests[1])
  /\ n \intersect ClusterRoots = {}
  /\ \A i \in DOMAIN forests : twins[decoupled + 1][i] = n /\ HasNode(forests[i], n)
  /\ \E L \in LabelSets(forests[1]) : n \subseteq L

LEMMA PointDecoupled ==
  ASSUME DecompositionInv, DecoupleNext
  PROVE  \E n, t, r : /\ NextPoint(n, t, r)
                      /\ forests' = [i \in DOMAIN forests |-> Decouple(forests[i], n, t, r)]
<1>1. pc = "decouple" /\ decoupled < Len(twins)
  BY DEF DecoupleNext
<1>2. AreForests /\ given \in Instances
  BY <1>1 DEF DecompositionInv
<1>3. PICK k \in DOMAIN twins : k = decoupled + 1
  BY <1>1, <1>2 DEF AreForests
<1>4. PICK t : t = ClusterTerminal(MaxLabel, k)
  OBVIOUS
<1>5. PICK r : r = ClusterRoot(MaxLabel, k)
  OBVIOUS
<1>6. forests' = [i \in DOMAIN forests |-> Decouple(forests[i], twins[k][i], t, r)]
  BY <1>3, <1>4, <1>5 DEF DecoupleNext
<1>7. LabelsMatch /\ PointsLeft
  BY <1>1, <1>2, <1>3 DEF DecompositionInv, AreForests
<1>8. 1 \in DOMAIN forests /\ MaxLabel \in Nat /\ decoupled \in Nat /\ k \in Nat
  BY <1>3, <1>1, <1>2, PipelineAssumption, MaxLabelIsGreatest DEF AreForests
<1>9. t = MaxLabel + 2 * k - 1 /\ r = MaxLabel + 2 * k
  BY <1>2, <1>4, <1>5, NewLabels DEF AreForests
<1>10. PICK n : /\ n \intersect ClusterRoots = {}
                /\ \A i \in DOMAIN forests : twins[k][i] = n /\ HasNode(forests[i], n)
  <2>1. k > decoupled
    BY <1>3, <1>8
  <2> QED BY <1>7, <2>1 DEF PointsLeft
<1>11. \E L \in LabelSets(forests[1]) : n \subseteq L
  <2>1. PICK u \in forests[1] : n \in u
    BY <1>8, <1>10 DEF HasNode
  <2>2. LabelsOf(u) \in LabelSets(forests[1]) /\ n \subseteq LabelsOf(u)
    BY <2>1 DEF LabelSets, LabelsOf
  <2> QED BY <2>2
<1>12. t # r /\ t \notin UNION LabelSets(forests[1]) /\ r \notin UNION LabelSets(forests[1])
  <2>1. t > MaxLabel + 2 * decoupled /\ r > MaxLabel + 2 * decoupled /\ t # r
    BY <1>3, <1>8, <1>9
  <2>2. \A x \in UNION LabelSets(forests[1]) : x # t /\ x # r
    <3> TAKE x \in UNION LabelSets(forests[1])
    <3>1. x \in Nat /\ x <= MaxLabel + 2 * decoupled
      BY <1>7 DEF LabelsMatch
    <3> QED BY <1>8, <1>9, <2>1, <3>1
  <2> QED BY <2>1, <2>2
<1>13. NextPoint(n, t, r)
  BY <1>3, <1>4, <1>5, <1>10, <1>11, <1>12 DEF NextPoint
<1>14. forests' = [i \in DOMAIN forests |-> Decouple(forests[i], n, t, r)]
  BY <1>6, <1>10
<1> QED BY <1>13, <1>14

(* A point and its twins are the same node in every forest, so the trees   *)
(* that come of it have the same labels.                                   *)
LEMMA DecoupleKeepsTrees ==
  ASSUME DecompositionInv, DecoupleNext
  PROVE  DecompositionInv'
<1>1. /\ pc = "decouple" /\ pc' = "decouple" /\ UNCHANGED <<given, reduced, clusters>>
      /\ decoupled < Len(twins) /\ decoupled' = decoupled + 1
  BY DEF DecoupleNext, input
<1>2. AreForests /\ given \in Instances
  BY <1>1 DEF DecompositionInv
<1>3. PICK k \in DOMAIN twins : k = decoupled + 1
  BY <1>1, <1>2 DEF AreForests
<1>4. PICK n, t, r : /\ NextPoint(n, t, r)
                     /\ forests' = [i \in DOMAIN forests |-> Decouple(forests[i], n, t, r)]
  BY PointDecoupled
<1>5. t = ClusterTerminal(MaxLabel, k) /\ r = ClusterRoot(MaxLabel, k)
  BY <1>3, <1>4 DEF NextPoint
<1>7. twins' = [j \in DOMAIN twins |-> [i \in DOMAIN forests |->
                  IF j > k THEN WithoutSubtree(twins[j][i], twins[k][i], t) ELSE twins[j][i]]]
  BY <1>3, <1>5 DEF DecoupleNext
<1>8. twins # <<>> /\ LabelsMatch /\ RootsDiffer /\ PointsLeft
  BY <1>1, <1>2, <1>3 DEF DecompositionInv, AreForests
<1>9. /\ 1 \in DOMAIN forests /\ MaxLabel \in Nat /\ decoupled \in Nat /\ k \in Nat
      /\ MaxLabel' = MaxLabel /\ k = decoupled + 1
  BY <1>3, <1>1, <1>2, PipelineAssumption, MaxLabelIsGreatest DEF AreForests, MaxLabel
<1>10. t = MaxLabel + 2 * k - 1 /\ r = MaxLabel + 2 * k /\ r \in ClusterRoots /\ t \notin ClusterRoots
  BY <1>2, <1>5, NewLabels DEF AreForests
<1>11. /\ n \intersect ClusterRoots = {}
       /\ \A i \in DOMAIN forests : twins[k][i] = n /\ HasNode(forests[i], n)
  BY <1>3, <1>4 DEF NextPoint
<1>12. PICK L \in LabelSets(forests[1]) : n \subseteq L
  BY <1>4 DEF NextPoint
<1>13. t # r /\ t \notin UNION LabelSets(forests[1]) /\ r \notin UNION LabelSets(forests[1])
  BY <1>4 DEF NextPoint
<1> DEFINE D(i) == Decouple(forests[i], n, t, r)
           Sets == (LabelSets(forests[1]) \ {L}) \union {n \union {r}, (L \ n) \union {t}}
<1>14. ASSUME NEW i \in DOMAIN forests
       PROVE  /\ IsForest(D(i)) /\ LabelSets(D(i)) = Sets
              /\ \A m : HasNode(forests[i], m) => HasNode(D(i), WithoutSubtree(m, n, t))
              /\ IsFiniteSet(D(i)) /\ D(i) # {}
  <2>1. IsForest(forests[i]) /\ LabelSets(forests[i]) = LabelSets(forests[1])
    BY <1>8 DEF LabelsMatch
  <2>2. L \in LabelSets(forests[i]) /\ HasNode(forests[i], n)
    BY <1>11, <2>1
  <2>3. /\ IsForest(D(i)) /\ LabelSets(D(i)) = Sets
        /\ \A m : HasNode(forests[i], m) => HasNode(D(i), WithoutSubtree(m, n, t))
    BY <1>12, <1>13, <2>1, <2>2, DecoupleForest
  <2>4. IsFiniteSet(D(i)) /\ D(i) # {}
    BY <1>2, DecoupleIsFinite DEF AreForests
  <2> QED BY <2>3, <2>4
<1>15. DOMAIN forests' = DOMAIN forests /\ \A i \in DOMAIN forests : forests'[i] = D(i)
  BY <1>4
<1>16. DOMAIN twins' = DOMAIN twins /\ Len(twins') = Len(twins)
  BY <1>2, <1>7 DEF AreForests
<1>17. ClusterRoots' = ClusterRoots
  BY <1>9, <1>16 DEF ClusterRoots
<1> HIDE DEF D
<1>18. AreForests'
  <2>1. decoupled' \in 0..Len(twins')
    BY <1>1, <1>2, <1>16 DEF AreForests
  <2>2. DOMAIN forests' = DOMAIN given'
    BY <1>1, <1>2, <1>15 DEF AreForests
  <2> QED BY <1>2, <1>14, <1>15, <1>16, <2>1, <2>2 DEF AreForests
<1>19. LabelSets(forests'[1]) = Sets
  BY <1>9, <1>14, <1>15
<1>20. LabelsMatch'
  <2>1. \A x \in UNION Sets : x \in UNION LabelSets(forests[1]) \/ x = t \/ x = r
    BY <1>12
  <2>2. \A x \in UNION LabelSets(forests[1]) : x \in Nat /\ x <= MaxLabel + 2 * decoupled
    BY <1>8 DEF LabelsMatch
  <2>3. \A x \in UNION Sets : x \in Nat /\ x <= MaxLabel + 2 * (decoupled + 1)
    <3> HIDE DEF Sets
    <3> QED BY <1>3, <1>9, <1>10, <2>1, <2>2
  <2> HIDE DEF Sets
  <2> QED BY <1>1, <1>9, <1>14, <1>15, <1>19, <2>3 DEF LabelsMatch
<1>21. RootsDiffer'
  <2>1. (n \union {r}) \intersect ClusterRoots # {}
    BY <1>10
  <2>2. L \intersect ClusterRoots # {} => ((L \ n) \union {t}) \intersect ClusterRoots # {}
    BY <1>11
  <2>3. \A M \in LabelSets(forests[1]) :
          M # L => L \intersect ClusterRoots # {} \/ M \intersect ClusterRoots # {}
    BY <1>8, <1>12 DEF RootsDiffer
  <2>4. \A K, M \in Sets :
          K # M => K \intersect ClusterRoots # {} \/ M \intersect ClusterRoots # {}
    BY <1>8, <2>1, <2>2, <2>3 DEF RootsDiffer
  <2> HIDE DEF Sets
  <2> QED BY <1>17, <1>19, <2>4 DEF RootsDiffer
<1>22. PointsLeft'
  <2> SUFFICES ASSUME NEW j \in DOMAIN twins, j > decoupled + 1
               PROVE  \E m : /\ m \intersect ClusterRoots = {}
                             /\ \A i \in DOMAIN forests :
                                  twins'[j][i] = m /\ HasNode(forests'[i], m)
    BY <1>1, <1>15, <1>16, <1>17 DEF PointsLeft
  <2>1. j > k /\ j > decoupled
    BY <1>2, <1>3, <1>9 DEF AreForests
  <2>2. PICK m : /\ m \intersect ClusterRoots = {}
                 /\ \A i \in DOMAIN forests : twins[j][i] = m /\ HasNode(forests[i], m)
    BY <1>8, <2>1 DEF PointsLeft
  <2>3. WithoutSubtree(m, n, t) \intersect ClusterRoots = {}
    BY <1>10, <2>2 DEF WithoutSubtree
  <2>4. \A i \in DOMAIN forests : twins'[j][i] = WithoutSubtree(m, n, t)
    BY <1>7, <1>11, <2>1, <2>2
  <2>5. \A i \in DOMAIN forests : HasNode(forests'[i], WithoutSubtree(m, n, t))
    BY <1>14, <1>15, <2>2
  <2> QED BY <2>3, <2>4, <2>5
<1>23. ReducedAreTrees' /\ ClustersLineUp'
  BY <1>1 DEF DecompositionInv, ReducedAreTrees, ClustersLineUp
<1> QED BY <1>1, <1>2, <1>18, <1>20, <1>21, <1>22, <1>23 DEF DecompositionInv

(* A single cluster has the labels of the trees. *)
LEMMA WholeLinesUp ==
  ASSUME given \in Instances, ReducedAreTrees, clusters' = <<WholeInstance(reduced)>>,
         given' = given
  PROVE  ClustersLineUp'
<1>1. DOMAIN clusters' = 1..1 /\ clusters'[1].trees = reduced
  BY DEF WholeInstance
<1>2. 1 \in DOMAIN given /\ \A i \in DOMAIN given : LabelsOf(reduced[i]) = LabelsOf(reduced[1])
  BY PipelineAssumption DEF ReducedAreTrees
<1>3. \A k \in DOMAIN clusters' : k = 1
  BY <1>1
<1> QED BY <1>1, <1>2, <1>3 DEF ClustersLineUp

LEMMA SplitKeepsTrees ==
  ASSUME DecompositionInv, SplitInstance
  PROVE  DecompositionInv'
<1>1. /\ pc = "decouple" /\ pc' = "branch" /\ UNCHANGED <<given, reduced, twins>>
  BY DEF SplitInstance, input
<1>2. ReducedAreTrees /\ AreForests /\ given \in Instances
  BY <1>1 DEF DecompositionInv
<1>3. 1 \in DOMAIN forests /\ DOMAIN forests = DOMAIN given
  BY <1>2, PipelineAssumption DEF AreForests
<1>4. ClustersLineUp'
  <2>1. CASE twins = <<>>
    <3>1. clusters' = <<WholeInstance(reduced)>>
      BY <2>1 DEF SplitInstance
    <3> QED BY <1>1, <1>2, <3>1, WholeLinesUp DEF ClustersLineUp
  <2>2. CASE twins # <<>>
    <3>1. clusters' \in BottomUp(Split(forests, ClusterTerminals, ClusterRoots))
      BY <2>2 DEF SplitInstance
    <3>2. LabelsMatch /\ RootsDiffer
      BY <1>1, <2>2 DEF DecompositionInv
    <3>3. PICK c \in BottomUp(Split(forests, ClusterTerminals, ClusterRoots)) : c = clusters'
      BY <3>1
    <3>4. /\ \A k \in DOMAIN c : \A i \in DOMAIN forests :
               LabelsOf(c[k].trees[i]) = LabelsOf(c[k].trees[1])
          /\ \A j, k \in DOMAIN c : j # k =>
               /\ LabelsOf(c[j].trees[1]) \intersect LabelsOf(c[k].trees[1]) = {}
               /\ c[j].roots # {} \/ c[k].roots # {}
      <4>1. UNION LabelSets(forests[1]) \subseteq Nat
        BY <3>2 DEF LabelsMatch
      <4>2. \A i \in DOMAIN forests : /\ IsForest(forests[i]) /\ IsFiniteSet(forests[i])
                                      /\ LabelSets(forests[i]) = LabelSets(forests[1])
        BY <1>2, <3>2 DEF LabelsMatch, AreForests
      <4>3. \A L, M \in LabelSets(forests[1]) :
              L # M => L \intersect ClusterRoots # {} \/ M \intersect ClusterRoots # {}
        BY <3>2 DEF RootsDiffer
      <4> QED BY <1>3, <4>1, <4>2, <4>3, SplitLinesUp
    <3> QED BY <1>1, <1>3, <3>3, <3>4 DEF ClustersLineUp
  <2> QED BY <2>1, <2>2
<1> QED BY <1>1, <1>2, <1>4 DEF DecompositionInv, ReducedAreTrees

LEMMA OthersKeepTrees ==
  ASSUME DecompositionInv,
         \/ Read \/ BeginBranching \/ Seed \/ Solve \/ NextCluster \/ Finish \/ Leave \/ Join
         \/ Sigterm \/ FinishBound \/ CancelBound \/ UNCHANGED vars
  PROVE  DecompositionInv'
<1>1. UNCHANGED <<given, reduced, twins, forests, decoupled>>
  BY DEF Read, BeginBranching, Seed, Solve, NextCluster, Finish, Leave, Join, Sigterm,
         FinishBound, CancelBound, vars, input, decomposition
<1>2. CASE BeginBranching
  <2>1. /\ pc = "branch" /\ pc' = "seed"
        /\ clusters' = IF HasClusterStage THEN clusters ELSE <<WholeInstance(reduced)>>
    BY <1>2 DEF BeginBranching
  <2>2. ClustersLineUp'
    BY <1>1, <2>1, WholeLinesUp DEF DecompositionInv, ClustersLineUp
  <2> QED BY <1>1, <2>1, <2>2 DEF DecompositionInv
<1>3. CASE ~BeginBranching
  <2>1. UNCHANGED clusters
    BY <1>3 DEF Read, Seed, Solve, NextCluster, Finish, Leave, Join, Sigterm,
                FinishBound, CancelBound, vars, decomposition
  <2>2. \/ pc' = pc
        \/ pc = "read" /\ pc' = "reduce"
        \/ pc' \in {"seed", "solve", "next", "unapply", "leave", "join", "ended", "killed"}
    BY <1>3 DEF Read, Seed, Solve, NextCluster, Finish, Leave, Join, Sigterm,
                FinishBound, CancelBound, vars
  <2>3. /\ MaxLabel' = MaxLabel /\ ClusterRoots' = ClusterRoots
        /\ ReducedAreTrees' = ReducedAreTrees /\ AreForests' = AreForests
        /\ ClustersLineUp' = ClustersLineUp
    BY <1>1, <2>1 DEF MaxLabel, ClusterRoots, ReducedAreTrees, AreForests, ClustersLineUp
  <2>4. LabelsMatch' = LabelsMatch /\ RootsDiffer' = RootsDiffer /\ PointsLeft' = PointsLeft
    BY <1>1, <2>3 DEF LabelsMatch, RootsDiffer, PointsLeft
  <2> QED BY <1>1, <2>1, <2>2, <2>3, <2>4 DEF DecompositionInv
<1> QED BY <1>2, <1>3

LEMMA DecompositionInit == Init => DecompositionInv
  BY DEF Init, DecompositionInv, ClustersLineUp

LEMMA DecompositionStep == DecompositionInv /\ [Next]_vars => DecompositionInv'
  BY ReduceKeepsTrees, FindKeepsTrees, DecoupleKeepsTrees, SplitKeepsTrees, OthersKeepTrees
     DEF Next, Main

LEMMA AlwaysDecompositionInv == Spec => []DecompositionInv
  BY DecompositionInit, DecompositionStep, PTL DEF Spec

(* The trees that splitInstance pairs by their position have the same      *)
(* labels, no label is in two clusters, and only one cluster has no root.  *)
THEOREM AlwaysClustersLineUp == Spec => []ClustersLineUp
<1>1. DecompositionInv => ClustersLineUp
  BY DEF DecompositionInv
<1> QED BY <1>1, AlwaysDecompositionInv, PTL
-----------------------------------------------------------------------------
(* How the clusters are solved, by what the main thread does next. *)

IsStart == pc \in {"read", "reduce", "find", "decouple", "branch"}
IsSolving == pc \in {"seed", "solve", "next"}

(* Nothing is solved or cut. *)
Untouched ==
  index = 1 /\ cutRoots = {} /\ pinned = {} /\ modified = {} /\ solutions = <<>>

(* There is a cluster, the clusters are in order and their roots numbers. *)
InOrder(c) ==
  /\ Len(c) \in Nat /\ Len(c) >= 1 /\ DOMAIN c = 1..Len(c)
  /\ \A j, k \in DOMAIN c : IsChild(c[j], c[k]) => j < k
  /\ \A k \in DOMAIN c : c[k].roots \subseteq Int

(* A root that is alone is collected once its cluster was left. *)
RootsAreCollected ==
  \A j \in DOMAIN clusters : \A r \in clusters[j].roots :
    j < index /\ {r} \in solutions[j] => r \in cutRoots

(* The terminals of the cluster to solve whose roots are alone are cut. *)
TerminalsArePinned ==
  \A t \in clusters[index].terminals : t + 1 \in cutRoots => t \in pinned

(* Every search can only return the cut terminals alone. *)
CandidatesKeepCuts == \A P \in candidates : \A t \in pinned : {t} \in P

(* RootsCutTogether of the clusters solved. *)
SolvedTogether ==
  \A j, k \in DOMAIN solutions : \A r \in clusters[j].roots :
    {r} \in solutions[j] /\ r - 1 \in clusters[k].terminals => {r - 1} \in solutions[k]

(* There is a solution for each of the first n clusters. *)
AreSolved(n) == (\E S : solutions \in Seq(S)) /\ Len(solutions) = n

Solving ==
  /\ InOrder(clusters)
  /\ index \in 1..Len(clusters)
  /\ index \notin modified => pinned = {}
  /\ SliceBudget => probed = [k \in DOMAIN clusters |-> {}]
  /\ AreSolved(IF pc = "next" THEN index ELSE index - 1)
  /\ pc = "solve" => seed = pinned /\ CandidatesKeepCuts
  /\ RootsAreCollected
  /\ TerminalsArePinned
  /\ SolvedTogether

PipelineInv ==
  /\ IsStart => Untouched
  /\ pc \in {"find", "decouple"} => HasClusterStage
  /\ pc = "branch" /\ HasClusterStage => InOrder(clusters)
  /\ IsSolving => Solving
  /\ pc = "unapply" => AreSolved(Len(clusters)) /\ InOrder(clusters) /\ SolvedTogether

-----------------------------------------------------------------------------
(* Clusters and solutions. *)

(* A single cluster is in order. *)
LEMMA OneClusterInOrder ==
  ASSUME NEW trees
  PROVE  InOrder(<<WholeInstance(trees)>>)
  BY DEF InOrder, IsChild, WholeInstance

(* splitInstance and sortClusters make at least one cluster, bottom up. *)
LEMMA SplitInOrder ==
  ASSUME NEW fs, NEW terminals, NEW roots, roots \subseteq Int,
         IsFiniteSet(fs[1]), fs[1] # {},
         NEW c \in BottomUp(Split(fs, terminals, roots))
  PROVE  InOrder(c)
<1>1. PICK n \in Nat : n = Cardinality(fs[1])
  BY FS_CardinalityType
<1>2. n # 0
  BY <1>1, FS_EmptySet
<1> DEFINE Cluster(k) ==
      LET trees == [i \in DOMAIN fs |-> RootsInOrder(fs[i])[k]]
      IN  [trees |-> trees, roots |-> roots \intersect LabelsOf(trees[1]),
           terminals |-> terminals \intersect LabelsOf(trees[1])]
<1>4. Split(fs, terminals, roots) = {Cluster(k) : k \in 1..n}
  BY <1>1 DEF Split
<1>3. \A d \in Split(fs, terminals, roots) : d.roots \subseteq Int
  <2>1. \A k : Cluster(k).roots = roots \intersect LabelsOf(Cluster(k).trees[1])
    OBVIOUS
  <2>2. \A k : Cluster(k).roots \subseteq Int
    <3> HIDE DEF Cluster
    <3> QED BY <2>1
  <2> HIDE DEF Cluster
  <2> QED BY <1>4, <2>2
<1> HIDE DEF Cluster
<1> DEFINE f == [k \in 1..n |-> Cluster(k)]
           S == Split(fs, terminals, roots)
<1>5. f \in Surjection(1..n, S)
  BY <1>4 DEF Surjection
<1>6. IsFiniteSet(S)
  BY <1>5, FS_Interval, FS_Surjection
<1>7. S # {}
  BY <1>2, <1>4
<1> HIDE DEF f
<1>8. PICK m \in Nat : m = Cardinality(S)
  BY <1>6, FS_CardinalityType
<1>9. m >= 1
  BY <1>6, <1>7, <1>8, FS_EmptySet
<1>10. c \in [1..m -> S] /\ \A i, j \in DOMAIN c : IsChild(c[i], c[j]) => i < j
  BY <1>8 DEF BottomUp, SetToSeqs
<1>11. Len(c) = m /\ DOMAIN c = 1..m
  BY <1>10
<1>12. \A k \in DOMAIN c : c[k].roots \subseteq Int
  BY <1>3, <1>10
<1> QED BY <1>9, <1>10, <1>11, <1>12 DEF InOrder

(* What is appended to the solutions. *)
LEMMA AppendSolution ==
  ASSUME NEW s, NEW P, NEW n \in Nat, \E S : s \in Seq(S), Len(s) = n
  PROVE  /\ \E S : Append(s, P) \in Seq(S)
         /\ Len(Append(s, P)) = n + 1
         /\ DOMAIN s = 1..n /\ DOMAIN Append(s, P) = 1..n + 1
         /\ \A k \in 1..n : Append(s, P)[k] = s[k]
         /\ Append(s, P)[n + 1] = P
<1>1. PICK S : s \in Seq(S)
  OBVIOUS
<1>2. s \in Seq(S \union {P})
  BY <1>1, SeqMonotonic
<1>3. Append(s, P) \in Seq(S \union {P})
  BY <1>2
<1> QED BY <1>2, <1>3
-----------------------------------------------------------------------------
(* Every step keeps the invariant; DecompositionInv says what is split.     *)

LEMMA PipelineInit == Init => PipelineInv
  BY DEF Init, PipelineInv, IsStart, IsSolving, Untouched

LEMMA StartKeepsInv ==
  ASSUME PipelineInv, Read \/ Reduce \/ FindPoints \/ DecoupleNext
  PROVE  PipelineInv'
<1>1. /\ UNCHANGED <<track, index, cutRoots, pinned, modified, solutions>>
      /\ IsStart /\ IsStart' /\ (pc' = "find" => HasClusterStage)
      /\ (pc' = "decouple" => pc \in {"find", "decouple"})
      /\ (pc' = "branch" => ~HasClusterStage)
  BY DEF Read, Reduce, FindPoints, DecoupleNext, input, propagation, IsStart
<1>2. Untouched'
  BY <1>1 DEF PipelineInv, Untouched
<1>3. HasClusterStage' = HasClusterStage
  BY <1>1 DEF HasClusterStage
<1> QED BY <1>1, <1>2, <1>3 DEF PipelineInv, IsStart, IsSolving

LEMMA SplitKeepsInv ==
  ASSUME PipelineInv, DecompositionInv, SplitInstance
  PROVE  PipelineInv'
<1>1. /\ pc = "decouple" /\ pc' = "branch"
      /\ UNCHANGED <<track, index, cutRoots, pinned, modified, solutions>>
  BY DEF SplitInstance, input, propagation
<1>2. AreForests /\ 1 \in DOMAIN forests
  BY <1>1, PipelineAssumption DEF DecompositionInv, AreForests
<1>3. ClusterRoots \subseteq Int
  <2>1. DOMAIN twins \subseteq Int
    BY <1>2 DEF AreForests
  <2>2. MaxLabel \in Nat
    BY MaxLabelIsGreatest DEF DecompositionInv
  <2> QED BY <2>1, <2>2 DEF ClusterRoots, ClusterRoot
<1>4. InOrder(clusters')
  <2>1. CASE twins = <<>>
    BY <2>1, OneClusterInOrder DEF SplitInstance
  <2>2. CASE twins # <<>>
    BY <1>2, <1>3, <2>2, SplitInOrder DEF SplitInstance, AreForests
  <2> QED BY <2>1, <2>2
<1> QED BY <1>1, <1>4 DEF PipelineInv, IsStart, IsSolving, Untouched, HasClusterStage

LEMMA BeginKeepsInv ==
  ASSUME PipelineInv, BeginBranching
  PROVE  PipelineInv'
<1>1. /\ pc = "branch" /\ pc' = "seed" /\ track' = track
      /\ UNCHANGED <<index, cutRoots, pinned, modified, solutions>>
      /\ probed' = IF SliceBudget THEN [k \in DOMAIN clusters |-> {}] ELSE <<>>
      /\ clusters' = IF HasClusterStage THEN clusters ELSE <<WholeInstance(reduced)>>
  BY DEF BeginBranching, input, propagation
<1>2. Untouched
  BY <1>1 DEF PipelineInv, IsStart
<1>3. InOrder(clusters')
  BY <1>1, OneClusterInOrder DEF PipelineInv
<1>4. SliceBudget' => probed' = [k \in DOMAIN clusters' |-> {}]
  BY <1>1 DEF SliceBudget, HasClusterStage
<1>5. AreSolved(0)'
  BY <1>1, <1>2 DEF AreSolved, Untouched
<1>6. Solving'
  BY <1>1, <1>2, <1>3, <1>4, <1>5
     DEF Solving, Untouched, InOrder, RootsAreCollected, TerminalsArePinned, SolvedTogether
<1> QED BY <1>1, <1>6 DEF PipelineInv, IsStart, IsSolving

(* A seed computed before the first search is that of an uncut cluster, and *)
(* it is used for no other.                                                *)
LEMMA SeedKeepsInv ==
  ASSUME PipelineInv, Seed
  PROVE  PipelineInv'
<1>1. /\ pc = "seed" /\ pc' = "solve"
      /\ UNCHANGED <<track, clusters, index, cutRoots, pinned, modified, probed, solutions>>
      /\ seed' = IF SliceBudget /\ index \notin modified THEN probed[index] ELSE pinned
      /\ candidates' = Candidates
  BY DEF Seed, input, decomposition, propagation
<1>2. Solving
  BY <1>1 DEF PipelineInv, IsSolving
<1>3. seed' = pinned
  BY <1>1, <1>2 DEF Solving, InOrder
<1>4. \A P \in Candidates : \A t \in pinned : {t} \in P
  BY DEF Candidates
<1>5. CandidatesKeepCuts'
  BY <1>1, <1>4 DEF CandidatesKeepCuts
<1>6. Solving'
  BY <1>1, <1>2, <1>3, <1>5
     DEF Solving, RootsAreCollected, TerminalsArePinned, SolvedTogether, SliceBudget, AreSolved
<1> QED BY <1>1, <1>2, <1>6 DEF PipelineInv, IsStart, IsSolving

(* The terminal of a root that is alone was cut, for the cluster above is  *)
(* solved later.                                                           *)
LEMMA SolveKeepsInv ==
  ASSUME PipelineInv, Solve
  PROVE  PipelineInv'
<1>1. /\ pc = "solve" /\ pc' = "next"
      /\ UNCHANGED <<track, clusters, index, cutRoots, pinned, modified, probed>>
  BY DEF Solve, input, decomposition, propagation
<1>2. Solving /\ CandidatesKeepCuts
  BY <1>1 DEF PipelineInv, IsSolving, Solving
<1>3. PICK P \in candidates : solutions' = Append(solutions, P)
  BY DEF Solve, MayReturn, Lightest
<1>4. PICK n \in Nat : n = index - 1
  BY <1>2 DEF Solving, InOrder
<1>5. AreSolved(n)
  BY <1>1, <1>2, <1>4 DEF Solving
<1>6. /\ AreSolved(n + 1)'
      /\ DOMAIN solutions = 1..n /\ DOMAIN solutions' = 1..n + 1
      /\ \A k \in 1..n : solutions'[k] = solutions[k]
      /\ solutions'[n + 1] = P
  <2>1. (\E S : solutions \in Seq(S)) /\ Len(solutions) = n
    BY <1>5 DEF AreSolved
  <2>2. PICK s : s = solutions
    OBVIOUS
  <2>3. (\E S : s \in Seq(S)) /\ Len(s) = n
    BY <2>1, <2>2
  <2>4. /\ \E S : Append(s, P) \in Seq(S)
        /\ Len(Append(s, P)) = n + 1
        /\ DOMAIN s = 1..n /\ DOMAIN Append(s, P) = 1..n + 1
        /\ \A k \in 1..n : Append(s, P)[k] = s[k]
        /\ Append(s, P)[n + 1] = P
    BY ZenonT(60), <1>4, <2>3, AppendSolution
  <2> QED BY <1>3, <2>2, <2>4 DEF AreSolved
<1>7. n + 1 = index /\ index \in DOMAIN clusters /\ DOMAIN clusters \subseteq Nat \ {0}
  BY <1>2, <1>4 DEF Solving, InOrder
<1>8. RootsAreCollected'
  <2> SUFFICES ASSUME NEW j \in DOMAIN clusters, NEW r \in clusters[j].roots,
                      j < index, {r} \in solutions'[j]
               PROVE  r \in cutRoots
    BY <1>1 DEF RootsAreCollected
  <2>1. j \in 1..n
    BY <1>4, <1>7
  <2> QED BY <2>1, <1>2, <1>6 DEF Solving, RootsAreCollected
<1>9. SolvedTogether'
  <2> SUFFICES ASSUME NEW j \in 1..n + 1, NEW k \in 1..n + 1, NEW r \in clusters[j].roots,
                      {r} \in solutions'[j], r - 1 \in clusters[k].terminals
               PROVE  {r - 1} \in solutions'[k]
    BY <1>1, <1>6 DEF SolvedTogether
  <2>1. j \in DOMAIN clusters /\ k \in DOMAIN clusters
    BY <1>2, <1>7 DEF Solving, InOrder
  <2>2. IsChild(clusters[j], clusters[k])
    BY DEF IsChild
  <2>3. j < k /\ r \in Int
    BY <2>1, <2>2, <1>2 DEF Solving, InOrder
  <2>4. CASE k = n + 1
    <3>1. j \in 1..n /\ j < index
      BY <2>3, <2>4, <1>7
    <3>2. r \in cutRoots
      BY <3>1, <2>1, <1>2, <1>6 DEF Solving, RootsAreCollected
    <3>3. r - 1 \in pinned
      BY <3>2, <2>3, <2>4, <1>2, <1>7 DEF Solving, TerminalsArePinned
    <3> QED BY <3>3, <2>4, <1>2, <1>6 DEF CandidatesKeepCuts
  <2>5. CASE k # n + 1
    <3>1. j \in 1..n /\ k \in 1..n
      BY <2>3, <2>5
    <3> QED BY <3>1, <1>2, <1>6 DEF Solving, SolvedTogether
  <2> QED BY <2>4, <2>5
<1>10. Solving'
  BY <1>1, <1>2, <1>6, <1>7, <1>8, <1>9
     DEF Solving, TerminalsArePinned, SliceBudget, AreSolved
<1> QED BY <1>1, <1>2, <1>10 DEF PipelineInv, IsStart, IsSolving

LEMMA NextKeepsInv ==
  ASSUME PipelineInv, NextCluster
  PROVE  PipelineInv'
<1>1. /\ pc = "next" /\ UNCHANGED <<track, clusters, probed, solutions>>
      /\ cutRoots' = RootsCollected /\ index' = index + 1
  BY DEF NextCluster, input, decomposition, seeding
<1>2. Solving
  BY <1>1 DEF PipelineInv, IsSolving
<1>3. index \in 1..Len(clusters) /\ Len(clusters) \in Nat /\ DOMAIN clusters = 1..Len(clusters)
  BY <1>2 DEF Solving, InOrder
<1>4. AreSolved(index)
  BY <1>1, <1>2 DEF Solving
<1>5. CASE index = Len(clusters)
  <2>1. pc' = "unapply"
    BY <1>5 DEF NextCluster
  <2>2. AreSolved(Len(clusters))' /\ InOrder(clusters)' /\ SolvedTogether'
    BY <1>1, <1>2, <1>4, <1>5 DEF Solving, AreSolved, InOrder, SolvedTogether
  <2> QED BY <1>1, <2>1, <2>2 DEF PipelineInv, IsStart, IsSolving
<1>6. CASE index # Len(clusters)
  <2>1. /\ pc' = "seed"
        /\ pinned' = {t \in clusters[index + 1].terminals : t + 1 \in cutRoots'}
        /\ modified' = ModifiedBy(pinned')
    BY <1>6 DEF NextCluster
  <2>2. index' \in 1..Len(clusters')
    <3>1. PICK n \in Nat : n = Len(clusters)
      BY <1>3
    <3>2. index \in 1..n /\ index # n
      BY <1>3, <1>6, <3>1
    <3>3. index + 1 \in 1..n
      BY <3>2
    <3> QED BY <1>1, <3>1, <3>3
  <2>3. index' \notin modified' => pinned' = {}
    BY <1>1, <2>1 DEF ModifiedBy
  <2>4. AreSolved(index - 1)'
    BY <1>1, <1>3, <1>4 DEF AreSolved
  <2>5. TerminalsArePinned'
    BY <1>1, <2>1 DEF TerminalsArePinned
  <2>6. RootsAreCollected'
    <3> SUFFICES ASSUME NEW j \in DOMAIN clusters, NEW r \in clusters[j].roots,
                        j < index + 1, {r} \in solutions[j]
                 PROVE  r \in RootsCollected
      BY <1>1 DEF RootsAreCollected
    <3>1. CASE j = index
      BY <3>1 DEF RootsCollected, Current
    <3>2. CASE j < index
      BY <3>2, <1>2 DEF RootsCollected, Solving, RootsAreCollected
    <3> QED BY <1>3, <3>1, <3>2
  <2>7. Solving'
    BY <1>1, <1>2, <2>1, <2>2, <2>3, <2>4, <2>5, <2>6
       DEF Solving, SliceBudget, SolvedTogether
  <2> QED BY <1>1, <2>1, <2>7 DEF PipelineInv, IsStart, IsSolving
<1> QED BY <1>5, <1>6

(* After the last search, on another thread or when the process is killed. *)
LEMMA OtherKeepsInv ==
  ASSUME PipelineInv,
         \/ Finish \/ Leave \/ Join \/ Sigterm \/ FinishBound \/ CancelBound
         \/ UNCHANGED vars
  PROVE  PipelineInv'
<1>1. /\ UNCHANGED <<track, clusters>>
      /\ UNCHANGED <<index, cutRoots, pinned, modified, probed, seed, candidates, solutions>>
  BY DEF Finish, Leave, Join, Sigterm, FinishBound, CancelBound, vars, input, decomposition,
         propagation, seeding
<1>2. pc' = pc \/ pc' \in {"leave", "join", "ended", "killed"}
  BY DEF Finish, Leave, Join, Sigterm, FinishBound, CancelBound, vars
<1>3. CASE pc' = pc
  BY <1>1, <1>3
     DEF PipelineInv, IsStart, IsSolving, Untouched, HasClusterStage, Solving,
         SliceBudget, AreSolved, CandidatesKeepCuts, RootsAreCollected, TerminalsArePinned,
         SolvedTogether, InOrder
<1>4. CASE pc' \in {"leave", "join", "ended", "killed"}
  BY <1>1, <1>4 DEF PipelineInv, IsStart, IsSolving
<1> QED BY <1>2, <1>3, <1>4

LEMMA PipelineStep ==
  PipelineInv /\ DecompositionInv /\ [Next]_vars => PipelineInv'
<1> SUFFICES ASSUME PipelineInv, DecompositionInv, [Next]_vars  PROVE PipelineInv'
  OBVIOUS
<1> QED
  BY StartKeepsInv, SplitKeepsInv, BeginKeepsInv, SeedKeepsInv, SolveKeepsInv, NextKeepsInv,
     OtherKeepsInv DEF Next, Main

LEMMA AlwaysPipelineInv == Spec => []PipelineInv
  BY PipelineInit, PipelineStep, AlwaysDecompositionInv, PTL DEF Spec

-----------------------------------------------------------------------------
(* The seed a search is given was computed on the cluster it searches.     *)
THEOREM AlwaysSeedsFresh == Spec => []SeedsFresh
<1>1. PipelineInv => SeedsFresh
  BY DEF PipelineInv, IsSolving, Solving, SeedsFresh
<1> QED BY <1>1, AlwaysPipelineInv, PTL

(* When the clusters are put together again, a root that is alone in its   *)
(* cluster has its terminal alone in the cluster above.                    *)
THEOREM AlwaysRootsCutTogether == Spec => []RootsCutTogether
<1>1. PipelineInv => RootsCutTogether
  <2> SUFFICES ASSUME PipelineInv, pc = "unapply",
                      NEW j \in DOMAIN clusters, NEW k \in DOMAIN clusters,
                      NEW r \in clusters[j].roots,
                      {r} \in solutions[j], r - 1 \in clusters[k].terminals
               PROVE  {r - 1} \in solutions[k]
    BY DEF RootsCutTogether
  <2>1. AreSolved(Len(clusters)) /\ InOrder(clusters) /\ SolvedTogether
    BY DEF PipelineInv
  <2>2. DOMAIN solutions = DOMAIN clusters
    BY <2>1 DEF AreSolved, InOrder
  <2> QED BY <2>1, <2>2 DEF SolvedTogether
<1> QED BY <1>1, AlwaysPipelineInv, PTL

-----------------------------------------------------------------------------
(* The trees read, as families of label sets. *)

LEMMA InstanceIsFamilies ==
  ASSUME given \in Instances
  PROVE  /\ 1 \in DOMAIN given
         /\ IsFiniteSet(LabelsOf(given[1])) /\ 0 \notin LabelsOf(given[1])
         /\ \A i \in DOMAIN given :
              /\ IsFamily(given[i]) /\ LabelsOf(given[i]) = LabelsOf(given[1])
              /\ \A x \in LabelsOf(given[1]) : {x} \in given[i]
<1>1. ASSUME NEW i \in DOMAIN given
      PROVE  IsFamily(given[i])
  <2>1. IsTree(given[i]) /\ IsFiniteSet(LabelsOf(given[i]))
    BY PipelineAssumption
  <2>2. IsFiniteSet(given[i])
    BY <2>1, TreeIsFinite
  <2> QED BY <2>1, <2>2 DEF IsTree, IsFamily
<1>2. 0 \notin LabelsOf(given[1])
  BY PipelineAssumption
<1> QED BY <1>1, <1>2, PipelineAssumption

(* The reduction leaves labels out. *)
KeptLabels == \E K : reduced = [i \in DOMAIN given |-> Trace(given[i], K)]

(* An agreement forest of the reduced trees with no more than optimum      *)
(* components.                                                             *)
LEMMA ReducedOptimum ==
  ASSUME given \in Instances, KeptLabels,
         optimum = LeastWeight(AsForests(given), LabelsOf(given[1]), 0) \div 2
  PROVE  /\ optimum \in Nat
         /\ IsFiniteSet(LabelsOf(reduced[1])) /\ 0 \notin LabelsOf(reduced[1])
         /\ \A P : P \in AgreementForestsOver(AsForests(reduced), LabelsOf(reduced[1]))
                     => IsPartition(P, LabelsOf(reduced[1]))
         /\ \E P \in AgreementForestsOver(AsForests(reduced), LabelsOf(reduced[1])) :
              Cardinality(P) <= optimum
<1> DEFINE X == LabelsOf(given[1])
<1>1. /\ 1 \in DOMAIN given /\ IsFiniteSet(X) /\ 0 \notin X
      /\ \A i \in DOMAIN given : IsFamily(given[i]) /\ \A x \in X : {x} \in given[i]
  BY InstanceIsFamilies
<1> HIDE DEF X
<1>2. PICK K : reduced = [i \in DOMAIN given |-> Trace(given[i], K)]
  BY DEF KeptLabels
<1>3. PICK P : /\ IsPartition(P, X) /\ AgreesOn(given, P)
               /\ Cardinality(P) = LeastWeight(AsForests(given), X, 0) \div 2
  BY <1>1, LeastWeightIsReached
<1>4. IsFiniteSet(P) /\ Cardinality(P) \in Nat /\ Cardinality(P) = optimum
  BY <1>1, <1>3, PartitionIsFinite DEF X
<1>5. /\ DOMAIN reduced = DOMAIN given
      /\ \A i \in DOMAIN given : reduced[i] = Trace(given[i], K) /\ IsFamily(reduced[i])
  BY <1>1, <1>2, TraceIsFamily
<1>6. LabelsOf(reduced[1]) = X \intersect K
  BY <1>1, <1>5, UnionOfTrace DEF X, LabelsOf
<1>7. IsFiniteSet(X \intersect K) /\ 0 \notin X \intersect K
  BY <1>1, FS_Subset
<1>8. /\ IsPartition(Trace(P, K), X \intersect K)
      /\ IsFiniteSet(Trace(P, K)) /\ Cardinality(Trace(P, K)) <= optimum
  BY <1>3, <1>4, RestrictedPartition
<1>9. AgreesOn(reduced, Trace(P, K))
  <2>1. \A B \in P : B # {}
    BY <1>3 DEF IsPartition
  <2> QED BY <1>1, <1>3, <1>5, <2>1, RestrictionAgrees
<1>10. \A Q : Q \in AgreementForestsOver(AsForests(reduced), X \intersect K)
                <=> IsPartition(Q, X \intersect K) /\ AgreesOn(reduced, Q)
  BY <1>1, <1>5, <1>7, AgreementForestsAre
<1> QED BY <1>4, <1>6, <1>7, <1>8, <1>9, <1>10

-----------------------------------------------------------------------------
(* The lower-bound track: one search, which stops early if it may. *)

IsValid(n) == n \in Int /\ line.denominator * (n - line.b) <= line.a * optimum

(* What the only search begins with. *)
Alone ==
  clusters = <<WholeInstance(reduced)>> /\ index = 1 /\ pinned = {} /\ solutions = <<>>

(* The only search returned a solution with few enough components. *)
SolvedValidly == \E P : solutions = <<P>> /\ IsFiniteSet(P) /\ IsValid(Cardinality(P))

ValidInv ==
  /\ given \in Instances
  /\ optimum = LeastWeight(AsForests(given), LabelsOf(given[1]), 0) \div 2
  /\ line # NoLine =>
       /\ track = "lower-bound" /\ line \in ValidityConstants
       /\ pc \notin {"find", "decouple"} /\ twins = <<>>
       /\ IsValid(threshold)
       /\ pc \in {"branch", "seed", "solve"} => KeptLabels
       /\ pc \in {"seed", "solve"} => Alone
       /\ pc = "solve" =>
            candidates = AgreementForestsOver(AsForests(reduced), LabelsOf(reduced[1]))
       /\ pc = "next" => index = 1 /\ Len(clusters) = 1
       /\ pc \in {"next", "unapply"} => SolvedValidly
       /\ output # NoOutput => IsValid(Cardinality(output))

(* Fewer components are valid too, and so is an optimal solution and what  *)
(* certifiedCeiling makes of a lower bound.                                *)
LEMMA ValidBounds ==
  ASSUME ValidInv, line # NoLine
  PROVE  /\ optimum \in Nat
         /\ \A m, n \in Int : m <= n /\ IsValid(n) => IsValid(m)
         /\ IsValid(optimum) /\ IsValid(-1)
         /\ \A l \in LowerBounds : IsValid(CertifiedCeiling(l))
<1>1. /\ line.a \in Nat /\ line.denominator \in Nat \ {0} /\ line.b \in Nat
      /\ line.a >= line.denominator
  BY ValidityAssumption DEF ValidInv
<1>2. optimum \in Nat
  <2>1. PICK P : /\ IsPartition(P, LabelsOf(given[1]))
                 /\ Cardinality(P) = LeastWeight(AsForests(given), LabelsOf(given[1]), 0) \div 2
    BY InstanceIsFamilies, LeastWeightIsReached DEF ValidInv
  <2> QED BY <2>1, InstanceIsFamilies, PartitionIsFinite DEF ValidInv
<1>3. PICK a \in Nat : a = line.a
  BY <1>1
<1>4. PICK d \in Nat \ {0} : d = line.denominator
  BY <1>1
<1>5. PICK b \in Nat : b = line.b
  BY <1>1
<1>6. PICK k \in Nat : k = optimum
  BY <1>2
<1>7. \A n : IsValid(n) <=> n \in Int /\ d * (n - b) <= a * k
  BY <1>3, <1>4, <1>5, <1>6 DEF IsValid
<1>8. a >= d
  BY <1>1, <1>3, <1>4
<1>9. ASSUME NEW m \in Int, NEW n \in Int, m <= n, IsValid(n)
      PROVE  IsValid(m)
  <2>1. d * (m - b) <= d * (n - b)
    BY <1>9
  <2> QED BY <1>7, <1>9, <2>1
<1>10. IsValid(k)
  <2>1. d * (k - b) <= d * k
    OBVIOUS
  <2>2. d * k <= a * k
    BY <1>8
  <2> QED BY <1>7, <2>1, <2>2
<1>11. IsValid(-1)
  BY <1>6, <1>9, <1>10
<1>12. ASSUME NEW l \in LowerBounds
       PROVE  IsValid(CertifiedCeiling(l))
  <2>1. l \in 1..k
    BY <1>6 DEF LowerBounds
  <2>2. PICK x \in Nat : x = a * l
    BY <2>1
  <2>3. CertifiedCeiling(l) = (x \div d) + b /\ x \div d \in Nat /\ d * (x \div d) <= x
    BY <1>3, <1>4, <1>5, <2>2 DEF CertifiedCeiling
  <2>4. PICK y \in Nat : y = x \div d
    BY <2>3
  <2>5. x <= a * k
    BY <2>1, <2>2
  <2>6. (y + b) - b = y /\ y + b \in Int
    OBVIOUS
  <2> QED BY <1>7, <2>3, <2>4, <2>5, <2>6
<1> QED BY <1>2, <1>6, <1>9, <1>10, <1>11, <1>12

(* What coupling and expanding make of the solution has no more blocks.    *)
LEMMA ExpandNoMore ==
  ASSUME NEW P, IsFiniteSet(P), NEW subtrees
  PROVE  Cardinality(Expand(P, subtrees)) \in Nat
         /\ Cardinality(Expand(P, subtrees)) <= Cardinality(P)
<1> DEFINE f == [B \in P |-> UNION {S \in subtrees : SmallestOf(S) \in B}]
<1>1. f \in Surjection(P, Expand(P, subtrees))
  BY DEF Surjection, Expand
<1> HIDE DEF f
<1> QED BY <1>1, FS_Surjection, FS_CardinalityType

LEMMA ValidInit == Init => ValidInv
<1> SUFFICES ASSUME Init  PROVE ValidInv
  OBVIOUS
<1>1. /\ given \in Instances
      /\ optimum = LeastWeight(AsForests(given), LabelsOf(given[1]), 0) \div 2
  BY DEF Init
<1>2. /\ pc = "read" /\ twins = <<>> /\ threshold = -1 /\ output = NoOutput
      /\ line # NoLine => track = "lower-bound" /\ line \in ValidityConstants
  BY DEF Init
<1>3. ASSUME line # NoLine  PROVE IsValid(-1)
  <2>1. /\ line.a \in Nat /\ line.denominator \in Nat \ {0} /\ line.b \in Nat
        /\ line.a >= line.denominator
    BY <1>2, <1>3, ValidityAssumption
  <2>2. optimum \in Nat
    <3>1. PICK P : /\ IsPartition(P, LabelsOf(given[1]))
                   /\ Cardinality(P) = LeastWeight(AsForests(given), LabelsOf(given[1]), 0) \div 2
      BY <1>1, InstanceIsFamilies, LeastWeightIsReached
    <3> QED BY <1>1, <3>1, InstanceIsFamilies, PartitionIsFinite
  <2>3. line.denominator * (-1 - line.b) <= 0 /\ 0 <= line.a * optimum
    BY <2>1, <2>2
  <2>4. line.denominator * (-1 - line.b) \in Int /\ line.a * optimum \in Int
    BY <2>1, <2>2
  <2> QED BY <2>3, <2>4 DEF IsValid
<1> QED BY <1>1, <1>2, <1>3 DEF ValidInv

(* Before the search. *)
LEMMA StartKeepsValid ==
  ASSUME ValidInv, PipelineInv,
         Read \/ Reduce \/ FindPoints \/ DecoupleNext \/ SplitInstance \/ BeginBranching
  PROVE  ValidInv'
<1>1. UNCHANGED <<track, line, given, optimum, output>>
  BY DEF Read, Reduce, FindPoints, DecoupleNext, SplitInstance, BeginBranching, input
<1>2. \A n : IsValid(n)' <=> IsValid(n)
  BY <1>1 DEF IsValid
<1>3. CASE line = NoLine
  BY <1>1, <1>3 DEF ValidInv
<1>4. CASE line # NoLine
  <2>1. ~FindPoints /\ ~DecoupleNext /\ ~SplitInstance /\ ~HasClusterStage
    BY <1>4 DEF ValidInv, FindPoints, DecoupleNext, SplitInstance, HasClusterStage
  <2>2. CASE Read
    <3>1. pc' = "reduce" /\ twins' = twins
      BY <2>2 DEF Read, decomposition
    <3>2. IsValid(threshold')
      BY <1>4, <2>2, ValidBounds DEF Read, bound, ValidInv
    <3> QED BY <1>1, <1>2, <1>4, <3>1, <3>2 DEF ValidInv
  <2>3. CASE Reduce
    <3>1. pc' = "branch" /\ UNCHANGED <<twins, threshold>>
      BY <2>1, <2>3 DEF Reduce, bound
    <3>2. KeptLabels'
      <4>1. PICK kept :
              reduced' = [i \in DOMAIN given |-> {n \intersect kept : n \in given[i]} \ {{}}]
        BY <2>3 DEF Reduce
      <4>2. reduced' = [i \in DOMAIN given |-> Trace(given[i], kept)]
        BY <4>1 DEF Trace
      <4> QED BY <1>1, <4>2 DEF KeptLabels
    <3> QED BY <1>1, <1>2, <1>4, <3>1, <3>2 DEF ValidInv
  <2>4. CASE BeginBranching
    <3>1. /\ pc = "branch" /\ pc' = "seed" /\ clusters' = <<WholeInstance(reduced)>>
          /\ UNCHANGED <<reduced, twins, threshold, index, pinned, solutions>>
      BY <2>1, <2>4 DEF BeginBranching, bound, propagation
    <3>2. Untouched
      BY <3>1 DEF PipelineInv, IsStart
    <3>3. Alone'
      BY <3>1, <3>2 DEF Alone, Untouched
    <3>4. KeptLabels' <=> KeptLabels
      BY <1>1, <3>1 DEF KeptLabels
    <3> QED BY <1>1, <1>2, <1>4, <3>1, <3>3, <3>4 DEF ValidInv
  <2> QED BY <2>1, <2>2, <2>3, <2>4
<1> QED BY <1>3, <1>4

LEMMA SeedKeepsValid ==
  ASSUME ValidInv, Seed
  PROVE  ValidInv'
<1>1. /\ pc = "seed" /\ pc' = "solve" /\ candidates' = Candidates
      /\ UNCHANGED <<track, line, given, optimum, reduced, twins, clusters, index, pinned,
                     solutions, output, threshold>>
  BY DEF Seed, input, decomposition, propagation, bound
<1>2. \A n : IsValid(n)' <=> IsValid(n)
  BY <1>1 DEF IsValid
<1>3. Alone' = Alone /\ KeptLabels' = KeptLabels
  BY <1>1 DEF Alone, KeptLabels
<1>4. ASSUME Alone
      PROVE  Candidates = AgreementForestsOver(AsForests(reduced), LabelsOf(reduced[1]))
  <2>1. pinned = {} /\ Current.trees = reduced
    BY <1>4 DEF Alone, Current, WholeInstance
  <2> QED BY <2>1 DEF Candidates
<1> QED BY <1>1, <1>2, <1>3, <1>4 DEF ValidInv

(* A lightest solution is no heavier than the optimum restricted to the    *)
(* labels that are left, and one that is no lightest is below the          *)
(* threshold.                                                              *)
LEMMA SolveKeepsValid ==
  ASSUME ValidInv, Solve
  PROVE  ValidInv'
<1>1. /\ pc = "solve" /\ pc' = "next"
      /\ UNCHANGED <<track, line, given, optimum, reduced, twins, clusters, index, pinned,
                     output, threshold>>
  BY DEF Solve, input, decomposition, propagation, bound
<1>2. \A n : IsValid(n)' <=> IsValid(n)
  BY <1>1 DEF IsValid
<1>3. CASE line = NoLine
  BY <1>1, <1>3 DEF ValidInv
<1>4. CASE line # NoLine
  <2> DEFINE X == LabelsOf(reduced[1])
  <2>1. /\ Alone /\ KeptLabels /\ track = "lower-bound"
        /\ candidates = AgreementForestsOver(AsForests(reduced), X)
    BY <1>1, <1>4 DEF ValidInv
  <2>2. /\ IsFiniteSet(X) /\ 0 \notin X
        /\ \A P \in candidates : IsPartition(P, X)
        /\ \E P \in candidates : Cardinality(P) <= optimum
    BY <2>1, ReducedOptimum DEF ValidInv
  <2> HIDE DEF X
  <2>3. PICK P \in MayReturn : solutions' = Append(solutions, P)
    BY DEF Solve
  <2>4. RootLabel = 0
    BY <2>1 DEF RootLabel, Current, Alone, WholeInstance
  <2>5. \A Q \in candidates : /\ IsFiniteSet(Q) /\ Cardinality(Q) \in Nat
                              /\ SolutionWeight(Q) = 2 * Cardinality(Q)
    BY <2>2, <2>4, PartitionIsFinite, WeightIsTwice DEF SolutionWeight
  <2>6. P \in Lightest(candidates) \/ (P \in candidates /\ Cardinality(P) <= threshold)
    BY <2>1 DEF MayReturn, EnableSigterm, SliceBudget
  <2>7. P \in candidates
    BY <2>6 DEF Lightest
  <2>8. IsValid(Cardinality(P))
    <3>1. CASE P \in Lightest(candidates)
      <4>1. PICK Q \in candidates : Cardinality(Q) <= optimum
        BY <2>2
      <4>2. SolutionWeight(P) <= SolutionWeight(Q)
        BY <3>1 DEF Lightest
      <4>3. Cardinality(P) <= optimum
        BY <1>4, <2>5, <2>7, <4>1, <4>2, ValidBounds
      <4> QED BY <1>4, <2>5, <2>7, <4>3, ValidBounds
    <3>2. CASE Cardinality(P) <= threshold
      <4>1. IsValid(threshold) /\ threshold \in Int
        BY <1>4 DEF ValidInv, IsValid
      <4> QED BY <1>4, <2>5, <2>7, <3>2, <4>1, ValidBounds
    <3> QED BY <2>6, <3>1, <3>2
  <2>9. solutions' = <<P>>
    BY <2>1, <2>3 DEF Alone
  <2>10. SolvedValidly'
    BY <1>2, <2>5, <2>7, <2>8, <2>9 DEF SolvedValidly
  <2>11. index' = 1 /\ Len(clusters') = 1
    BY <1>1, <2>1 DEF Alone
  <2> QED BY <1>1, <1>2, <1>4, <2>10, <2>11 DEF ValidInv
<1> QED BY <1>3, <1>4

LEMMA NextKeepsValid ==
  ASSUME ValidInv, NextCluster
  PROVE  ValidInv'
<1>1. /\ pc = "next"
      /\ UNCHANGED <<track, line, given, optimum, twins, clusters, solutions, output, threshold>>
  BY DEF NextCluster, input, decomposition, seeding, bound
<1>2. \A n : IsValid(n)' <=> IsValid(n)
  BY <1>1 DEF IsValid
<1>3. CASE line = NoLine
  BY <1>1, <1>3 DEF ValidInv
<1>4. CASE line # NoLine
  <2>1. pc' = "unapply"
    BY <1>1, <1>4 DEF NextCluster, ValidInv
  <2>2. SolvedValidly' <=> SolvedValidly
    BY <1>1, <1>2 DEF SolvedValidly
  <2> QED BY <1>1, <1>2, <1>4, <2>1, <2>2 DEF ValidInv
<1> QED BY <1>3, <1>4

(* Nothing is coupled. *)
LEMMA FinishKeepsValid ==
  ASSUME ValidInv, Finish
  PROVE  ValidInv'
<1>1. /\ pc = "unapply" /\ pc' = "leave"
      /\ UNCHANGED <<track, line, given, optimum, twins, threshold>>
  BY DEF Finish, input, decomposition, bound
<1>2. \A n : IsValid(n)' <=> IsValid(n)
  BY <1>1 DEF IsValid
<1>3. CASE line = NoLine
  BY <1>1, <1>3 DEF ValidInv
<1>4. CASE line # NoLine
  <2>1. PICK P : solutions = <<P>> /\ IsFiniteSet(P) /\ IsValid(Cardinality(P))
    BY <1>1, <1>4 DEF ValidInv, SolvedValidly
  <2>2. UNION {solutions[k] : k \in DOMAIN solutions} = P
    BY <2>1
  <2>3. twins = <<>>
    BY <1>4 DEF ValidInv
  <2>4. Len(twins) = 0
    BY <2>3
  <2>5. PICK subtrees : output' = Expand(CoupleAll(P, MaxLabel, Len(twins)), subtrees)
    BY <2>2 DEF Finish
  <2>6. output' = Expand(P, subtrees)
    BY <2>4, <2>5, CoupleNone
  <2>7. /\ Cardinality(output') \in Int /\ Cardinality(P) \in Int
        /\ Cardinality(output') <= Cardinality(P)
    BY <2>1, <2>6, ExpandNoMore, FS_CardinalityType
  <2>8. IsValid(Cardinality(output'))
    BY <1>4, <2>1, <2>7, ValidBounds
  <2> QED BY <1>1, <1>2, <1>4, <2>8 DEF ValidInv
<1> QED BY <1>3, <1>4

(* The other thread, and what follows the output. *)
LEMMA OtherKeepsValid ==
  ASSUME ValidInv,
         Leave \/ Join \/ Sigterm \/ FinishBound \/ CancelBound \/ UNCHANGED vars
  PROVE  ValidInv'
<1>1. UNCHANGED <<track, line, given, optimum, reduced, twins, clusters, index, pinned,
                  candidates, solutions, output>>
  BY DEF Leave, Join, Sigterm, FinishBound, CancelBound, vars, input, decomposition,
         propagation, seeding
<1>2. \A n : IsValid(n)' <=> IsValid(n)
  BY <1>1 DEF IsValid
<1>3. pc' = pc \/ pc' \in {"join", "ended", "killed"}
  BY DEF Leave, Join, Sigterm, FinishBound, CancelBound, vars
<1>4. ASSUME line # NoLine  PROVE IsValid(threshold')
  <2>1. threshold' = threshold \/ \E l \in LowerBounds : threshold' = CertifiedCeiling(l)
    BY DEF Leave, Join, Sigterm, FinishBound, CancelBound, vars, bound
  <2> QED BY <1>4, <2>1, ValidBounds DEF ValidInv
<1>5. Alone' = Alone /\ KeptLabels' = KeptLabels /\ (SolvedValidly' <=> SolvedValidly)
  BY <1>1, <1>2 DEF Alone, KeptLabels, SolvedValidly
<1> QED BY <1>1, <1>2, <1>3, <1>4, <1>5 DEF ValidInv

LEMMA ValidStep == ValidInv /\ PipelineInv /\ [Next]_vars => ValidInv'
  BY StartKeepsValid, SeedKeepsValid, SolveKeepsValid, NextKeepsValid, FinishKeepsValid,
     OtherKeepsValid DEF Next, Main

(* On the lower-bound track the forest printed has at most a k + b         *)
(* components, k the least number: whatever lower bounds the two duals     *)
(* give, whenever the second one is done, and whether or not the constants *)
(* come before the header of the file.                                     *)
THEOREM AlwaysPrintedIsValid == Spec => []PrintedIsValid
<1>1. ValidInv => PrintedIsValid
  BY DEF ValidInv, PrintedIsValid, IsValid
<1> QED BY <1>1, AlwaysPipelineInv, ValidInit, ValidStep, PTL DEF Spec
-----------------------------------------------------------------------------
(* What the reduction leaves, and that it can be undone. *)

ReducedTrees == [i \in DOMAIN given |-> Trace(given[i], Kept(CommonSubtrees))]

LEMMA ReducedFamilies ==
  ASSUME given \in Instances, reduced = ReducedTrees
  PROVE  /\ 1 \in DOMAIN reduced /\ DOMAIN reduced = DOMAIN given
         /\ reduced = [i \in DOMAIN reduced |-> reduced[i]]
         /\ \A i \in DOMAIN reduced : IsFamily(reduced[i])
         /\ LabelsOf(reduced[1]) = Kept(CommonSubtrees)
         /\ IsFiniteSet(LabelsOf(reduced[1]))
         /\ AreSubtrees(given, CommonSubtrees, LabelsOf(given[1]))
         /\ \A s \in CommonSubtrees : SmallestOf(s) \in s
<1> DEFINE X == LabelsOf(given[1])
           S == CommonSubtrees
<1>1. /\ 1 \in DOMAIN given /\ IsFiniteSet(X)
      /\ \A i \in DOMAIN given :
           IsFamily(given[i]) /\ UNION given[i] = X /\ \A x \in X : {x} \in given[i]
  BY InstanceIsFamilies DEF LabelsOf
<1>2. X \subseteq Nat
  BY PipelineAssumption
<1> HIDE DEF X
<1>3. AreSubtrees(given, S, X)
  BY <1>1, MaximalAreSubtrees DEF CommonSubtrees
<1> HIDE DEF S
<1>4. UNION S = X /\ \A s \in S : s \in given[1]
  BY <1>1, <1>3 DEF AreSubtrees
<1>5. ASSUME NEW s \in S
      PROVE  SmallestOf(s) \in s
  <2>1. s # {} /\ s \subseteq Nat
    BY <1>1, <1>2, <1>4, <1>5 DEF IsFamily
  <2> QED BY <2>1, SmallestIsLeast
<1>6. Kept(S) \subseteq X
  BY <1>4, <1>5 DEF Kept
<1>7. reduced = [i \in DOMAIN given |-> Trace(given[i], Kept(S))]
  BY DEF ReducedTrees, S
<1>8. \A i \in DOMAIN given : reduced[i] = Trace(given[i], Kept(S)) /\ IsFamily(reduced[i])
  BY <1>1, <1>7, TraceIsFamily
<1>9. LabelsOf(reduced[1]) = Kept(S)
  BY <1>1, <1>6, <1>8, UnionOfTrace DEF LabelsOf
<1>10. IsFiniteSet(Kept(S))
  BY <1>1, <1>6, FS_Subset
<1> QED BY <1>1, <1>3, <1>5, <1>7, <1>8, <1>9, <1>10 DEF S, X

(* What is coupled to a solution of the reduced trees and expanded is an   *)
(* agreement forest of the trees read.                                     *)
LEMMA ExpandedAgrees ==
  ASSUME given \in Instances, reduced = ReducedTrees,
         NEW P, IsPartition(P, LabelsOf(reduced[1])), AgreesOn(reduced, P)
  PROVE  /\ IsPartition(Expand(P, CommonSubtrees), LabelsOf(given[1]))
         /\ IsAgreementForest(AsForests(given), Expand(P, CommonSubtrees))
<1> DEFINE X == LabelsOf(given[1])
           S == CommonSubtrees
           Q == {Opened(S, B) : B \in P}
<1>1. /\ LabelsOf(reduced[1]) = Kept(S) /\ AreSubtrees(given, S, X)
      /\ \A s \in S : SmallestOf(s) \in s
  BY ReducedFamilies
<1>2. 1 \in DOMAIN given /\ \A i \in DOMAIN given : IsFamily(given[i])
  BY InstanceIsFamilies
<1>3. AgreesOn([i \in DOMAIN given |-> Trace(given[i], Kept(S))], P)
  BY DEF ReducedTrees
<1>4. Expand(P, S) = Q
  BY DEF Expand, Opened
<1> HIDE DEF X, S
<1>5. IsPartition(Q, X) /\ AgreesOn(given, Q)
  BY <1>1, <1>2, <1>3, OpenedAgrees
<1>6. \A B \in Q : B # {}
  BY <1>5 DEF IsPartition
<1> HIDE DEF Q
<1>7. IsAgreementForest(AsForests(given), Q)
  BY <1>2, <1>5, <1>6, AgreementByTraces
<1> QED BY <1>4, <1>5, <1>7 DEF X, S

-----------------------------------------------------------------------------
(* The solutions of the clusters come to one of the reduced trees. *)

(* The terminals of the points decoupled are labels. *)
TerminalsMade ==
  \A j \in 1..decoupled : ClusterTerminal(MaxLabel, j) \in UNION LabelSets(forests[1])

NodesFinite == \A i \in DOMAIN forests : IsFiniteSet(UNION forests[i])

(* The clusters can be searched, and solutions of them that were cut       *)
(* together can be coupled.                                                *)
ReadyToSolve ==
  /\ decoupled = Len(twins)
  /\ \A k \in DOMAIN clusters :
       /\ 1 \in DOMAIN clusters[k].trees /\ IsFiniteSet(LabelsOf(clusters[k].trees[1]))
       /\ \A i \in DOMAIN clusters[k].trees : IsFamily(clusters[k].trees[i])
  /\ \A s : AreSolutions(clusters, s) /\ RootsTogether(clusters, s)
               => Recouples(reduced, Merged(s), MaxLabel, decoupled)

AgreeInv ==
  /\ given \in Instances
  /\ pc \in {"read", "reduce", "find"} => decoupled = 0 /\ twins = <<>>
  /\ pc \in {"find", "decouple", "branch"} \/ IsSolving \/ pc = "unapply" =>
       reduced = ReducedTrees
  /\ pc = "decouple" =>
       CanRecouple(reduced, forests, MaxLabel, decoupled) /\ TerminalsMade /\ NodesFinite
  /\ pc = "branch" =>
       IF HasClusterStage THEN ReadyToSolve ELSE decoupled = 0 /\ twins = <<>>
  /\ IsSolving \/ pc = "unapply" =>
       ReadyToSolve /\ \A k \in DOMAIN solutions : Solves(clusters[k], solutions[k])
  /\ pc = "solve" => \A P \in candidates : Solves(Current, P)
  /\ PrintedAgrees

(* Without points the reduced trees are the only cluster. *)
LEMMA WholeIsReady ==
  ASSUME given \in Instances, reduced = ReducedTrees, decoupled = 0, twins = <<>>,
         given' = given, reduced' = reduced, decoupled' = decoupled, twins' = twins,
         clusters' = <<WholeInstance(reduced)>>
  PROVE  ReadyToSolve'
<1>1. /\ 1 \in DOMAIN reduced /\ IsFiniteSet(LabelsOf(reduced[1]))
      /\ \A i \in DOMAIN reduced : IsFamily(reduced[i])
  BY ReducedFamilies
<1>2. DOMAIN clusters' = 1..1 /\ clusters'[1].trees = reduced
  BY DEF WholeInstance
<1>3. \A k \in DOMAIN clusters' : clusters'[k].trees = reduced
  BY <1>2
<1>4. ASSUME NEW s, AreSolutions(clusters', s)
      PROVE  Recouples(reduced, Merged(s), MaxLabel', 0)
  BY <1>4, AloneRecouples
<1>5. decoupled' = Len(twins')
  OBVIOUS
<1> QED BY <1>1, <1>3, <1>4, <1>5 DEF ReadyToSolve

-----------------------------------------------------------------------------
(* Every step keeps the invariant. *)

LEMMA AgreeInit == Init => AgreeInv
  BY DEF Init, AgreeInv, IsSolving, PrintedAgrees

LEMMA ReduceKeepsAgreement ==
  ASSUME AgreeInv, Reduce
  PROVE  AgreeInv'
<1>1. /\ pc = "reduce" /\ pc' = (IF HasClusterStage THEN "find" ELSE "branch")
      /\ UNCHANGED <<given, track, twins, decoupled, output>>
  BY DEF Reduce, input
<1>2. reduced' = [i \in DOMAIN given |-> {n \intersect Kept(CommonSubtrees) : n \in given[i]} \ {{}}]
  BY DEF Reduce, Kept
<1>3. reduced' = ReducedTrees
  BY <1>2 DEF ReducedTrees, Trace
<1>4. ReducedTrees' = ReducedTrees /\ HasClusterStage' = HasClusterStage
      /\ PrintedAgrees' = PrintedAgrees
  BY <1>1 DEF ReducedTrees, CommonSubtrees, HasClusterStage, PrintedAgrees
<1> QED BY <1>1, <1>3, <1>4 DEF AgreeInv, IsSolving

LEMMA FindKeepsAgreement ==
  ASSUME AgreeInv, FindPoints
  PROVE  AgreeInv'
<1>1. /\ pc = "find" /\ pc' = "decouple" /\ UNCHANGED <<given, reduced, decoupled, output>>
      /\ forests' = [i \in DOMAIN reduced |-> {reduced[i]}]
  BY DEF FindPoints, input
<1>2. given \in Instances /\ reduced = ReducedTrees /\ decoupled = 0
  BY <1>1 DEF AgreeInv
<1>3. /\ ReducedTrees' = ReducedTrees /\ PrintedAgrees' = PrintedAgrees
      /\ MaxLabel' = MaxLabel
  BY <1>1 DEF ReducedTrees, CommonSubtrees, PrintedAgrees, MaxLabel
<1>4. CanRecouple(reduced, forests', MaxLabel, 0)
  BY <1>1, <1>2, ReducedFamilies, WholeRecouples
<1>5. TerminalsMade'
  BY <1>1, <1>2 DEF TerminalsMade
<1>6. NodesFinite'
  <2>1. \A i \in DOMAIN reduced : UNION {reduced[i]} = reduced[i] /\ IsFiniteSet(reduced[i])
    BY <1>2, ReducedFamilies DEF IsFamily
  <2>2. \A i \in DOMAIN forests' : IsFiniteSet(UNION (forests'[i]))
    BY <1>1, <2>1
  <2> QED BY <2>2 DEF NodesFinite
<1> QED BY <1>1, <1>2, <1>3, <1>4, <1>5, <1>6 DEF AgreeInv, IsSolving

(* One point more can be coupled. *)
LEMMA DecoupleKeepsAgreement ==
  ASSUME AgreeInv, DecompositionInv, DecoupleNext
  PROVE  AgreeInv'
<1>1. /\ pc = "decouple" /\ pc' = "decouple" /\ UNCHANGED <<given, reduced, output>>
      /\ decoupled < Len(twins) /\ decoupled' = decoupled + 1
  BY DEF DecoupleNext, input
<1>2. /\ given \in Instances /\ reduced = ReducedTrees
      /\ CanRecouple(reduced, forests, MaxLabel, decoupled) /\ TerminalsMade /\ NodesFinite
  BY <1>1 DEF AgreeInv
<1>3. /\ ReducedTrees' = ReducedTrees /\ PrintedAgrees' = PrintedAgrees
      /\ MaxLabel' = MaxLabel
  BY <1>1 DEF ReducedTrees, CommonSubtrees, PrintedAgrees, MaxLabel
<1>4. AreForests
  BY <1>1 DEF DecompositionInv
<1>5. LabelsMatch
  <2>1. twins # <<>>
    BY <1>1, <1>4 DEF AreForests
  <2> QED BY <1>1, <2>1 DEF DecompositionInv
<1>6. PICK n, t, r : /\ NextPoint(n, t, r)
                     /\ forests' = [i \in DOMAIN forests |-> Decouple(forests[i], n, t, r)]
  BY PointDecoupled
<1>7. 1 \in DOMAIN forests /\ MaxLabel \in Nat /\ decoupled \in Nat
  BY <1>2, <1>4, PipelineAssumption, MaxLabelIsGreatest DEF AreForests
<1>8. PICK fs : fs = forests
  OBVIOUS
<1>9. PICK gs : gs = forests'
  OBVIOUS
<1>10. 1 \in DOMAIN fs /\ gs = [i \in DOMAIN fs |-> Decouple(fs[i], n, t, r)]
  BY <1>6, <1>7, <1>8, <1>9
<1>11. \A i \in DOMAIN fs : IsForest(fs[i]) /\ IsFiniteSet(UNION (fs[i]))
                            /\ LabelSets(fs[i]) = LabelSets(fs[1]) /\ HasNode(fs[i], n)
  BY <1>2, <1>5, <1>6, <1>8 DEF LabelsMatch, NodesFinite, NextPoint
<1>12. /\ t = ClusterTerminal(MaxLabel, decoupled + 1)
       /\ r = ClusterRoot(MaxLabel, decoupled + 1) /\ t # r
       /\ t \notin UNION LabelSets(fs[1]) /\ r \notin UNION LabelSets(fs[1])
  BY <1>6, <1>8 DEF NextPoint
<1>13. \A j \in 1..decoupled : ClusterRoot(MaxLabel, j) \notin n
  <2>1. n \intersect ClusterRoots = {}
    BY <1>6 DEF NextPoint
  <2>2. \A j \in 1..decoupled : j \in DOMAIN twins
    BY <1>4 DEF AreForests
  <2> QED BY <2>1, <2>2 DEF ClusterRoots
<1>14. PICK L \in LabelSets(fs[1]) : n \subseteq L
  BY <1>6, <1>8 DEF NextPoint
<1>15. UNION LabelSets(gs[1]) = (UNION LabelSets(fs[1])) \union {t, r}
  <2>1. gs[1] = Decouple(fs[1], n, t, r)
    BY <1>10
  <2>2. LabelSets(gs[1]) = (LabelSets(fs[1]) \ {L}) \union {n \union {r}, (L \ n) \union {t}}
    <3>1. IsForest(fs[1]) /\ HasNode(fs[1], n)
      BY <1>10, <1>11
    <3>2. /\ L \in LabelSets(fs[1]) /\ n \subseteq L /\ t # r
          /\ t \notin UNION LabelSets(fs[1]) /\ r \notin UNION LabelSets(fs[1])
      BY <1>12, <1>14
    <3>3. PICK F : F = fs[1]
      OBVIOUS
    <3>4. /\ IsForest(Decouple(F, n, t, r))
          /\ LabelSets(Decouple(F, n, t, r))
               = (LabelSets(F) \ {L}) \union {n \union {r}, (L \ n) \union {t}}
          /\ \A m : HasNode(F, m) => HasNode(Decouple(F, n, t, r), WithoutSubtree(m, n, t))
      <4>1. /\ IsForest(F) /\ HasNode(F, n) /\ L \in LabelSets(F) /\ n \subseteq L /\ t # r
            /\ t \notin UNION LabelSets(F) /\ r \notin UNION LabelSets(F)
        BY <3>1, <3>2, <3>3
      <4> QED BY <4>1, DecoupleForest
    <3> QED BY <2>1, <3>3, <3>4
  <2>3. \A x \in UNION LabelSets(gs[1]) : x \in (UNION LabelSets(fs[1])) \union {t, r}
    BY <1>14, <2>2
  <2>4. \A x \in UNION LabelSets(fs[1]) : x \in UNION LabelSets(gs[1])
    <3> TAKE x \in UNION LabelSets(fs[1])
    <3>1. PICK M \in LabelSets(fs[1]) : x \in M
      OBVIOUS
    <3>2. \E N \in LabelSets(gs[1]) : x \in N
      <4>1. CASE M # L
        BY <2>2, <3>1, <4>1
      <4>2. CASE M = L /\ x \in n
        <5>1. n \union {r} \in LabelSets(gs[1])
          BY <2>2
        <5> QED BY <4>2, <5>1
      <4>3. CASE M = L /\ x \notin n
        <5>1. (L \ n) \union {t} \in LabelSets(gs[1])
          BY <2>2
        <5> QED BY <3>1, <4>3, <5>1
      <4> QED BY <4>1, <4>2, <4>3
    <3> QED BY <3>2
  <2>5. t \in UNION LabelSets(gs[1]) /\ r \in UNION LabelSets(gs[1])
    BY <2>2
  <2> QED BY <2>3, <2>4, <2>5
<1>16. CanRecouple(reduced, gs, MaxLabel, decoupled + 1)
  <2>1. PICK m \in Nat, k \in Nat : m = MaxLabel /\ k = decoupled
    BY <1>7
  <2>2. CanRecouple(reduced, fs, m, k)
    BY <1>2, <1>8, <2>1
  <2>3. DecouplesNext(fs, gs, n, m, k)
    BY <1>10, <1>11, <1>12, <1>13, <1>15, <2>1 DEF DecouplesNext
  <2>4. CanRecouple(reduced, gs, m, k + 1)
    BY <2>2, <2>3, DecoupleRecouples
  <2> QED BY <2>1, <2>4
<1>17. TerminalsMade'
  <2> SUFFICES ASSUME NEW j \in 1..(decoupled + 1)
               PROVE  ClusterTerminal(MaxLabel, j) \in UNION LabelSets(gs[1])
    BY <1>1, <1>3, <1>9 DEF TerminalsMade
  <2>1. CASE j = decoupled + 1
    BY <1>12, <1>15, <2>1
  <2>2. CASE j # decoupled + 1
    <3>1. j \in 1..decoupled
      BY <1>7, <2>2
    <3>2. ClusterTerminal(MaxLabel, j) \in UNION LabelSets(fs[1])
      BY <1>2, <1>8, <3>1 DEF TerminalsMade
    <3> QED BY <1>15, <3>2
  <2> QED BY <2>1, <2>2
<1>18. NodesFinite'
  <2>1. ASSUME NEW i \in DOMAIN fs
        PROVE  IsFiniteSet(UNION (gs[i]))
    <3>1. IsForest(fs[i]) /\ HasNode(fs[i], n) /\ IsFiniteSet(UNION (fs[i]))
      BY <1>11, <2>1
    <3>2. UNION Decouple(fs[i], n, t, r) = DecoupledFamily(UNION (fs[i]), n, t, r)
      BY <3>1, DecoupleIsFamily
    <3>3. gs[i] = Decouple(fs[i], n, t, r)
      BY <1>10, <2>1
    <3>4. IsFiniteSet(DecoupledFamily(UNION (fs[i]), n, t, r))
      BY <3>1, DecoupledIsFinite
    <3> QED BY <3>2, <3>3, <3>4
  <2>2. DOMAIN gs = DOMAIN fs
    BY <1>10
  <2> QED BY <1>9, <2>1, <2>2 DEF NodesFinite
<1> QED BY <1>1, <1>2, <1>3, <1>9, <1>16, <1>17, <1>18 DEF AgreeInv, IsSolving

(* The clusters are solved one by one, but the trees are split at once.    *)
LEMMA SplitKeepsAgreement ==
  ASSUME AgreeInv, DecompositionInv, PipelineInv, SplitInstance
  PROVE  AgreeInv'
<1>1. /\ pc = "decouple" /\ pc' = "branch" /\ decoupled = Len(twins)
      /\ UNCHANGED <<track, given, reduced, twins, decoupled, output>>
  BY DEF SplitInstance, input
<1>2. /\ given \in Instances /\ reduced = ReducedTrees
      /\ CanRecouple(reduced, forests, MaxLabel, decoupled) /\ TerminalsMade /\ NodesFinite
  BY <1>1 DEF AgreeInv
<1>3. /\ ReducedTrees' = ReducedTrees /\ PrintedAgrees' = PrintedAgrees
      /\ MaxLabel' = MaxLabel /\ HasClusterStage' /\ AreForests
  BY <1>1 DEF ReducedTrees, CommonSubtrees, PrintedAgrees, MaxLabel, HasClusterStage,
              PipelineInv, DecompositionInv
<1>4. CASE twins = <<>>
  <2>1. decoupled = 0 /\ clusters' = <<WholeInstance(reduced)>>
    BY <1>1, <1>4 DEF SplitInstance
  <2>2. ReadyToSolve'
    BY <1>1, <1>2, <1>4, <2>1, WholeIsReady
  <2> QED BY <1>1, <1>2, <1>3, <2>2 DEF AgreeInv, IsSolving
<1>5. CASE twins # <<>>
  <2>1. LabelsMatch
    BY <1>1, <1>5 DEF DecompositionInv
  <2>2. 1 \in DOMAIN forests /\ MaxLabel \in Nat /\ decoupled \in Nat
    BY <1>2, <1>3, PipelineAssumption, MaxLabelIsGreatest DEF AreForests
  <2>3. PICK c \in BottomUp(Split(forests, ClusterTerminals, ClusterRoots)) : c = clusters'
    BY <1>5 DEF SplitInstance
  <2>4. \A i \in DOMAIN forests : /\ IsForest(forests[i]) /\ IsFiniteSet(forests[i])
                                  /\ LabelSets(forests[i]) = LabelSets(forests[1])
    BY <1>3, <2>1 DEF LabelsMatch, AreForests
  <2>5. UNION LabelSets(forests[1]) \subseteq Nat
    BY <2>1 DEF LabelsMatch
  <2>6. /\ AreClusters(forests, c)
        /\ \A k \in DOMAIN c :
             /\ DOMAIN c[k].trees = DOMAIN forests
             /\ c[k].roots = ClusterRoots \intersect LabelsOf(c[k].trees[1])
             /\ c[k].terminals = ClusterTerminals \intersect LabelsOf(c[k].trees[1])
    BY <2>2, <2>4, <2>5, SplitClusters
  <2>7. ASSUME NEW k \in DOMAIN c
        PROVE  /\ 1 \in DOMAIN c[k].trees /\ IsFiniteSet(LabelsOf(c[k].trees[1]))
               /\ \A i \in DOMAIN c[k].trees : IsFamily(c[k].trees[i])
    <3>1. \A i \in DOMAIN forests : c[k].trees[i] \in forests[i]
      BY <2>6, <2>7 DEF AreClusters
    <3>2. DOMAIN c[k].trees = DOMAIN forests
      BY <2>6, <2>7
    <3>3. ASSUME NEW i \in DOMAIN forests
          PROVE  IsFamily(c[k].trees[i])
      <4>1. IsTree(c[k].trees[i]) /\ c[k].trees[i] \subseteq UNION (forests[i])
        BY <2>4, <3>1, <3>3 DEF IsForest
      <4>2. IsFiniteSet(c[k].trees[i])
        BY <1>2, <3>3, <4>1, FS_Subset DEF NodesFinite
      <4> QED BY <4>1, <4>2 DEF IsFamily, IsTree
    <3>4. IsFiniteSet(LabelsOf(c[k].trees[1]))
      <4>1. LabelsOf(c[k].trees[1]) \in LabelSets(forests[1])
        BY <2>2, <3>1 DEF LabelSets
      <4>2. \A x \in LabelsOf(c[k].trees[1]) : x \in Nat /\ x <= MaxLabel + 2 * decoupled
        BY <2>1, <4>1 DEF LabelsMatch
      <4>3. LabelsOf(c[k].trees[1]) \subseteq 0..(MaxLabel + 2 * decoupled)
        BY <2>2, <4>2
      <4>4. IsFiniteSet(0..(MaxLabel + 2 * decoupled))
        <5>1. MaxLabel + 2 * decoupled \in Int
          BY <2>2
        <5> QED BY <5>1, FS_Interval
      <4> QED BY <4>3, <4>4, FS_Subset
    <3> QED BY <2>2, <3>2, <3>3, <3>4
  <2>8. \A j \in 1..decoupled :
          /\ ClusterRoot(MaxLabel, j) \in ClusterRoots
          /\ ClusterTerminal(MaxLabel, j) \in ClusterTerminals
          /\ ClusterTerminal(MaxLabel, j) \in UNION LabelSets(forests[1])
    <3>1. DOMAIN twins = 1..decoupled
      BY <1>1, <1>3 DEF AreForests
    <3> QED BY <1>2, <3>1 DEF ClusterRoots, ClusterTerminals, TerminalsMade
  <2>9. ASSUME NEW s, AreSolutions(c, s), RootsTogether(c, s)
        PROVE  Recouples(reduced, Merged(s), MaxLabel, decoupled)
    <3>1. CanRecouple(reduced, forests, MaxLabel, decoupled)
      BY <1>2
    <3>2. \A i \in DOMAIN forests : IsForest(forests[i])
      BY <2>4
    <3>3. PICK m \in Nat, k \in Nat : m = MaxLabel /\ k = decoupled
      BY <2>2
    <3>4. CanRecouple(reduced, forests, m, k)
      BY <3>1, <3>3
    <3>5. AreSplit(forests, c, ClusterRoots, ClusterTerminals, m, k)
      BY <2>2, <2>6, <2>8, <3>2, <3>3 DEF AreSplit
    <3>6. Recouples(reduced, Merged(s), m, k)
      BY <2>9, <3>4, <3>5, MergedRecouples
    <3> QED BY <3>3, <3>6
  <2>10. ReadyToSolve'
    BY <1>1, <1>3, <2>3, <2>7, <2>9 DEF ReadyToSolve
  <2> QED BY <1>1, <1>2, <1>3, <2>10 DEF AgreeInv, IsSolving
<1> QED BY <1>4, <1>5

LEMMA BeginKeepsAgreement ==
  ASSUME AgreeInv, PipelineInv, BeginBranching
  PROVE  AgreeInv'
<1>1. /\ pc = "branch" /\ pc' = "seed"
      /\ UNCHANGED <<given, reduced, twins, decoupled, solutions, output>>
      /\ clusters' = IF HasClusterStage THEN clusters ELSE <<WholeInstance(reduced)>>
  BY DEF BeginBranching, input
<1>2. given \in Instances /\ reduced = ReducedTrees
  BY <1>1 DEF AgreeInv
<1>3. /\ ReducedTrees' = ReducedTrees /\ PrintedAgrees' = PrintedAgrees
      /\ MaxLabel' = MaxLabel
  BY <1>1 DEF ReducedTrees, CommonSubtrees, PrintedAgrees, MaxLabel
<1>4. ReadyToSolve'
  <2>1. CASE HasClusterStage
    BY <1>1, <1>3, <2>1 DEF AgreeInv, ReadyToSolve
  <2>2. CASE ~HasClusterStage
    <3>1. decoupled = 0 /\ twins = <<>>
      BY <1>1, <2>2 DEF AgreeInv
    <3> QED BY <1>1, <1>2, <2>2, <3>1, WholeIsReady
  <2> QED BY <2>1, <2>2
<1>5. DOMAIN solutions' = {}
  BY <1>1 DEF PipelineInv, IsStart, Untouched
<1> QED BY <1>1, <1>2, <1>3, <1>4, <1>5 DEF AgreeInv, IsSolving

LEMMA SeedKeepsAgreement ==
  ASSUME AgreeInv, PipelineInv, Seed
  PROVE  AgreeInv'
<1>1. /\ pc = "seed" /\ pc' = "solve" /\ candidates' = Candidates
      /\ UNCHANGED <<given, reduced, twins, decoupled, clusters, index, solutions, output>>
  BY DEF Seed, input, decomposition
<1>2. /\ given \in Instances /\ reduced = ReducedTrees /\ ReadyToSolve
      /\ \A k \in DOMAIN solutions : Solves(clusters[k], solutions[k])
  BY <1>1 DEF AgreeInv, IsSolving
<1>3. /\ ReducedTrees' = ReducedTrees /\ PrintedAgrees' = PrintedAgrees
      /\ Current' = Current
  BY <1>1 DEF ReducedTrees, CommonSubtrees, PrintedAgrees, Current
<1>4. ReadyToSolve' = ReadyToSolve
  BY <1>1 DEF ReadyToSolve, MaxLabel
<1>5. index \in DOMAIN clusters
  BY <1>1 DEF PipelineInv, IsSolving, Solving, InOrder
<1>6. ASSUME NEW P \in Candidates
      PROVE  Solves(Current, P)
  <2>1. PICK us : us = Current.trees
    OBVIOUS
  <2>2. /\ 1 \in DOMAIN us /\ IsFiniteSet(LabelsOf(us[1]))
        /\ \A i \in DOMAIN us : IsFamily(us[i])
    BY <1>2, <1>5, <2>1 DEF ReadyToSolve, Current
  <2>3. P \in AgreementForestsOver(AsForests(us), LabelsOf(us[1]))
    BY <1>6, <2>1 DEF Candidates
  <2>4. IsPartition(P, LabelsOf(us[1])) /\ AgreesOn(us, P)
    BY <2>2, <2>3, AgreementForestsAre
  <2> QED BY <2>1, <2>4 DEF Solves
<1> QED BY <1>1, <1>2, <1>3, <1>4, <1>6 DEF AgreeInv, IsSolving

LEMMA SolveKeepsAgreement ==
  ASSUME AgreeInv, PipelineInv, Solve
  PROVE  AgreeInv'
<1>1. /\ pc = "solve" /\ pc' = "next"
      /\ UNCHANGED <<given, reduced, twins, decoupled, clusters, index, output>>
  BY DEF Solve, input, decomposition
<1>2. /\ given \in Instances /\ reduced = ReducedTrees /\ ReadyToSolve
      /\ \A k \in DOMAIN solutions : Solves(clusters[k], solutions[k])
      /\ \A P \in candidates : Solves(Current, P)
  BY <1>1 DEF AgreeInv, IsSolving
<1>3. ReducedTrees' = ReducedTrees /\ PrintedAgrees' = PrintedAgrees
  BY <1>1 DEF ReducedTrees, CommonSubtrees, PrintedAgrees
<1>4. ReadyToSolve' = ReadyToSolve
  BY <1>1 DEF ReadyToSolve, MaxLabel
<1>5. PICK P \in candidates : solutions' = Append(solutions, P)
  <2>1. MayReturn \subseteq candidates
    BY DEF MayReturn, Lightest
  <2> QED BY <2>1 DEF Solve
<1>6. /\ index \in 1..Len(clusters) /\ Len(clusters) \in Nat
      /\ \E S : solutions \in Seq(S)
      /\ Len(solutions) = index - 1
  BY <1>1 DEF PipelineInv, IsSolving, Solving, InOrder, AreSolved
<1>7. PICK n \in Nat : index = n + 1 /\ Len(solutions) = n
  <2>1. index - 1 \in Nat /\ index = (index - 1) + 1
    BY <1>6
  <2> QED BY <1>6, <2>1
<1>8. /\ DOMAIN solutions = 1..n /\ DOMAIN solutions' = 1..n + 1
      /\ \A k \in 1..n : solutions'[k] = solutions[k]
      /\ solutions'[n + 1] = P
  BY <1>5, <1>6, <1>7, AppendSolution
<1>9. ASSUME NEW k \in DOMAIN solutions'
      PROVE  Solves(clusters[k], solutions'[k])
  <2>1. CASE k = n + 1
    BY <1>2, <1>5, <1>7, <1>8, <2>1 DEF Current
  <2>2. CASE k # n + 1
    <3>1. k \in 1..n
      BY <1>8, <2>2
    <3> QED BY <1>2, <1>8, <3>1
  <2> QED BY <2>1, <2>2
<1> QED BY <1>1, <1>2, <1>3, <1>4, <1>9 DEF AgreeInv, IsSolving

LEMMA NextKeepsAgreement ==
  ASSUME AgreeInv, NextCluster
  PROVE  AgreeInv'
<1>1. /\ pc = "next" /\ pc' \in {"seed", "unapply"}
      /\ UNCHANGED <<given, reduced, twins, decoupled, clusters, solutions, output>>
  BY DEF NextCluster, input, decomposition
<1>2. ReducedTrees' = ReducedTrees /\ PrintedAgrees' = PrintedAgrees
  BY <1>1 DEF ReducedTrees, CommonSubtrees, PrintedAgrees
<1>3. ReadyToSolve' = ReadyToSolve
  BY <1>1 DEF ReadyToSolve, MaxLabel
<1> QED BY <1>1, <1>2, <1>3 DEF AgreeInv, IsSolving

(* The solutions are merged, coupled and expanded. *)
LEMMA FinishKeepsAgreement ==
  ASSUME AgreeInv, PipelineInv, Finish
  PROVE  AgreeInv'
<1>1. /\ pc = "unapply" /\ pc' = "leave"
      /\ UNCHANGED <<given, reduced, twins, decoupled, clusters, solutions>>
  BY DEF Finish, input, decomposition
<1>2. /\ given \in Instances /\ reduced = ReducedTrees /\ ReadyToSolve
      /\ \A k \in DOMAIN solutions : Solves(clusters[k], solutions[k])
  BY <1>1 DEF AgreeInv, IsSolving
<1>3. AreSolved(Len(clusters)) /\ InOrder(clusters) /\ SolvedTogether
  BY <1>1 DEF PipelineInv
<1>4. DOMAIN solutions = DOMAIN clusters
  <2>1. PICK S : solutions \in Seq(S)
    BY <1>3 DEF AreSolved
  <2>2. DOMAIN solutions = 1..Len(solutions)
    BY <2>1
  <2> QED BY <1>3, <2>2 DEF AreSolved, InOrder
<1>5. AreSolutions(clusters, solutions) /\ RootsTogether(clusters, solutions)
  BY <1>2, <1>3, <1>4 DEF AreSolutions, RootsTogether, SolvedTogether
<1>6. Recouples(reduced, Merged(solutions), MaxLabel, Len(twins))
  BY <1>2, <1>5 DEF ReadyToSolve
<1>7. PICK Q : Q = CoupleAll(Merged(solutions), MaxLabel, Len(twins))
  OBVIOUS
<1>8. IsPartition(Q, LabelsOf(reduced[1])) /\ AgreesOn(reduced, Q)
  BY <1>6, <1>7 DEF Recouples
<1>9. output' = Expand(Q, CommonSubtrees)
  BY <1>7 DEF Finish, Merged
<1>10. /\ IsPartition(output', LabelsOf(given[1]))
       /\ IsAgreementForest(AsForests(given), output')
  BY <1>2, <1>8, <1>9, ExpandedAgrees
<1>11. PrintedAgrees'
  BY <1>1, <1>10 DEF PrintedAgrees
<1> QED BY <1>1, <1>2, <1>11 DEF AgreeInv, IsSolving

(* The other thread, and what comes before the reduction or after the      *)
(* output.                                                                 *)
LEMMA OtherKeepsAgreement ==
  ASSUME AgreeInv,
         Read \/ Leave \/ Join \/ Sigterm \/ FinishBound \/ CancelBound \/ UNCHANGED vars
  PROVE  AgreeInv'
<1>1. UNCHANGED <<track, given, reduced, twins, forests, decoupled, clusters, index,
                  candidates, solutions, output>>
  BY DEF Read, Leave, Join, Sigterm, FinishBound, CancelBound, vars, input, decomposition,
         propagation, seeding
<1>2. \/ pc' = pc
      \/ pc = "read" /\ pc' = "reduce"
      \/ pc' \in {"join", "ended", "killed"}
  BY DEF Read, Leave, Join, Sigterm, FinishBound, CancelBound, vars
<1>3. /\ ReducedTrees' = ReducedTrees /\ PrintedAgrees' = PrintedAgrees
      /\ MaxLabel' = MaxLabel /\ HasClusterStage' = HasClusterStage /\ Current' = Current
  BY <1>1 DEF ReducedTrees, CommonSubtrees, PrintedAgrees, MaxLabel, HasClusterStage, Current
<1>4. /\ ReadyToSolve' = ReadyToSolve /\ TerminalsMade' = TerminalsMade
      /\ NodesFinite' = NodesFinite
  BY <1>1, <1>3 DEF ReadyToSolve, TerminalsMade, NodesFinite
<1> QED BY <1>1, <1>2, <1>3, <1>4 DEF AgreeInv, IsSolving

LEMMA AgreeStep ==
  AgreeInv /\ DecompositionInv /\ PipelineInv /\ [Next]_vars => AgreeInv'
<1> SUFFICES ASSUME AgreeInv, DecompositionInv, PipelineInv, [Next]_vars
             PROVE  AgreeInv'
  OBVIOUS
<1>1. CASE Reduce \/ FindPoints \/ DecoupleNext \/ SplitInstance
  BY <1>1, ReduceKeepsAgreement, FindKeepsAgreement, DecoupleKeepsAgreement,
     SplitKeepsAgreement
<1>2. CASE BeginBranching \/ Seed \/ Solve \/ NextCluster \/ Finish
  BY <1>2, BeginKeepsAgreement, SeedKeepsAgreement, SolveKeepsAgreement, NextKeepsAgreement,
     FinishKeepsAgreement
<1>3. CASE Read \/ Leave \/ Join \/ Sigterm \/ FinishBound \/ CancelBound \/ UNCHANGED vars
  BY <1>3, OtherKeepsAgreement
<1> QED BY <1>1, <1>2, <1>3 DEF Next, Main

(* Whatever the trees, the track, the signals and the slices, the forest   *)
(* printed is an agreement forest of the trees read: reducing, decoupling, *)
(* solving the clusters one by one, coupling and expanding loses none of   *)
(* it.                                                                     *)
THEOREM AlwaysPrintedAgrees == Spec => []PrintedAgrees
<1>1. AgreeInv => PrintedAgrees
  BY DEF AgreeInv
<1> QED BY <1>1, AlwaysDecompositionInv, AlwaysPipelineInv, AgreeInit, AgreeStep, PTL DEF Spec
=============================================================================
