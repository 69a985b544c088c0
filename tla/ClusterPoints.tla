---------------------------- MODULE ClusterPoints ----------------------------
(***************************************************************************)
(* Where an instance can be decoupled: LeastCommonAncestor.cpp,            *)
(* TwinRelation.cpp and ClusterPointGenerator.cpp of src/src/Solver/Cluster*)
(* For every tree an Euler tour with a sparse table of range minima        *)
(* answers what the least common ancestor of two nodes is; for every pair  *)
(* of trees, the twin of a node of one is built up from the twins of its   *)
(* children in the other; a node all of whose twins agree with it is a     *)
(* cluster point.                                                          *)
(*                                                                         *)
(* Trees are sets of label sets.  Positions are counted from 0.            *)
(***************************************************************************)
EXTENDS ClusterDecomposition

VARIABLES
  trees,
  preorderToNode,     \* for every tree, its nodes in preorder
  preorderNumbers,    \* for every tree, the Euler tour: their numbers
  rangeMinimumQuery,  \* for every tree, the levels of the sparse table
  buffers,            \* the pairs of trees still to compare
  nodeToTwins,        \* for every tree and node, its twins: trees and nodes
  clusterPoints,
  generator           \* "idle", "lca", "twins", "points" or "done"

tables == <<preorderToNode, preorderNumbers, rangeMinimumQuery>>
generatorVars == <<trees, tables, buffers, nodeToTwins, clusterPoints, generator>>

-----------------------------------------------------------------------------
Preorder(tree) ==
  LET below[n \in tree] ==
        IF IsLeaf(n) THEN <<n>>
        ELSE <<n>> \o below[LeftChild(tree, n)] \o below[RightChild(tree, n)]
  IN  below[LabelsOf(tree)]

(* Preorder is what a slip would take for it. *)
Postorder(tree) ==
  LET below[n \in tree] ==
        (IF IsLeaf(n) THEN <<>>
         ELSE below[LeftChild(tree, n)] \o below[RightChild(tree, n)]) \o <<n>>
  IN  below[LabelsOf(tree)]

(* eulerTour: a node is passed again after each child. *)
EulerTour(tree) ==
  LET tour[n \in tree] ==
        IF IsLeaf(n) THEN <<n>>
        ELSE <<n>> \o tour[LeftChild(tree, n)] \o <<n>> \o tour[RightChild(tree, n)] \o <<n>>
  IN  tour[LabelsOf(tree)]

(* The position of n in a sequence of nodes. *)
PositionIn(s, n) == CHOOSE k \in 0..Len(s) - 1 : s[k + 1] = n /\ \A j \in 1..k : s[j] # n
-----------------------------------------------------------------------------
(* The level below the one that answers: 31 - __builtin_clz, or -1. *)
FloorLog(d) == IF d <= 0 THEN -1 ELSE CHOOSE k \in 0..31 : 2^k <= d /\ d < 2^(k + 1)

(* A slip: the comparison is swapped. *)
Greater(a, b) == IF a < b THEN b ELSE a

Least(a, b) == IF a < b THEN a ELSE b

(***************************************************************************)
(* computeRangeMinimumQuery: two entries of one level that between them    *)
(* reach from i to j.  An entry of level k > 0 is the minimum of           *)
(* 2^(k-1) + 1 numbers.                                                    *)
(***************************************************************************)
RangeMinimum(numbers, table, i, j) ==
  IF i = j THEN numbers[i + 1]
  ELSE LET k == FloorLog(j - i - 1)
           back == IF k >= 0 THEN 2^k ELSE 0
       IN  Least(table[k + 2][i + 1], table[k + 2][j - back + 1])

(* The next level of a table, from the levels it has. *)
NextLevel(numbers, table) ==
  LET length == 2^(Len(table) - 1)
  IN  [s \in 1..Len(numbers) - length |-> RangeMinimum(numbers, table, s - 1, s - 1 + length)]

LeastCommonAncestor(i, n, m) ==
  LET first(k) == PositionIn(preorderNumbers[i], PositionIn(preorderToNode[i], k))
      a == first(n)  b == first(m)
  IN  preorderToNode[i][1 + IF a <= b
                            THEN RangeMinimum(preorderNumbers[i], rangeMinimumQuery[i], a, b)
                            ELSE RangeMinimum(preorderNumbers[i], rangeMinimumQuery[i], b, a)]
-----------------------------------------------------------------------------
(* The pairs of different trees, in the order of the constructor's loops. *)
PairsInOrder(k) ==
  FlattenSeq([i \in 1..k |->
    SelectSeq([j \in 1..k |-> <<i, j>>], LAMBDA p : p[1] # p[2])])

InitGenerator ==
  /\ trees = <<>> /\ preorderToNode = <<>> /\ preorderNumbers = <<>>
  /\ rangeMinimumQuery = <<>> /\ nodeToTwins = <<>>
  /\ buffers = <<>> /\ clusterPoints = <<>>
  /\ generator = "idle"

(* wrappedConstructor: the generator is built for an instance. *)
Begin(instance) ==
  /\ generator = "idle"
  /\ trees' = instance
  /\ \E order \in {[i \in DOMAIN instance |-> Preorder(instance[i])]} :
     \E tours \in {[i \in DOMAIN instance |-> EulerTour(instance[i])]} :
       /\ preorderToNode' = order
       /\ preorderNumbers' = [i \in DOMAIN instance |->
            [k \in DOMAIN tours[i] |-> PositionIn(order[i], tours[i][k])]]
  /\ rangeMinimumQuery' = [i \in DOMAIN instance |-> <<preorderNumbers'[i]>>]
  /\ buffers' = PairsInOrder(Len(instance))
  /\ nodeToTwins' = [i \in DOMAIN instance |-> [n \in instance[i] |-> {}]]
  /\ generator' = "lca"
  /\ UNCHANGED clusterPoints

(* One turn of the loop of precomputeRangeMinimumQuery. *)
AddLevel ==
  /\ generator = "lca"
  /\ \E i \in DOMAIN trees :
       /\ 2^(Len(rangeMinimumQuery[i]) - 1) < Len(preorderNumbers[i])
       /\ \A j \in 1..i - 1 : 2^(Len(rangeMinimumQuery[j]) - 1) >= Len(preorderNumbers[j])
       /\ rangeMinimumQuery' = [rangeMinimumQuery EXCEPT
            ![i] = Append(@, NextLevel(preorderNumbers[i], rangeMinimumQuery[i]))]
  /\ UNCHANGED <<trees, preorderToNode, preorderNumbers, buffers, nodeToTwins, clusterPoints, generator>>

TablesDone ==
  /\ generator = "lca"
  /\ \A i \in DOMAIN trees : 2^(Len(rangeMinimumQuery[i]) - 1) >= Len(preorderNumbers[i])
  /\ generator' = "twins"
  /\ UNCHANGED <<trees, tables, buffers, nodeToTwins, clusterPoints>>

Joined(foreign, left, right) == LeastCommonAncestor(foreign, left, right)

(* generateInteriorTwinRelation, from the leaves up. *)
Twin(home, foreign) ==
  LET twin[n \in trees[home]] ==
        IF IsLeaf(n) THEN n
        ELSE Joined(foreign, twin[LeftChild(trees[home], n)], twin[RightChild(trees[home], n)])
  IN  [n \in trees[home] |-> twin[n]]

(* One turn of the loop over pairs of trees; fuseTwinBufferToSets. *)
ComparePair ==
  /\ generator = "twins" /\ buffers # <<>>
  /\ LET home == Head(buffers)[1]  foreign == Head(buffers)[2]
     IN  \E twin \in {Twin(home, foreign)} :
           nodeToTwins' = [nodeToTwins EXCEPT
             ![home] = [n \in trees[home] |-> @[n] \union {<<foreign, twin[n]>>}]]
  /\ buffers' = Tail(buffers)
  /\ UNCHANGED <<trees, tables, clusterPoints, generator>>

TwinsDone ==
  /\ generator = "twins" /\ buffers = <<>>
  /\ generator' = "points"
  /\ UNCHANGED <<trees, tables, buffers, nodeToTwins, clusterPoints>>
-----------------------------------------------------------------------------
TwinsOf(i, n) == nodeToTwins[i][n]

LeafEquivalent(n) ==
  \A t \in TwinsOf(1, n) : n = t[2] /\ \A u \in TwinsOf(t[1], t[2]) : n = u[2]

TrueEquivalenceClass(n) ==
  \A t \in TwinsOf(1, n) : TwinsOf(t[1], t[2]) \subseteq TwinsOf(1, n) \union {<<1, n>>}

IsClusterPoint(n) ==
  /\ n # LabelsOf(trees[1]) /\ ~IsLeaf(n)
  /\ LeafEquivalent(n) /\ TrueEquivalenceClass(n)

(* generateClusterPoints: the nodes of the first tree in postorder. *)
GeneratePoints ==
  /\ generator = "points"
  /\ clusterPoints' = SelectSeq(Postorder(trees[1]), IsClusterPoint)
  /\ generator' = "done"
  /\ UNCHANGED <<trees, tables, buffers, nodeToTwins>>

GenerateNext == AddLevel \/ TablesDone \/ ComparePair \/ TwinsDone \/ GeneratePoints
=============================================================================
