----------------------------- MODULE RedBlueDual -----------------------------
(***************************************************************************)
(* The Red-Blue dual of src/src/Solver/Approximation/RedBlueDual.cpp: the  *)
(* struct RedBlue2, with a step for every edit of its procedures.          *)
(*                                                                         *)
(* A round of the main loop takes two active siblings sets of the first    *)
(* forest, each compatible but not both together, and distils the red one  *)
(* to two leaves (ResolveSet).  If it cannot finalise these, the blue one  *)
(* is distilled to one leaf, and the three are taken off (procedures 4a,   *)
(* 4b and 4c).                                                             *)
(***************************************************************************)
EXTENDS MutableForestView

VARIABLES
  stage,     \* what of run() comes next
  red, blue, \* R and B, as sequences
  todo,      \* leaves that are to be finalised one after the other
  sawStar    \* a final cut or a merge after a cut was seen in this set

redBlueVars == <<t1, t2, active, dualSum, stage, red, blue, todo, sawStar>>

Elements(s) == {s[k] : k \in DOMAIN s}
ActiveIn(s) == SelectSeq(s, LAMBDA u : u \in active)
-----------------------------------------------------------------------------
(* The leaf of the triplet that the uncut tree splits off. *)
Outlier(tree, triplet) ==
  CHOOSE u \in triplet : LeastAbove(tree, triplet \ {u}) # LeastAbove(tree, triplet)

(* compatibleSlow: no triplet is split differently. *)
Compatible(S) ==
  \A triplet \in {U \in SUBSET S : Cardinality(U) = 3} :
    Outlier(t1.tree, triplet) = Outlier(t2.tree, triplet)

DepthOf(tree, n) == Cardinality({m \in tree : n \subseteq m}) - 1

(* The runs of leaves, in the order of a tree, that are its clusters: for  *)
(* the least depth k between two neighbours, up to where it gets less deep.*)
ClusterRanges(tree, order) ==
  LET depth == [k \in 1..Len(order) - 1 |->
                  DepthOf(tree, LeastAbove(tree, {order[k], order[k + 1]}))]
  IN  {range \in (1..Len(order)) \X (1..Len(order)) :
         \E k \in range[1]..range[2] - 1 :
           /\ \A j \in range[1]..range[2] - 1 :
                depth[j] > depth[k] \/ (depth[j] = depth[k] /\ j <= k)
           /\ range[1] = 1 \/ depth[range[1] - 1] < depth[k]
           /\ range[2] = Len(order) \/ depth[range[2]] <= depth[k]}

LeavesInOrder(v, S) ==
  LET leaves == SelectSeq(v.nodes, LAMBDA n : IsLeaf(n) /\ n \subseteq S)
  IN  [k \in DOMAIN leaves |-> SmallestOf(leaves[k])]

(* A slip: that the run is a cluster of the first tree is not asked. *)
IsRun(ranges, lo, hi, length) == hi - lo + 1 = length

IsClusterRun(ranges, lo, hi, length) == hi - lo + 1 = length /\ <<lo, hi>> \in ranges

(* compatibleFast: numbered as in the first tree, the clusters of the      *)
(* second are runs of numbers, and clusters of the first.                  *)
CompatibleFast(S) ==
  LET first == LeavesInOrder(t1, S)
      second == LeavesInOrder(t2, S)
      rank(k) == CHOOSE j \in DOMAIN first : first[j] = second[k]
  IN  \A range \in ClusterRanges(t2.tree, second) :
        LET ranks == {rank(k) : k \in range[1]..range[2]}
        IN  \E lo, hi \in ranks :
              /\ \A r \in ranks : lo <= r /\ r <= hi
              /\ IsClusterRun(ClusterRanges(t1.tree, first), lo, hi, range[2] - range[1] + 1)
-----------------------------------------------------------------------------
(* lcaSet: {} is the null pointer. *)
LcaSet(v, S) ==
  IF \A a, b \in S : SameTree(v, a, b) THEN LeastAbove(v.tree, S) ELSE {}

(* findMinIncompat: down from n to where both sides are compatible.  The   *)
(* nodes are joins of active leaves, so each has two sides.                *)
Sides(n) == <<ActiveInOrder(t1, LeftChild(t1.tree, n)), ActiveInOrder(t1, RightChild(t1.tree, n))>>

(* A slip: one of the sides is enough. *)
EitherCompatible(sides) == \E k \in {1, 2} : Compatible(Elements(sides[k]))

BothCompatible(sides) == \A k \in {1, 2} : Compatible(Elements(sides[k]))

MinimalIncompatible(n) ==
  LET below[m \in {k \in t1.tree : k \subseteq n}] ==
        IF Count(t1, m) < 2 THEN <<>>
        ELSE IF BothCompatible(Sides(m)) THEN Sides(m)
        ELSE LET left == Elements(Sides(m)[1])  right == Elements(Sides(m)[2])
             IN  below[LcaSet(t1, IF Compatible(left) THEN right ELSE left)]
  IN  below[n]

(* orient: the red side has two leaves and spans both, if one does. *)
Orient(sides) ==
  LET both == LcaSet(t2, Elements(sides[1]) \union Elements(sides[2]))
      big(k) == Len(sides[k]) >= 2
      spans(k) == both # {} /\ big(k) /\ LcaSet(t2, Elements(sides[k])) = both
  IN  IF spans(1) \/ (~spans(2) /\ (big(1) \/ ~big(2))) THEN sides ELSE <<sides[2], sides[1]>>
-----------------------------------------------------------------------------
(* ResolvePair: one of two siblings of the first forest is deactivated.    *)
OrigLcaInTreeOf(u, v) == RootOf(t2, LeastAbove(t2.tree, {u, v})) = RootOf(t2, {u})

ActiveOutside(u, U) == ActiveUnder(t2, RootOf(t2, {u})) \ (U \union {u}) # {}

Deactivate(u) == active' = active \ {u}

(* Lines 2 to 6: u and v are in different trees of the second forest. *)
PairApart(u, v, U) ==
  \E x \in {IF OrigLcaInTreeOf(u, v) THEN v ELSE u} :
    /\ t1' = CutOffLeaf(t1, x)
    /\ t2' = IF ActiveOutside(x, U) THEN CutOffLeaf(t2, x) ELSE t2
    /\ sawStar' = (sawStar \/ ActiveOutside(x, U))
    /\ Deactivate(x)
    /\ dualSum' = dualSum + 1

(* The cut charges what the leaf is credited. *)
CutCredit == 1 - 1

(* Line 13: the pendant at x, below the ancestor of both, is cut; if that  *)
(* makes x and y siblings, they are merged.                                *)
PairByCut(x, y) ==
  \E t \in {CutPendant(t2, x)} :
    \E merge \in {ActiveSiblings(t, x, y)} :
      /\ t2' = IF merge THEN t ELSE CutOffLeaf(t, x)
      /\ t1' = IF merge THEN t1 ELSE CutOffLeaf(t1, x)
      /\ sawStar' = (sawStar \/ merge)
      /\ Deactivate(x)
      /\ dualSum' = dualSum + CutCredit

ResolvePair(u, v, U) ==
  \/ ~SameTree(t2, u, v) /\ PairApart(u, v, U)
  \/ /\ ActiveSiblings(t2, u, v)
     /\ Deactivate(u)
     /\ UNCHANGED <<t1, t2, dualSum, sawStar>>
  \/ /\ SameTree(t2, u, v) /\ ~ActiveSiblings(t2, u, v)
     /\ IF BelowLca(t2, u, v) THEN PairByCut(u, v) ELSE PairByCut(v, u)
-----------------------------------------------------------------------------
(* preprocess *)
InBoth(pair) == ActiveSiblings(t2, pair[1], pair[2])

CommonCherries == SelectSeq(Cherries(t1), InBoth)

AloneRoots ==
  SelectSeq(t2.nodes, LAMBDA n : RootOf(t2, n) = n /\ Count(t2, n) = 1)

AtStage(x) == stage = x /\ todo = <<>>

MergeBoth ==
  /\ AtStage("preprocess")
  /\ \E cherries \in {CommonCherries} :
       cherries # <<>> /\ Deactivate(cherries[1][1])
  /\ UNCHANGED <<t1, t2, dualSum, stage, red, blue, todo, sawStar>>

FinaliseAlone ==
  /\ AtStage("preprocess") /\ CommonCherries = <<>> /\ Cardinality(active) > 1
  /\ \E roots \in {AloneRoots} :
       /\ roots # <<>>
       /\ \E w \in ActiveUnder(t2, roots[1]) : t1' = CutOffLeaf(t1, w) /\ Deactivate(w)
  /\ dualSum' = dualSum + 1
  /\ UNCHANGED <<t2, stage, red, blue, todo, sawStar>>

PreprocessDone ==
  /\ AtStage("preprocess") /\ CommonCherries = <<>>
  /\ Cardinality(active) <= 1 \/ AloneRoots = <<>>
  /\ stage' = "main"
  /\ UNCHANGED <<t1, t2, active, dualSum, red, blue, todo, sawStar>>

(* todo: cut off in both forests, if not alone there, and credited. *)
FinaliseNext ==
  /\ todo # <<>>
  /\ t1' = CutOffLeaf(t1, Head(todo))
  /\ t2' = CutOffLeaf(t2, Head(todo))
  /\ Deactivate(Head(todo))
  /\ dualSum' = dualSum + 1
  /\ todo' = Tail(todo)
  /\ UNCHANGED <<stage, red, blue, sawStar>>
-----------------------------------------------------------------------------
(* The main loop. *)
Incompatible ==
  IF Cardinality(active) < 2 \/ LcaSet(t1, active) = {} THEN <<>>
  ELSE MinimalIncompatible(LcaSet(t1, active))

(* A slip, once in the code: the component that is left is credited. *)
LastCredited == IF active = {} THEN 0 ELSE 1

LastCredit == 0

EndPair ==
  /\ AtStage("main") /\ Incompatible = <<>>
  /\ active' = {}
  /\ dualSum' = dualSum + LastCredit
  /\ stage' = "ended"
  /\ UNCHANGED <<t1, t2, red, blue, todo, sawStar>>

ChooseSet ==
  /\ AtStage("main")
  /\ \E sides \in {Incompatible} :
       /\ sides # <<>>
       /\ red' = Orient(sides)[1]
       /\ blue' = Orient(sides)[2]
  /\ dualSum' = dualSum - 1
  /\ sawStar' = FALSE
  /\ stage' = "set"
  /\ UNCHANGED <<t1, t2, active, todo>>

CherriesIn(s) ==
  SelectSeq(Cherries(t1), LAMBDA pair : pair[1] \in Elements(s) /\ pair[2] \in Elements(s))
-----------------------------------------------------------------------------
(* ResolveSet *)
(* A slip: the loop ends one leaf early. *)
DistilsFewer(s, length) == Len(ActiveIn(s)) > length + 1 /\ CherriesIn(s) # <<>>

Distils(s, length) == Len(ActiveIn(s)) > length /\ CherriesIn(s) # <<>>

RedPair ==
  /\ AtStage("set") /\ Distils(red, 2)
  /\ \E pair \in {CherriesIn(red)[1]} : ResolvePair(pair[1], pair[2], Elements(red))
  /\ UNCHANGED <<stage, red, blue, todo>>

(* The two red leaves that are left, if there are two. *)
RedDistilled == AtStage("set") /\ ~Distils(red, 2)
RedLeft == ActiveIn(red)

RedSiblings == Len(RedLeft) >= 2 /\ ActiveSiblings(t2, RedLeft[1], RedLeft[2])

(* Some leaf of their tree is split off from the two. *)
RedCloser ==
  /\ Len(RedLeft) >= 2
  /\ SameTree(t2, RedLeft[1], RedLeft[2])
  /\ \E w \in ActiveUnder(t2, RootOf(t2, {RedLeft[1]})) \ {RedLeft[1], RedLeft[2]} :
       Outlier(t2.tree, {RedLeft[1], RedLeft[2], w}) = w

RedMerge ==
  /\ RedDistilled /\ RedSiblings
  /\ Deactivate(RedLeft[1])
  /\ dualSum' = dualSum + 1
  /\ stage' = "preprocess"
  /\ UNCHANGED <<t1, t2, red, blue, todo, sawStar>>

RedCut ==
  /\ RedDistilled /\ ~RedSiblings /\ ~RedCloser
  /\ todo' = IF Len(RedLeft) < 2 THEN <<>> ELSE SubSeq(RedLeft, 1, 2)
  /\ stage' = "preprocess"
  /\ UNCHANGED <<t1, t2, active, dualSum, red, blue, sawStar>>

RedStar ==
  /\ RedDistilled /\ ~RedSiblings /\ RedCloser /\ sawStar
  /\ ResolvePair(RedLeft[1], RedLeft[2], Elements(red))
  /\ stage' = "star"
  /\ UNCHANGED <<red, blue, todo>>

RedFails ==
  /\ RedDistilled /\ ~RedSiblings /\ RedCloser /\ ~sawStar
  /\ stage' = "blue"
  /\ UNCHANGED <<t1, t2, active, dualSum, red, blue, todo, sawStar>>

(* After a pair was resolved, the leaf that is left of s. *)
FinaliseLast(at, s) ==
  /\ AtStage(at)
  /\ todo' = SubSeq(ActiveIn(s), 1, IF ActiveIn(s) = <<>> THEN 0 ELSE 1)
  /\ stage' = "preprocess"
  /\ UNCHANGED <<t1, t2, active, dualSum, red, blue, sawStar>>
-----------------------------------------------------------------------------
(* The red leaves and the blue one. *)
BluePair ==
  /\ AtStage("blue") /\ Distils(blue, 1)
  /\ \E pair \in {CherriesIn(blue)[1]} : ResolvePair(pair[1], pair[2], Elements(blue))
  /\ UNCHANGED <<stage, red, blue, todo>>

BlueDistilled == AtStage("blue") /\ ~Distils(blue, 1)

Triplet == ActiveIn(red) \o ActiveIn(blue)
IsTriplet == Len(ActiveIn(red)) = 2 /\ Len(ActiveIn(blue)) = 1
TreesOf(s) == {RootOf(t2, {u}) : u \in Elements(s)}

(* Procedure 4a: all in one tree, where r2 is split off. *)
OneTree ==
  /\ BlueDistilled /\ IsTriplet /\ Cardinality(TreesOf(Triplet)) = 1
  /\ \E r2 \in {IF Outlier(t2.tree, Elements(Triplet)) = Triplet[2] THEN Triplet[2] ELSE Triplet[1]} :
       /\ t1' = CutOffLeaf(t1, r2)
       /\ t2' = CutOffLeaf(Cut(t2, LeastAbove(t2.tree, Elements(Triplet) \ {r2})), r2)
       /\ Deactivate(r2)
  /\ stage' = "4a"
  /\ UNCHANGED <<dualSum, red, blue, todo, sawStar>>

RestMerges(at) ==
  /\ AtStage(at) /\ ActiveSiblings(t2, Triplet[1], Triplet[2])
  /\ Deactivate(IF ActiveIn(blue) = <<>> THEN Triplet[1] ELSE Triplet[2])
  /\ dualSum' = dualSum + 1
  /\ stage' = "preprocess"
  /\ UNCHANGED <<t1, t2, red, blue, todo, sawStar>>

OneTreeCut ==
  /\ AtStage("4a") /\ ~ActiveSiblings(t2, Triplet[1], Triplet[2])
  /\ todo' = Triplet
  /\ stage' = "preprocess"
  /\ UNCHANGED <<t1, t2, active, dualSum, red, blue, sawStar>>

(* Procedure 4b, three trees; and what is not a triplet. *)
ThreeTrees ==
  /\ BlueDistilled
  /\ IsTriplet => Cardinality(TreesOf(Triplet)) = 3
  /\ todo' = IF IsTriplet THEN <<Triplet[3], Triplet[1], Triplet[2]>> ELSE Triplet
  /\ stage' = "preprocess"
  /\ UNCHANGED <<t1, t2, active, dualSum, red, blue, sawStar>>

(* Procedure 4c: the leaf that is apart from the other two goes first. *)
TwoTrees ==
  /\ BlueDistilled /\ IsTriplet /\ Cardinality(TreesOf(Triplet)) = 2
  /\ todo' = SelectSeq(Triplet, LAMBDA u : \A v \in Elements(Triplet) \ {u} : ~SameTree(t2, u, v))
  /\ stage' = "4c"
  /\ UNCHANGED <<t1, t2, active, dualSum, red, blue, sawStar>>

TwoTreesPair ==
  /\ AtStage("4c") /\ ~ActiveSiblings(t2, Triplet[1], Triplet[2])
  /\ ResolvePair(Triplet[1], Triplet[2], Elements(Triplet))
  /\ stage' = "pair"
  /\ UNCHANGED <<red, blue, todo>>
-----------------------------------------------------------------------------
Preprocess == MergeBoth \/ FinaliseAlone \/ PreprocessDone

ResolveSet == RedPair \/ RedMerge \/ RedCut \/ RedStar \/ RedFails \/ FinaliseLast("star", red)

ResolveTriplet ==
  \/ BluePair \/ OneTree \/ OneTreeCut \/ ThreeTrees \/ TwoTrees \/ TwoTreesPair
  \/ RestMerges("4a") \/ RestMerges("4c") \/ FinaliseLast("pair", Triplet)
=============================================================================
