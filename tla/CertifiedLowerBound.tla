------------------------- MODULE CertifiedLowerBound -------------------------
(***************************************************************************)
(* The two lower bounds of a run of the lower-bound track: the             *)
(* 3-approximation before the search, and computeDual2ApproxLowerBound of  *)
(* RedBlueDual.cpp beside it, over all ordered pairs of forests, until it  *)
(* is cancelled.  The bounds certify an early exit of the search, which is *)
(* sound only as long as no bound exceeds the number of components of any  *)
(* agreement forest.                                                       *)
(***************************************************************************)
EXTENDS ThreeApproxDual, RedBlueDual, AgreementForests

CONSTANTS
  Instances,      \* sequences of at least two trees over the same labels
  Candidates(_)   \* the partitions that a bound is compared with

VARIABLES
  trees,
  pairs,      \* the ordered pairs of forests that are still to come
  l3,         \* the bound of the 3-approximation
  best,       \* of the Red-Blue dual: 0 while no pair was finished
  cancelled   \* lbStop, or the deadline has passed

vars == <<redBlueVars, trees, pairs, l3, best, cancelled>>
-----------------------------------------------------------------------------
(* The order of the loops over pairs. *)
PairsOf(k) ==
  LET below[i \in 0..k - 1] ==
        LET of[j \in i..k - 1] == IF j = i THEN <<>> ELSE of[j - 1] \o <<<<i + 1, j + 1>>, <<j + 1, i + 1>>>>
        IN  of[k - 1] \o (IF i = k - 1 THEN <<>> ELSE below[i + 1])
  IN  below[0]

Init ==
  /\ trees \in Instances
  /\ t1 = ViewOf(trees[1]) /\ t2 = ViewOf(trees[2])
  /\ active = LabelsOf(trees[1])
  /\ dualSum = 0
  /\ stage = "three"
  /\ red = <<>> /\ blue = <<>> /\ todo = <<>> /\ sawStar = FALSE
  /\ pairs = PairsOf(Len(trees))
  /\ l3 = 1
  /\ best = 0
  /\ cancelled = FALSE

(* The 3-approximation is defined for two forests only. *)
ThreeApproxStep ==
  /\ stage = "three" /\ Len(trees) = 2
  /\ FinaliseSingleton \/ MergeCherry \/ CutCherryOff
  /\ UNCHANGED <<stage, red, blue, todo, sawStar, trees, pairs, l3, best, cancelled>>

ThreeApproxDone ==
  /\ stage = "three" /\ (Len(trees) = 2 => ~SearchesCherry)
  /\ stage' = "next"
  /\ l3' = IF Len(trees) = 2 THEN ThreeApproxBound ELSE 1
  /\ UNCHANGED <<t1, t2, active, dualSum, red, blue, todo, sawStar, trees, pairs, best, cancelled>>

(* redBlueTwoForest: fresh clones. *)
BeginPair ==
  /\ stage = "next" /\ pairs # <<>>
  /\ t1' = ViewOf(trees[Head(pairs)[1]])
  /\ t2' = ViewOf(trees[Head(pairs)[2]])
  /\ active' = LabelsOf(trees[1])
  /\ dualSum' = 0
  /\ stage' = "preprocess"
  /\ red' = <<>> /\ blue' = <<>> /\ sawStar' = FALSE
  /\ pairs' = Tail(pairs)
  /\ UNCHANGED <<todo, trees, l3, best, cancelled>>

(* timedOut is asked in every turn of preprocess and of the main loop. *)
AsksTimedOut == AtStage("preprocess") \/ (AtStage("main") /\ active # {})

RedBlueStep ==
  /\ AsksTimedOut => ~cancelled
  /\ Preprocess \/ EndPair \/ ChooseSet \/ FinaliseNext \/ ResolveSet \/ ResolveTriplet
  /\ UNCHANGED <<trees, pairs, l3, best, cancelled>>

AbortedValue == -1

FinishPair(value) ==
  /\ best' = IF value > best THEN value ELSE best
  /\ stage' = "next"
  /\ UNCHANGED <<t1, t2, active, dualSum, red, blue, todo, sawStar, trees, pairs, l3, cancelled>>

PairEnded == stage = "ended" /\ FinishPair(AtLeastOne(dualSum))

PairAborted == AsksTimedOut /\ cancelled /\ FinishPair(AbortedValue)

Cancel ==
  /\ ~cancelled /\ stage # "three"
  /\ cancelled' = TRUE
  /\ UNCHANGED <<redBlueVars, trees, pairs, l3, best>>

Finished == stage = "next" /\ pairs = <<>> /\ UNCHANGED vars

Next ==
  \/ ThreeApproxStep \/ ThreeApproxDone
  \/ BeginPair \/ RedBlueStep \/ PairEnded \/ PairAborted
  \/ Cancel \/ Finished

Spec == Init /\ [][Next]_vars
-----------------------------------------------------------------------------
IsLowerBound(bound) ==
  \A P \in Candidates(trees) :
    Cardinality(P) < bound => ~IsAgreementForest(AsForests(trees), P)

(***************************************************************************)
(* The 3-approximation never exceeds an agreement forest: what it credits  *)
(* for leaves is outweighed by what it charges for cuts (DualLowerBound.hpp*)
(* says "it is always valid").                                             *)
(***************************************************************************)
ThreeApproxIsValid == stage = "next" => IsLowerBound(l3)

(***************************************************************************)
(* Nor does the Red-Blue dual, for any order of any two of the forests,    *)
(* wherever it is cancelled.                                               *)
(***************************************************************************)
RedBlueIsValid == stage = "next" => IsLowerBound(best)

(***************************************************************************)
(* What the accounting of a round rests on.  Once preprocess is done, the  *)
(* two sides findMinIncompat returns are incompatible together -- it never *)
(* asks -- and each is compatible.  When the red set fails, two red leaves *)
(* and one blue leaf are what is left: the degenerate remainder the code   *)
(* allows for does not happen, nor a red set that collapses early.         *)
(***************************************************************************)
RoundsAsAssumed ==
  [][/\ ChooseSet => LET R == Elements(red')  B == Elements(blue')
                      IN  /\ Compatible(R) /\ Compatible(B) /\ ~Compatible(R \union B)
                          /\ Cardinality(R) >= 2
     /\ RedDistilled => Len(RedLeft) = 2
     /\ BlueDistilled => IsTriplet]_vars

(***************************************************************************)
(* The two tests of compatibility give the same answer (compatibleSet).    *)
(***************************************************************************)
CompatibilityAgrees ==
  stage = "next" /\ best = 0 /\ ~cancelled =>
    \A S \in SUBSET LabelsOf(trees[1]) :
      Cardinality(S) > 2 => (CompatibleFast(S) <=> Compatible(S))
=============================================================================
