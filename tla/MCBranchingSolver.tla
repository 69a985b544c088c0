------------------------- MODULE MCBranchingSolver -------------------------
(* Small search trees for BranchingSolver.  A node of a tree is an instance; *)
(* Child gives its successors, one for each branch of the rule at it.        *)
EXTENDS BranchingSolver, TLC

Child ==
  \* a reduction suggests a branching rule and one more reduction; the queue
  \* is dropped when the branching rule is resumed
  10 :> <<11, 12, 13>> @@ 11 :> <<14>> @@ 14 :> <<15, 16>> @@ 15 :> <<17>>
  @@ 16 :> <<18>> @@ 13 :> <<19, 21>> @@ 21 :> <<22>>
  \* nested branching, the optimum in the middle
  @@ 30 :> <<31, 32>> @@ 31 :> <<33, 34>> @@ 32 :> <<35, 36, 37>>
  \* a dead end, before the solution; 53 and 54 are what a branch meant for 50
  \* makes of 51
  @@ 50 :> <<51, 52>> @@ 51 :> <<53, 54>>

LeafWeight == 12 :> 7 @@ 17 :> 8 @@ 18 :> 6 @@ 19 :> 6 @@ 22 :> 5
              @@ 33 :> 6 @@ 34 :> 8 @@ 35 :> 7 @@ 36 :> 4 @@ 37 :> 4 @@ 52 :> 6
InnerWeight == 10 :> 2 @@ 11 :> 4 @@ 13 :> 3 @@ 14 :> 4 @@ 15 :> 6 @@ 16 :> 6
               @@ 21 :> 5 @@ 30 :> 2 @@ 31 :> 4 @@ 32 :> 4 @@ 50 :> 2 @@ 51 :> 4
               @@ 53 :> 6 @@ 54 :> 6
Dead == {51}

MCWeight(i) == (LeafWeight @@ InnerWeight)[i]

Rule(i) == CASE i \in DOMAIN LeafWeight -> "check"
             [] i \in Dead -> "assertFalse"
             [] i = 11 -> "suggest"
             [] Len(Child[i]) = 1 -> "reduce"
             [] Len(Child[i]) = 2 -> "branch2"
             [] Len(Child[i]) = 3 -> "branch3"

(* The second tree is searched without a rule that cuts branches, as the    *)
(* approximation is, but for a bounded search.                              *)
Pruned(conf, i, weight, size) ==
  IF conf.boundedDepthSearch THEN MCWeight(i) > 2 * size
  ELSE i \notin 30..39 /\ MCWeight(i) >= weight

MCFirstApplicable(conf, i, weight, size) ==
  {IF Pruned(conf, i, weight, size) THEN "cut" ELSE Rule(i)}

MCMaxBranch(r) == CASE r = "branch2" -> 2 [] r = "branch3" -> 3 [] OTHER -> 1

Outcome(i, code, next) == {[instance |-> i, code |-> code, suggestion |-> next]}

MCApply(i, r, b) ==
  CASE r = "cut" -> Outcome(i, "CutBranch", <<>>)
    [] r = "check" -> Outcome(i, "EndBranchWithSolutionCandidate", <<>>)
    [] r = "assertFalse" -> Outcome(i, "ImidateReturn", <<>>)
    [] r = "suggest" -> Outcome(Child[i][b], "ContinueWithRuleSuggestion",
                                <<"branch2", "reduce">>)
    [] OTHER -> Outcome(Child[i][b], "Continue", <<>>)

MCOptimum(i) == CASE i = 10 -> 5 [] i = 30 -> 4 [] i = 50 -> 6

Steps(rules) == [k \in DOMAIN rules |-> Entry(rules[k][1], rules[k][2])]
NoSeed == [branch |-> <<>>, weight |-> 0]
MCSeeds(conf, i) ==
  CASE i = 10 -> {NoSeed,
                  [branch |-> Steps(<< <<"branch3", 1>>, <<"suggest", 1>>,
                                       <<"branch2", 2>>, <<"reduce", 1>>,
                                       <<"check", 1>> >>), weight |-> 6]}
    [] i = 30 -> {NoSeed,
                  [branch |-> Steps(<< <<"branch2", 2>>, <<"branch3", 2>>,
                                       <<"check", 1>> >>), weight |-> 4]}
    [] i = 50 -> {NoSeed,
                  [branch |-> Steps(<< <<"branch2", 2>>, <<"check", 1>> >>),
                   weight |-> 6]}

MCInstances == {10, 30, 50}

(* Bounded search never gets past the dead end of the last tree, and is not *)
(* combined with the others by any preset.                                  *)
Plain == [boundedDepthSearch |-> FALSE, certifiedEarlyExit |-> FALSE, deadline |-> FALSE]
MCConfigurations(i) ==
  {Plain, [Plain EXCEPT !.deadline = TRUE],
   [Plain EXCEPT !.certifiedEarlyExit = TRUE, !.deadline = TRUE]}
  \union (IF i = 30 THEN {[Plain EXCEPT !.boundedDepthSearch = TRUE]} ELSE {})

MCThresholds == {4, 5, 6, 8}

(* Every seed is a branch of the instance it is given for. *)
ASSUME SeedsFitTheirInstances ==
  \A i \in Instances : \A conf \in Configurations(i) : \A seed \in Seeds(conf, i) :
    IsSeq(seed.branch) /\ Fits(seed, i, SomePath(seed.branch, i))
=============================================================================
