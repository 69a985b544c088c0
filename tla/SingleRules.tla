----------------------------- MODULE SingleRules -----------------------------
(***************************************************************************)
(* The sibling rules of src/src/Solver/Rule as they decide for themselves  *)
(* whether they apply, each in its own isApplicable: a list of active      *)
(* rules may name them one by one in place of SiblingRuleFactory, as the   *)
(* list of src/tests/TwoBRuleTests.cpp does.  Also the smaller dispatcher  *)
(* of the factory, basicRules.                                             *)
(*                                                                         *)
(* The rules that go through TerminalToLabel, a hash map, take the first   *)
(* sibling pair they meet, the same one: pair.  Those that go through      *)
(* LabelToTerminal take the pairs in the order of the labels.              *)
(***************************************************************************)
EXTENDS MafRules

(* The ordered pairs of terminals that are siblings in the first forest. *)
SiblingPairs(I) ==
  LET f == I.forest[1]
  IN  {<<LabelOf(f, n), LabelOf(f, Sibling(f, n))>> :
         n \in {m \in Terminals(f) : IsLeafOf(f, Sibling(f, m))}}

(* Those in pairs, in the order of their first labels. *)
InLabelOrder(pairs) == SetToSortSeq(pairs, LAMBDA p, q : p[1] < q[1])

Others(I) == Trees(I) \ {1}
NodeOf(I, i, x) == TerminalOf(I.forest[i], x)

NotApplicable == <<>>

-----------------------------------------------------------------------------
(* isApplicable of each rule: the rule, or none. *)

EqualPairApplicable(I, pair) ==
  IF Apart(I, pair[1], pair[2]) = {} THEN <<EqualPair(pair[1], pair[2])>> ELSE NotApplicable

ACApplicable(I, pair) ==
  IF \E i \in Others(I) :
       ~Connected(I.forest[i], NodeOf(I, i, pair[1]), NodeOf(I, i, pair[2]))
  THEN <<[kind |-> "AC", a |-> pair[1], c |-> pair[2]]>>
  ELSE NotApplicable

ABCApplicable(I, pair) ==
  IF ACApplicable(I, pair) = NotApplicable /\ Apart(I, pair[1], pair[2]) # {}
  THEN <<ABC(I, pair[1], pair[2])>>
  ELSE NotApplicable

(* isA3Path: the node b where one of a and c is the uncle of the other. *)
ThirdOfPath(f, a, c) ==
  LET uncleOf(x, y) == Parent(f, Parent(f, y)) # None /\ Parent(f, Parent(f, y)) = Parent(f, x)
  IN  IF uncleOf(c, a) THEN Sibling(f, a)
      ELSE IF uncleOf(a, c) THEN Sibling(f, c)
      ELSE None

(* The same terminal between a and c in every forest where they are apart. *)
BApplicable(I) ==
  LET pair == InLabelOrder(SiblingPairs(I))[1]
      third(i) == ThirdOfPath(I.forest[i], NodeOf(I, i, pair[1]), NodeOf(I, i, pair[2]))
      apart == Apart(I, pair[1], pair[2])
      labels == {LabelOf(I.forest[i], third(i)) : i \in apart}
  IN  IF /\ \A i \in apart : IsLeafOf(I.forest[i], third(i))
         /\ Cardinality(labels) = 1
      THEN <<CutLabels("B", SetToSeq(labels))>>
      ELSE NotApplicable

(* The pairs with a terminal for an uncle, with that uncle. *)
PairsWithUncle(I) ==
  LET uncle(p) == Uncle(I.forest[1], NodeOf(I, 1, p[1]))
  IN  {<<p[1], p[2], LabelOf(I.forest[1], uncle(p))>> :
         p \in {q \in SiblingPairs(I) : IsLeafOf(I.forest[1], uncle(q))}}

(* The uncle is the sibling of x in every other forest. *)
UncleIsBeside(I, unc, x) ==
  \A i \in Others(I) : Sibling(I.forest[i], NodeOf(I, i, unc)) = NodeOf(I, i, x)

ReverseBApplicable(I) ==
  LET cuts(p) == UncleIsBeside(I, p[3], p[2]) \/ UncleIsBeside(I, p[3], p[1])
      pairs == InLabelOrder({p \in PairsWithUncle(I) : cuts(p)})
  IN  IF pairs = <<>> THEN NotApplicable
      ELSE LET p == pairs[1]
           IN  <<CutLabels("ReverseB",
                           IF UncleIsBeside(I, p[3], p[2]) THEN <<p[1]>> ELSE <<p[2]>>)>>

(* ((((a,b1),b2),c),x) in forest i: b1 and b2, terminals. *)
Separators(I, i, a) ==
  LET f == I.forest[i]
      n == NodeOf(I, i, a)
  IN  IF IsLeafOf(f, Sibling(f, n)) /\ IsLeafOf(f, Uncle(f, n))
      THEN <<LabelOf(f, Sibling(f, n)), LabelOf(f, Uncle(f, n))>>
      ELSE <<>>

TwoBFits(I, i, p) ==
  LET f == I.forest[i]
      grandparent == Parent(f, Parent(f, NodeOf(I, i, p[1])))
  IN  /\ Sibling(f, grandparent) = NodeOf(I, i, p[2])
      /\ Uncle(f, grandparent) = NodeOf(I, i, p[3])
      /\ Separators(I, i, p[1]) # <<>>
      /\ Separators(I, i, p[1]) = Separators(I, 2, p[1])

(* The alternative ((a,c),x) in a later forest is computed and not used. *)
TwoBApplicable(I) ==
  LET pairs == InLabelOrder({p \in PairsWithUncle(I) : \A i \in Others(I) : TwoBFits(I, i, p)})
  IN  IF pairs = <<>> THEN NotApplicable
      ELSE <<CutLabels("TwoB", Separators(I, 2, pairs[1][1]))>>

ForcedCherryCutApplicable(I, pair) ==
  IF /\ Cardinality(Trees(I)) = 2 /\ Apart(I, pair[1], pair[2]) # {}
     /\ \A x \in {pair[1], pair[2]} : ~IsRoot(I.forest[2], NodeOf(I, 2, x))
  THEN <<[kind |-> "ForcedCherryCut", a |-> pair[1], c |-> pair[2]]>>
  ELSE NotApplicable

GreedyCherryCutApplicable(I, pair) ==
  IF Apart(I, pair[1], pair[2]) # {} THEN <<CutLabels("GreedyCherryCut", <<pair[1]>>)>>
  ELSE NotApplicable

-----------------------------------------------------------------------------
(* A list of rules: the first that applies, whatever pair is met first. *)
FirstInList(I, applicable) ==
  IF SiblingPairs(I) = {} \/ OnlySingleVertices(I) \/ MismatchedLabels(I) # {}
  THEN {FirstOf(I, NotApplicable)}
  ELSE {Head(applicable[pair] \o <<[kind |-> "DebugAssertFalse"]>>) : pair \in SiblingPairs(I)}

(* The list of TwoBRuleTests.cpp, with all sibling rules. *)
RulesOneByOne(I, best) ==
  IF Hopeless(I, best) THEN {[kind |-> "CutBranch"]}
  ELSE FirstInList(I, [pair \in SiblingPairs(I) |->
         EqualPairApplicable(I, pair) \o BApplicable(I) \o ReverseBApplicable(I)
           \o TwoBApplicable(I) \o ACApplicable(I, pair) \o ABCApplicable(I, pair)])

(* The rules that approximationRule replaces, in the order of its comment. *)
ApproximationRulesOneByOne(I) ==
  FirstInList(I, [pair \in SiblingPairs(I) |->
    EqualPairApplicable(I, pair) \o ForcedCherryCutApplicable(I, pair)
      \o GreedyCherryCutApplicable(I, pair)])

(* basicRules *)
BasicRules(I, a, c) ==
  IF Apart(I, a, c) = {} THEN EqualPair(a, c)
  ELSE IF \E i \in Apart(I, a, c) : ~Connected(I.forest[i], NodeOf(I, i, a), NodeOf(I, i, c))
       THEN [kind |-> "AC", a |-> a, c |-> c]
  ELSE ABC(I, a, c)

BasicActiveRules(I, best) ==
  IF Hopeless(I, best) THEN [kind |-> "CutBranch"]
  ELSE FirstOf(I, BasicRules(I, PairA(I), PairC(I)))
=============================================================================
