------------------------------ MODULE MafRules ------------------------------
(***************************************************************************)
(* The rules of src/src/Solver/Rule that the presets use, on an instance   *)
(* of X-forests: which rule is applicable first, and what each of its      *)
(* branches does.  They are the rule parameters of BranchingSolver.        *)
(*                                                                         *)
(* An instance is the record of its forests, the order in which labels are *)
(* tried, Context::clusterRootLabel (0 if there is none) as root, and      *)
(* Context::protectedEdges, an edge being the node below it.  A node is    *)
(* named by the labels it had at the start; no labels name no node, the    *)
(* null pointer.                                                           *)
(***************************************************************************)
EXTENDS Integers, Sequences, FiniteSets, SequencesExt, ForestNavigation

Trees(I) == DOMAIN I.forest
Least(S) == CHOOSE x \in S : \A y \in S : x <= y

-----------------------------------------------------------------------------
(* What the rules read off the pointers of a forest. *)

Uncle(f, n) == Sibling(f, Parent(f, n))

(* labelToTerminal and terminalToLabel *)
TerminalOf(f, x) == CHOOSE n \in DOMAIN f : x \in f[n] /\ IsTerminal(f, n)
LabelOf(f, n) == Least(f[n])

IsLeafOf(f, n) == n # None /\ IsTerminal(f, n)

Connected(f, a, c) == \E r \in DOMAIN f : f[a] \union f[c] \subseteq f[r]

(* The pendant subtrees between a and the lowest common ancestor with c. *)
PendantOnSide(f, a, c) ==
  LET path == {m \in DOMAIN f : /\ f[a] \subseteq f[m] /\ f[m] \intersect f[c] = {}
                                /\ f[Parent(f, m)] \intersect f[c] = {}}
      upwards == SetToSortSeq(path, LAMBDA m, n : f[m] \subseteq f[n])
  IN  [k \in DOMAIN upwards |-> Sibling(f, upwards[k])]

(* checkBNodes, and the walk of allRules where there are more. *)
BNodes(f, a, c) == PendantOnSide(f, a, c) \o PendantOnSide(f, c, a)

(* checkBNodes: at most two of them, all on one side. *)
FewBNodes(f, a, c) ==
  LET left == Len(PendantOnSide(f, a, c))
      right == Len(PendantOnSide(f, c, a))
  IN  left + right \in {1, 2} /\ (left = 0 \/ right = 0)

-----------------------------------------------------------------------------
(* A slip: a collapsed terminal with the cluster root counts as the root alone. *)
ForestWeightOfTerminals(f, root) ==
  LET rho == TerminalOf(f, root)
      rootAlone == root # 0 /\ Parent(f, rho) = None
  IN  2 * Cardinality(Roots(f)) - (IF rootAlone THEN 1 ELSE 0)

(* Context::weightFunction, doubled: a cluster root alone is worth a half. *)
ForestWeight(f, root) ==
  LET rho == TerminalOf(f, root)
      rootAlone == /\ root # 0
                   /\ Parent(f, rho) = None /\ Cardinality(f[rho]) = 1
  IN  2 * Cardinality(Roots(f)) - (IF rootAlone THEN 1 ELSE 0)

InstanceWeight(I) == ForestWeight(I.forest[1], I.root)

(* initializeContext: the labels of the first forest, left to right. *)
LabelOrder(f) ==
  LET before(x, y) ==
        \E a, b \in DOMAIN f :
           /\ a # b /\ x \in f[a] /\ y \in f[b] /\ Least(f[a]) < Least(f[b])
           /\ f[a] \intersect f[b] = {}
           /\ \E p \in DOMAIN f : AreChildren(f, a, b, p)
  IN  SetToSortSeq(UNION {f[n] : n \in DOMAIN f}, before)

-----------------------------------------------------------------------------
(* Applying a rule.  A run of cuts is stopped by a protected edge. *)

Cut(I, i, n) == [I EXCEPT !.forest[i] = CutEdge(@, n, Parent(@, n))]

(* The edge above the terminal of x is cut, unless it is a root; then the  *)
(* edge above the terminal of keep in that forest is protected.            *)
CutLabel(run, i, x, keep) ==
  LET I == run.instance
      n == TerminalOf(I.forest[i], x)
      J == Cut(I, i, n)
  IN  IF run.blocked \/ IsRoot(I.forest[i], n) THEN run
      ELSE IF <<i, n>> \in I.protected THEN [run EXCEPT !.blocked = TRUE]
      ELSE [run EXCEPT !.instance =
              IF keep = 0 THEN J
              ELSE [J EXCEPT !.protected =
                      @ \union {<<i, TerminalOf(J.forest[i], keep)>>}]]

(* The edge above node n; DeleteEdgeAction refuses a node without parent. *)
CutNode(run, i, n) ==
  LET I == run.instance
  IN  IF run.blocked \/ run.thrown THEN run
      ELSE IF <<i, n>> \in I.protected THEN [run EXCEPT !.blocked = TRUE]
      ELSE IF IsRoot(I.forest[i], n) THEN [run EXCEPT !.thrown = TRUE]
      ELSE [run EXCEPT !.instance = Cut(I, i, n)]

Start(I) == [instance |-> I, blocked |-> FALSE, thrown |-> FALSE]

Result(run, code, next) ==
  [instance |-> run.instance,
   code |-> IF run.thrown THEN "Throw" ELSE IF run.blocked THEN "CutBranch" ELSE code,
   suggestion |-> IF run.thrown \/ run.blocked THEN <<>> ELSE next]

(* A slip: the first label that is a root ends the cuts in a forest. *)
CutEverywhereToRoot(I, xs, keep) ==
  LET rootAmong(i, k) == \E j \in 1..k :
        IsRoot(I.forest[i], TerminalOf(I.forest[i], xs[j]))
      upTo(i) == SubSeq(xs, 1, Cardinality({k \in DOMAIN xs : ~rootAmong(i, k)}))
  IN  FoldLeft(LAMBDA run, i :
                 FoldLeft(LAMBDA r, x : CutLabel(r, i, x, keep), run, upTo(i)),
               Start(I), [i \in Trees(I) |-> i])

(* In every forest, the terminals of the labels xs are cut in this order. *)
CutEverywhere(I, xs, keep) ==
  FoldLeft(LAMBDA run, i : FoldLeft(LAMBDA r, x : CutLabel(r, i, x, keep), run, xs),
           Start(I), [i \in Trees(I) |-> i])

(* EqualPairReductionRule: the parent of the pair becomes a terminal. *)
Contract(I, a) ==
  LET p(i) == Parent(I.forest[i], TerminalOf(I.forest[i], a))
  IN  IF \E i \in Trees(I) : p(i) = None
      THEN [Start(I) EXCEPT !.thrown = TRUE]
      ELSE Start([I EXCEPT !.forest =
                    [i \in Trees(I) |-> CollapseSubtree(I.forest[i], p(i))]])

(* ABCBranchingRule, branch 1: the subtrees between a and c are cut. *)
CutBetween(I, between) ==
  FoldLeft(LAMBDA run, b : FoldLeft(LAMBDA r, n : CutNode(r, b.tree, n), run, b.nodes),
           Start(I), between)

(* A slip: the parent of c is cut, not c. *)
CutCherryParent(I, a, c) ==
  LET f == I.forest[2]
      aNode == TerminalOf(f, a)
      nodes == <<aNode, Sibling(f, aNode), Parent(f, TerminalOf(f, c))>>
      cutIf(J, n) == IF n \notin DOMAIN J.forest[2] \/ IsRoot(J.forest[2], n) THEN J
                     ELSE Cut(J, 2, n)
  IN  Start(FoldLeft(cutIf, I, nodes))

(* ForcedCherryCutRule: a, its sibling b, and c, in the second forest. *)
CutCherry(I, a, c) ==
  LET f == I.forest[2]
      aNode == TerminalOf(f, a)
      nodes == <<aNode, Sibling(f, aNode), TerminalOf(f, c)>>
      cutIf(J, n) == IF n = None \/ IsRoot(J.forest[2], n) THEN J ELSE Cut(J, 2, n)
  IN  IF \E k \in 1..3 : <<2, nodes[k]>> \in I.protected
      THEN [Start(I) EXCEPT !.blocked = TRUE]
      ELSE Start(FoldLeft(cutIf, I, nodes))

EqualPair(a, c) == [kind |-> "EqualPair", a |-> a, c |-> c]

(* One label or two, the other of the pair, the two between them, and a. *)
BOutcome(I, r) == CutEverywhere(I, r.labels, 0)
ReverseBOutcome(I, r) == CutEverywhere(I, r.labels, 0)
TwoBOutcome(I, r) == CutEverywhere(I, r.labels, 0)
GreedyCherryCutOutcome(I, r) == CutEverywhere(I, r.labels, 0)

ACOutcome(I, r, branch) ==
  CASE branch = 1 -> CutEverywhere(I, <<r.a>>, 0)
    [] branch = 2 -> CutEverywhere(I, <<r.c>>, r.a)

ABCOutcome(I, r, branch) ==
  CASE branch = 1 -> Result(CutBetween(I, r.between), "ContinueWithRuleSuggestion",
                            <<EqualPair(r.a, r.c)>>)
    [] branch = 2 -> Result(CutEverywhere(I, <<r.c>>, 0), "Continue", <<>>)
    [] branch = 3 -> Result(CutEverywhere(I, <<r.a>>, r.c), "Continue", <<>>)

Branches(r) == CASE r.kind = "AC" -> 2 [] r.kind = "ABC" -> 3 [] OTHER -> 1

(* SingleVertexTreePropagationRule goes through a hash set: in any order. *)
RuleOutcomes(I, r, branch) ==
  LET plain(run) == {Result(run, "Continue", <<>>)}
      ending(code) == {Result(Start(I), code, <<>>)}
  IN  CASE r.kind = "AC" -> plain(ACOutcome(I, r, branch))
        [] r.kind = "ABC" -> {ABCOutcome(I, r, branch)}
        [] r.kind = "EqualPair" -> plain(Contract(I, r.a))
        [] r.kind = "B" -> plain(BOutcome(I, r))
        [] r.kind = "ReverseB" -> plain(ReverseBOutcome(I, r))
        [] r.kind = "TwoB" -> plain(TwoBOutcome(I, r))
        [] r.kind = "GreedyCherryCut" -> plain(GreedyCherryCutOutcome(I, r))
        [] r.kind = "ForcedCherryCut" -> plain(CutCherry(I, r.a, r.c))
        [] r.kind = "SingleVertexTreePropagation" ->
             UNION {plain(CutEverywhere(I, xs, 0)) : xs \in SetToSeqs(r.labels)}
        [] r.kind = "CheckSingleVertexTrees" -> ending("EndBranchWithSolutionCandidate")
        [] r.kind = "CutBranch" -> ending("CutBranch")
        [] r.kind = "DebugAssertFalse" -> ending("ImidateReturn")

-----------------------------------------------------------------------------
(* SiblingRuleFactory *)

(* getSiblings: the first terminal in the order whose sibling is one too. *)
PairPositions(I) ==
  LET f == I.forest[1]
  IN  {k \in {j \in DOMAIN I.order : \E n \in DOMAIN f : I.order[j] \in f[n]} :
         IsLeafOf(f, Sibling(f, TerminalOf(f, I.order[k])))}

HasPair(I) == PairPositions(I) # {}

PairNode(I) == TerminalOf(I.forest[1], I.order[Least(PairPositions(I))])
PairA(I) == LabelOf(I.forest[1], PairNode(I))
PairC(I) == LabelOf(I.forest[1], Sibling(I.forest[1], PairNode(I)))

(* A slip: the last forest is not looked at. *)
ApartBeforeLast(I, a, c) ==
  {i \in 2..Len(I.forest) - 1 :
     Sibling(I.forest[i], TerminalOf(I.forest[i], a)) # TerminalOf(I.forest[i], c)}

(* The forests where a and c are no siblings. *)
Apart(I, a, c) ==
  {i \in Trees(I) \ {1} :
     Sibling(I.forest[i], TerminalOf(I.forest[i], a)) # TerminalOf(I.forest[i], c)}

Between(I, a, c, i) ==
  BNodes(I.forest[i], TerminalOf(I.forest[i], a), TerminalOf(I.forest[i], c))

(* The labels of the subtrees between a and c, in the order they are met. *)
BLabels(I, a, c) ==
  FoldLeft(LAMBDA xs, i :
             xs \o SelectSeq([k \in DOMAIN Between(I, a, c, i) |->
                               LabelOf(I.forest[i], Between(I, a, c, i)[k])],
                             LAMBDA x : \A j \in DOMAIN xs : xs[j] # x),
           <<>>, SetToSortSeq(Apart(I, a, c), <))

(* A slip: subtrees between a and c pass for terminals. *)
BNodesAreFew(I, a, c) ==
  \A i \in Apart(I, a, c) :
    FewBNodes(I.forest[i], TerminalOf(I.forest[i], a), TerminalOf(I.forest[i], c))

BNodesAreLeaves(I, a, c) ==
  \A i \in Apart(I, a, c) :
    LET f == I.forest[i]
        between == Between(I, a, c, i)
    IN  /\ FewBNodes(f, TerminalOf(f, a), TerminalOf(f, c))
        /\ \A k \in DOMAIN between : IsLeafOf(f, between[k])

(* The same subtree, or one of two, between a and c wherever they are apart. *)
BRuleApplies(I, a, c) ==
  /\ BNodesAreLeaves(I, a, c)
  /\ Len(BLabels(I, a, c)) <= 2
  /\ \A i \in Apart(I, a, c) : Len(Between(I, a, c, i)) = 1

(* The uncle of the pair in the first forest, where it is a terminal: c2. *)
HasC2(I, a) == IsLeafOf(I.forest[1], Uncle(I.forest[1], TerminalOf(I.forest[1], a)))
C2(I, a) == LabelOf(I.forest[1], Uncle(I.forest[1], TerminalOf(I.forest[1], a)))

(* Where a and c are siblings, their uncle is c2 as well. *)
SameUncle(I, a, c) ==
  \A i \in Trees(I) \ ({1} \union Apart(I, a, c)) :
    LET f == I.forest[i]
        uncle == Uncle(f, TerminalOf(f, a))
    IN  IsLeafOf(f, uncle) /\ LabelOf(f, uncle) = C2(I, a)

(* c2 is the sibling of x wherever a and c are apart: the other is cut. *)
ReverseBApplies(I, a, c, x) ==
  /\ HasC2(I, a) /\ SameUncle(I, a, c)
  /\ \A i \in Apart(I, a, c) :
       Sibling(I.forest[i], TerminalOf(I.forest[i], C2(I, a))) = TerminalOf(I.forest[i], x)

TwoBApplies(I, a, c) ==
  /\ HasC2(I, a) /\ SameUncle(I, a, c)
  /\ \A i \in Apart(I, a, c) : \E x \in {a, c} :
       LET f == I.forest[i] IN Uncle(f, TerminalOf(f, x)) = TerminalOf(f, C2(I, a))
  /\ BNodesAreLeaves(I, a, c)
  /\ Len(BLabels(I, a, c)) <= 2
  /\ \A k \in DOMAIN BLabels(I, a, c) : BLabels(I, a, c)[k] # C2(I, a)

ABC(I, a, c) ==
  LET apart == SetToSortSeq(Apart(I, a, c), <)
  IN  [kind |-> "ABC", a |-> a, c |-> c,
       between |-> [k \in DOMAIN apart |->
                      [tree |-> apart[k], nodes |-> Between(I, a, c, apart[k])]]]

CutLabels(kind, xs) == [kind |-> kind, labels |-> xs]

(* allRules *)
AllRules(I, a, c) ==
  IF Apart(I, a, c) = {} THEN EqualPair(a, c)
  ELSE IF \E i \in Apart(I, a, c) :
            ~Connected(I.forest[i], TerminalOf(I.forest[i], a), TerminalOf(I.forest[i], c))
       THEN [kind |-> "AC", a |-> a, c |-> c]
  ELSE IF BRuleApplies(I, a, c) THEN CutLabels("B", BLabels(I, a, c))
  ELSE IF ReverseBApplies(I, a, c, a) THEN CutLabels("ReverseB", <<c>>)
  ELSE IF ReverseBApplies(I, a, c, c) THEN CutLabels("ReverseB", <<a>>)
  ELSE IF TwoBApplies(I, a, c) THEN CutLabels("TwoB", BLabels(I, a, c))
  ELSE ABC(I, a, c)

(* approximationRule *)
ApproximationRule(I, a, c) ==
  IF Apart(I, a, c) = {} THEN EqualPair(a, c)
  ELSE IF Cardinality(Trees(I)) = 2
       THEN [kind |-> "ForcedCherryCut", a |-> a, c |-> c]
  ELSE CutLabels("GreedyCherryCut", <<a>>)

-----------------------------------------------------------------------------
(* The lists of active rules of BranchingSolverConfiguration. *)

(* CutBranchRule::isApplicable *)
Hopeless(I, best) == \E i \in Trees(I) : ForestWeight(I.forest[i], I.root) >= best
TooLarge(I, size) == \E i \in Trees(I) : Cardinality(Roots(I.forest[i])) > size

(* A slip: a contracted terminal is not one tree for its labels. *)
AllLabelsAreRoots(I) == Cardinality(Roots(I.forest[1])) = Len(I.order)

(* CheckSingleVertexTreesRule::isApplicable *)
OnlySingleVertices(I) == Roots(I.forest[1]) = Terminals(I.forest[1])

(* The labels that are a tree of their own in some but not all forests. *)
MismatchedLabels(I) ==
  LET single(i) == UNION {I.forest[i][n] : n \in Roots(I.forest[i]) \intersect Terminals(I.forest[i])}
  IN  UNION {single(i) : i \in Trees(I)} \ {x \in single(1) : \A i \in Trees(I) : x \in single(i)}

FirstOf(I, siblingRule) ==
  IF OnlySingleVertices(I) THEN [kind |-> "CheckSingleVertexTrees"]
  ELSE IF MismatchedLabels(I) # {}
       THEN CutLabels("SingleVertexTreePropagation", MismatchedLabels(I))
  ELSE IF HasPair(I) THEN siblingRule
  ELSE [kind |-> "DebugAssertFalse"]

(* activeRules: CutBranchRule comes first. *)
ActiveRules(I, best, size, bounded) ==
  IF IF bounded THEN TooLarge(I, size) ELSE Hopeless(I, best)
  THEN [kind |-> "CutBranch"]
  ELSE FirstOf(I, AllRules(I, PairA(I), PairC(I)))

ApproximationRules(I) == FirstOf(I, ApproximationRule(I, PairA(I), PairC(I)))
=============================================================================
