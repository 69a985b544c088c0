---------------------------- MODULE MCMafSearch ----------------------------
(* The search of BranchingSolver with the rules of MafRules.  The instances *)
(* are all those of a family, up to a renaming of the labels: the labels of *)
(* the first tree, or of the last, are in order.                            *)
EXTENDS BranchingSolver, ChainReduction, AgreementForests, SmallTrees, TLC

CONSTANTS Families

InstanceOf(trees, root) ==
  [forest |-> [i \in DOMAIN trees |-> AsForest(trees[i])],
   order |-> LabelOrder(AsForest(trees[1])), root |-> root, protected |-> {}]

(* Every pair of trees over n labels. *)
Pairs(n) ==
  LET all == TreesOver[1..n]
  IN  {InstanceOf(<<s, t>>, 0) : s \in {u \in all : InOrder(u)}, t \in all}

(* Three trees, the first and the last with the labels in order. *)
Triples(n) ==
  LET all == TreesOver[1..n]
      inOrder == {t \in all : InOrder(t)}
  IN  {InstanceOf(c, 0) : c \in inOrder \X all \X inOrder}

(* A caterpillar, any tree, and a tree with the labels in order that shares *)
(* no inner cluster with the caterpillar.                                   *)
Some(n) ==
  LET all == TreesOver[1..n]
      caterpillar == {{x} : x \in 1..n} \union {1..x : x \in 1..n}
      unlike == {t \in all : InOrder(t) /\ \A x \in 2..n - 1 : 1..x \notin t}
  IN  {InstanceOf(<<caterpillar, s, t>>, 0) : s \in all, t \in unlike}

(* Clusters of three trees, the first and the last with the labels in order *)
(* and not the same; the last label is the cluster root.                    *)
SomeClusters(n) ==
  LET below == TreesOver[1..n - 1]
      inOrder == {t \in below : InOrder(t)}
      withRoot(t) == t \union {1..n, {n}}
  IN  {InstanceOf(<<withRoot(s), withRoot(t), withRoot(u)>>, n) :
         <<s, t, u>> \in {c \in inOrder \X below \X inOrder : c[1] # c[3]}}

(* The trees over n labels with the chain 1, 2, 3, 4: a tree with some of   *)
(* the others below it, and, in place of 4, itself in a tree of the rest.   *)
WithChain(n) ==
  LET joined(s, t) ==
        s \union {{x} : x \in 1..4} \union {UNION s \union 1..x : x \in 1..4}
          \union {IF 4 \in m THEN m \union UNION s \union 1..4 ELSE m : m \in t}
      below == {B \in SUBSET (5..n) : Cardinality(B) >= 2 /\ B # 5..n}
  IN  UNION {{joined(s, t) : s \in TreesOver[B],
                             t \in TreesOver[{4} \union (5..n \ B)]} : B \in below}

PairsWithChain(n) ==
  LET others(t) == {m \intersect (5..n) : m \in t} \ {{}}
  IN  {InstanceOf(c, 0) : c \in {d \in [1..2 -> WithChain(n)] : InOrder(others(d[1]))}}

MCInstances ==
  UNION {CASE f = "small pairs" -> Pairs(4)
           [] f = "pairs" -> Pairs(5)
           [] f = "triples" -> Triples(4)
           [] f = "some triples" -> Some(5)
           [] f = "clusters" -> SomeClusters(5)
           [] f = "chains" -> PairsWithChain(7) : f \in Families}

(* Small pairs are searched with a bounded depth as well, pairs and triples *)
(* of trees without a cluster root are approximated, and small pairs, and   *)
(* those to which TwoBRule applies, are searched with the rules one by one. *)
Exact == [boundedDepthSearch |-> FALSE, certifiedEarlyExit |-> FALSE,
          deadline |-> FALSE, rules |-> "allRules"]
Bounded == [Exact EXCEPT !.boundedDepthSearch = TRUE]
Approximation == [Exact EXCEPT !.rules = "approximationRule"]
OneByOne == [Exact EXCEPT !.rules = "one by one"]
Basic == [Exact EXCEPT !.rules = "basicRules"]
ApproximationOneByOne == [Exact EXCEPT !.rules = "approximation one by one"]

Chained == [Exact EXCEPT !.rules = "with chains"]

MCConfigurations(I) ==
  LET pair == Len(I.forest) = 2
      small == Len(I.order) = 4
      greedy == I.root = 0 /\ Len(I.forest) + Len(I.order) = 7
      twoB == pair /\ TwoBApplicable(I) # NotApplicable
  IN  IF ReducedChains(I) # {} THEN {Chained}
      ELSE {c \in {Exact, Bounded, Basic, OneByOne, Approximation, ApproximationOneByOne} :
              CASE c = Exact -> TRUE
                [] c \in {Bounded, Basic} -> pair /\ small
                [] c = OneByOne -> twoB \/ (pair /\ small)
                [] c = Approximation -> greedy
                [] c = ApproximationOneByOne -> pair /\ small}

MCFirstApplicable(conf, I, weight, size) ==
  CASE conf.rules = "allRules" -> {ActiveRules(I, weight, size, conf.boundedDepthSearch)}
    [] conf.rules = "approximationRule" -> {ApproximationRules(I)}
    [] conf.rules = "one by one" -> RulesOneByOne(I, weight)
    [] conf.rules = "approximation one by one" -> ApproximationRulesOneByOne(I)
    [] conf.rules = "with chains" -> {RulesWithChains(I, weight)}
    [] conf.rules = "basicRules" -> {BasicActiveRules(I, weight)}

(* In the midst of a search, a terminal may stand for a subtree: the least   *)
(* of its labels, which is never the cluster root's, stands for it.          *)
LabelsLeft(I) == {LabelOf(I.forest[1], n) : n \in Terminals(I.forest[1])}
ForestsLeft(I) ==
  [i \in Trees(I) |-> [n \in DOMAIN I.forest[i] |-> I.forest[i][n] \intersect LabelsLeft(I)]]

(* A terminal that is not on its own yet may not be, if its edge is protected. *)
SparesProtected(I, forests, P) ==
  \A e \in I.protected :
    e[2] \in DOMAIN forests[e[1]] /\ ~IsRoot(forests[e[1]], e[2]) =>
      forests[e[1]][e[2]] \notin P

(* The weights of the agreement forests that the instance still has. *)
SolutionWeights(I) ==
  UNION {{PartitionWeight(P, I.root) :
            P \in {Q \in AgreementForestsOver(forests, LabelsLeft(I)) :
                    SparesProtected(I, forests, Q)}} : forests \in {ForestsLeft(I)}}

MCOptimum(I) == Min(SolutionWeights(I) \union {Unbounded})

(* seedFromApproximation: its branch on the instance, rolled back, and the  *)
(* number of components it gave -- not their weight.                        *)
RECURSIVE ApproximationFrom(_)
ApproximationFrom(I) ==
  LET r == ApproximationRules(I)
      o == CHOOSE p \in RuleOutcomes(I, r, 1) : TRUE
      rest == ApproximationFrom(o.instance)
  IN  IF o.code # "Continue"
      THEN [branch |-> <<Entry(r, 1)>>, weight |-> 2 * Cardinality(Roots(I.forest[1]))]
      ELSE [rest EXCEPT !.branch = <<Entry(r, 1)>> \o @]

NoSeed == [branch |-> <<>>, weight |-> 0]
MCSeeds(conf, I) ==
  {IF conf = Approximation \/ Len(I.forest) = 2 THEN NoSeed
   ELSE ApproximationFrom(I)}

MCThresholds == {}

Approximates == config \in {Approximation, ApproximationOneByOne}

(* The first forest as printed. *)
Printed == UnapplyReductions(instance.forest[1], appliedRules)

(***************************************************************************)
(* Whatever stops the search, the components of the first forest are an    *)
(* agreement forest of the trees given and have the shape of the trees,    *)
(* although CheckSingleVertexTrees ended the branch after looking at the   *)
(* first forest only, and the reductions are taken back after the cuts.    *)
(* Not so for a search with chains that was stopped: its solution may cut  *)
(* all that is left of a chain and lead a path past it, where the elements *)
(* that come back on top of lower do not fit.                              *)
(***************************************************************************)
SolutionAgrees ==
  pc = "done" /\ result /\ (config = Chained => stopped = "no") =>
    \E f \in {Printed} :
      /\ IsAgreementForest(original.forest, {f[r] : r \in Roots(f)})
      /\ \A r \in Roots(f) : Shape(f, r) = Restricted(original.forest[1], f[r])

(***************************************************************************)
(* The rules cover every state the search can reach: the safety net        *)
(* DebugAssertFalseRule, "if it fires ... a real bug", never does, and no  *)
(* rule is applied to a node without a parent.                             *)
(***************************************************************************)
RulesCover ==
  pc = "apply" => \A e \in NextEntries : \A o \in Apply(instance, e.rule, e.branch + 1) :
                    o.code \notin {"ImidateReturn", "Throw"}

(***************************************************************************)
(* In every state of an exact search some branch of the rule that is       *)
(* applied keeps the optimum of the instance, the edges protected by then  *)
(* considered, and no branch claims a better one.                          *)
(***************************************************************************)
RulesKeepOptimum == ~Approximates => RulesLoseNothing

(***************************************************************************)
(* What was applied once can be applied again: rules do the same to the    *)
(* same instance, and a seed that was found on an instance before it was   *)
(* searched replays when the search begins.                                *)
(***************************************************************************)
ReplaysRepeat == RulesRepeat /\ SeedReplays

(***************************************************************************)
(* A search with all rules that was not interrupted ends with an optimal   *)
(* solution: the branches of the sibling rules, together, lose none, nor   *)
(* does the cut of a branch that cannot beat the incumbent or its seed.    *)
(***************************************************************************)
RulesAreExact == ~Approximates => ExactWhenExplored

(***************************************************************************)
(* For two trees the approximation cuts at most three edges where an       *)
(* optimal solution cuts one.                                              *)
(***************************************************************************)
ApproximationRatio ==
  pc = "done" /\ Approximates /\ Len(original.forest) = 2 =>
    Weight(instance) - 2 <= 3 * (Optimum(original) - 2)
=============================================================================
