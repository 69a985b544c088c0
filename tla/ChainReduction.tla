--------------------------- MODULE ChainReduction ---------------------------
(***************************************************************************)
(* ChainReductionRule and ShortenChainAction: a chain of terminals that    *)
(* hangs, in the same order, off one path in every forest is shortened to  *)
(* one more element than there are forests.  Only a list of active rules   *)
(* that names the rule uses it (src/tests/ChainReductionTests.cpp); the    *)
(* chain comes back when the reductions are unapplied after the search.    *)
(***************************************************************************)
EXTENDS SingleRules

(* The sibling of the label's terminal is a terminal in some forest. *)
SiblingStart(I, x) ==
  \E i \in Trees(I) : IsLeafOf(I.forest[i], Sibling(I.forest[i], NodeOf(I, i, x)))

(* The chain goes on from x: the uncle of x is the same terminal in every  *)
(* forest, and its parent is not a root.                                   *)
NextChainElement(I, x) ==
  LET uncle(i) == Uncle(I.forest[i], NodeOf(I, i, x))
      ongoing(i) == /\ IsLeafOf(I.forest[i], uncle(i))
                    /\ ~IsRoot(I.forest[i], Parent(I.forest[i], uncle(i)))
                    /\ LabelOf(I.forest[i], uncle(i)) = LabelOf(I.forest[1], uncle(1))
  IN  IF \A i \in Trees(I) : ongoing(i) THEN <<LabelOf(I.forest[1], uncle(1))>> ELSE <<>>

(* startToChain: the chains are merged until none starts within another. *)
Chains(I) ==
  LET labels == {LabelOf(I.forest[1], n) : n \in Terminals(I.forest[1])}
      chainable == {x \in labels : ~SiblingStart(I, x)}
      starts == chainable \ UNION {ToSet(NextChainElement(I, x)) : x \in chainable}
      from(x) ==
        LET chain[k \in 0..Cardinality(labels)] ==
              IF k = 0 THEN <<x>>
              ELSE LET c == chain[k - 1] IN c \o NextChainElement(I, Last(c))
        IN  chain[Cardinality(labels)]
  IN  {from(x) : x \in starts}

(* The last element of a chain that stays, and the last of the chain. *)
ReducedChains(I) ==
  LET length == Cardinality(Trees(I)) + 1
  IN  {<<c[length], Last(c)>> : c \in {d \in Chains(I) : Len(d) > length}}

ChainApplicable(I) ==
  IF ReducedChains(I) = {} THEN NotApplicable
  ELSE <<[kind |-> "Chain", chains |-> ReducedChains(I)]>>

-----------------------------------------------------------------------------
(* The labels taken out of f between the labels lower and upper. *)
ChainLabels(f, lower, upper) ==
  f[Parent(f, TerminalOf(f, upper))] \ f[Parent(f, TerminalOf(f, lower))]

(* ShortenChainAction::doAction *)
ShortenChain(f, lower, upper) ==
  LET gone == ChainLabels(f, lower, upper)
      path == {m \in DOMAIN f : /\ Below(f, Parent(f, TerminalOf(f, lower)), m)
                                /\ f[m] \subseteq f[Parent(f, TerminalOf(f, upper))]}
  IN  [m \in {n \in DOMAIN f \ path : ~(f[n] \subseteq gone)} |-> f[m] \ gone]

(***************************************************************************)
(* ShortenChainAction::undoAction, on the forest f of that time; h is the  *)
(* forest before doAction.  The chain goes above the parent lower has now, *)
(* or above lower if it is a root.                                         *)
(***************************************************************************)
RestoreChain(f, h, lower, upper) ==
  LET n == TerminalOf(f, lower)
      base == IF IsRoot(f, n) THEN n ELSE Parent(f, n)
      gone == ChainLabels(h, lower, upper)
      again == DOMAIN h \ DOMAIN ShortenChain(h, lower, upper)
  IN  [m \in DOMAIN f \union again |->
         IF m \in again THEN (h[m] \intersect gone) \union
                             (IF h[m] \subseteq gone THEN {} ELSE f[base])
         ELSE IF Below(f, base, m) THEN f[m] \union gone
         ELSE f[m]]

(* apply and unapply, for all chains in all forests. *)
Shorten(I, chains) ==
  [I EXCEPT !.forest = [i \in Trees(I) |->
     FoldSet(LAMBDA c, f : ShortenChain(f, c[1], c[2]), @[i], chains)]]

ChainOutcomes(I, r, branch) ==
  IF r.kind = "Chain" THEN {Result(Start(Shorten(I, r.chains)), "Continue", <<>>)}
  ELSE RuleOutcomes(I, r, branch)

(* The list of ChainReductionTests.cpp. *)
RulesWithChains(I, best) ==
  IF Hopeless(I, best) THEN [kind |-> "CutBranch"]
  ELSE IF OnlySingleVertices(I) \/ MismatchedLabels(I) # {} THEN FirstOf(I, NotApplicable)
  ELSE Head(ChainApplicable(I) \o <<FirstOf(I, AllRules(I, PairA(I), PairC(I)))>>)

-----------------------------------------------------------------------------
(* BranchingSolver::unapplyReductions, on the first forest: the collapsed  *)
(* subtrees and shortened chains come back, the last one first, and the    *)
(* cuts stay.  applied is the list of the rules applied, each with the     *)
(* instance before it.                                                     *)
UnapplyReduction(f, e) ==
  LET h == e.before.forest[1]
  IN  CASE e.rule.kind = "EqualPair" ->
             ExpandSubtree(f, h, Parent(h, TerminalOf(h, e.rule.a)))
        [] e.rule.kind = "Chain" ->
             FoldSet(LAMBDA c, g : RestoreChain(g, h, c[1], c[2]), f, e.rule.chains)
        [] OTHER -> f

UnapplyReductions(f, applied) ==
  FoldLeft(UnapplyReduction, f, Reverse(applied))
=============================================================================
