# A TLA+ model of the PACE 2026 agreement-forest solver

This directory specifies and verifies the core of the solver in `src/`.  Given
several rooted binary trees over the same leaf labels, the solver cuts as few
edges as possible so that what remains is the same forest in every tree: a
maximum agreement forest.  The modules are translated from the C++ sources.
`PROJECT.json` maps each definition to the lines it stands for, lists the runs
and the theorems, and gives for every property a small change of the code that
breaks it (the definitions commented "a slip").

## The system

| Component | State | Operations | Interacts with |
|---|---|---|---|
| Forest and nodes (`Graph/Forest`, `Graph/Node`) | nodes with parent, sibling, children and a bitmask of the labels below; the sorted list of roots; `labelToTerminal`, `terminalToLabel` | built once, edited in place | edited by the actions, read by every rule |
| Edit actions (`DeleteEdgeAction`, `CollapseSubtreeAction`, `DecoupleSubtreeAction`) | what each needs to undo itself | `doAction`, `undoAction` | edit a forest and the single-vertex counts |
| Single-vertex tracking (`Context`) | per label, in how many forests it is a tree of its own; the number of labels for which that is some but not all | adjusted by every edit | read by `SingleVertexTreePropagationRule` |
| Branching and reduction rules (`Rule/*`, `SiblingRuleFactory`) | protected edges; the edits of each applied rule | `isApplicable`, `apply`, `unapply` | chosen by the search, edit all forests |
| Branching search (`BranchingSolver`) | applied rules, queued rules, incumbent, size limit, clock countdown | `solve`, `rollBackBranch`, `checkSolutionCandidate`, `timeExpired` | signal flag, deadline, certified threshold |
| Approximation (`ForcedCherryCutRule`, `GreedyCherryCutRule`) | none | one greedy branch | seeds the search |
| Chain reduction (`ChainReductionRule`, `ShortenChainAction`) | the chains taken out of each forest | `isApplicable`, `apply`, `unapply` after the search | a rule like the others, in lists that name it |
| Up-front reduction (`ReductionSolver`, `SubtreeReductionRule`) | queue of common subtrees, nodes seen, the collapsed subtrees | `isApplicable`, `apply`, `unapply` after the search | the forests |
| Cluster points (`LeastCommonAncestor`, `TwinRelation`, `ClusterPointGenerator`) | Euler tours, sparse tables, twins | computed once | the decomposition |
| Cluster decomposition (`ClusterSolver`, `ClusterRange`) | the clusters, which of them were modified, the labels of cut cluster roots | decouple, split, iterate bottom-up, merge, couple | one search per cluster |
| Cluster budget (`ClusterBudget`) | weights, what is left of the global budget | `deadlineFor` | the deadline of each search |
| Certified lower bounds (`ThreeApproxDual`, `RedBlueDual`, `MutableForestView`) | a clone of two forests, the active leaves, the sum of the dual variables | a lower bound on the number of components | the certified threshold |
| Pipeline (`startSolver.cpp`, `SolverConfig.hpp`) | the stages done, the flag of the signal, the thread of the lower bounds | the stages of a track, the output | everything |
| Input and output (`ForestIO`, `Instance`) | the node in progress, the open parents, the label in progress | `ReadNewick`, `WriteNewick` | builds the forests, prints the first one |
| Plugins | -- | count, print | read the search |

What is hard here is not concurrency at large -- one thread searches, and only a
flag and an atomic integer reach it from outside -- but the length of the
protocol.  All state is edited in place and must be restored exactly: a search
applies and unapplies millions of edits, in several forests, and any stale
pointer, count, protected edge or queued rule spoils what follows, usually
without a crash: the solver prints a forest that is valid and not optimal, or
not an agreement forest.  The rules are exact only under conditions checked by
a long case analysis.  Clusters are taken apart and put together again by
position and label arithmetic.  And the result must come out whenever SIGTERM, a
deadline or a certified bound stops the search.

The hazards are listed with their lines in `PROJECT.json`; each names the
properties that would catch it, or says why there is none yet.

## The modules

### Editing

`LaminarForest` is the vocabulary: a forest as a function from its nodes to the
sets of labels below them.  Parent, sibling, root and terminal are derived from
inclusion (`ForestNavigation` reads the pointers off).  `CutEdge`,
`CollapseSubtree` and `ExpandSubtree` are what the edits mean.

`ForestEditing` is the abstract specification: two edits, the undo of the last
one, and at the end the undo of the collapses alone, in reverse, as
`unapplyReductions` does for the printed solution.

`ForestHeap` is a forest as the code keeps it: nodes with `parent`, `sibling`,
`left`, `right` and bitmask words; the root list, sorted by smallest label and
kept by binary search; the label maps; and `IsValid`, what `Forest::isValid`
tests.  `ForestActions` is the pointer surgery of the two edit actions and of
their undos on such a heap.  `ForestStore` relates the two views: `Stores(h, f)` says
that the heap `h` keeps the forest `f`, pointer by pointer and map by map, which is
more than `Forest::isValid` tests.  `NewickText` reads a forest from the tokens of its
text, one state of the reader per token, sorts it, and writes it with the walk
of `WriteNewick`, which has no stack.

`ForestPointers` runs them on an instance, with the counted flags and single-vertex
counts.  Each action is a whole `doAction` or `undoAction`.  The forests as they are
read are a constant, `Parsed`, of which it is assumed that each heap stores its
forest; `MCForestPointers` reads them from text, where TLC evaluates that assumption,
and asks whether what is printed can be read back.  The module implements
`ForestEditing` (`Implements`, with the bitmasks as the refinement mapping).

`DecoupledForest` is `DecoupleSubtreeAction` on the same heap: each action owns
three nodes that it puts into the forest and that are freed with it.  It follows
one tree through the decoupling at all points, cuts in the pieces, and the
coupling in reverse.  `ClusterDecomposition` says the same on label sets, and
`CouplesComponents` compares the two step by step.

### Searching

`BranchingSolver` is the search loop, for any rules: `FirstApplicable`,
`MaxBranch`, `Apply` and `Weight` are operator parameters.  A step is one turn of
the loop or one part of it between which the signal, the deadline or the thread
of the lower bounds may act; `head` and `apply` are the two halves of a turn.
The stack `appliedRules` keeps the instance before each rule, which is what
`unapply` restores (`ForestPointers` shows that it does).

`MafRules` gives the rules the presets use, over instances of laminar forests:
`AllRules` is the case analysis of `SiblingRuleFactory::allRules`,
`RuleOutcomes` what `apply` does.  `SingleRules` adds each rule's own
`isApplicable`, for the lists of active rules that name the rules one by one, and
the smaller dispatcher `basicRules`.  `ChainReduction` adds the chain rule: how
chains are found, shortened during the search, and put back after it.
`RootedTrees` and `AgreementForests` define,
independently, what an agreement forest is and the least weight of one.  Weights
are doubled, because a cluster root left alone counts as half a component.

### Around the search

`SubtreeReduction` is `SubtreeReductionRule` as `ReductionSolver` runs it: the
walk with its queue, one subtree per step, and the collapse of the maximal ones.

`ClusterPoints` computes tours, sparse tables, twins and points step by step.
`Preprocessing` composes the two: the cluster points are looked for in what the
reduction leaves, or in the instance itself for a pipeline without that stage.
`ClusterDecomposition` has the operations of `ClusterSolver` and
`DecoupleSubtreeAction` on trees of label sets: the labels of the new terminals
and roots, splitting by position, the bottom-up order, coupling.

`SolverPipeline` composes them in the order of `runOnStream`, for each of the
four tracks, with the signal handler, the seeds, the cluster roots carried
upwards, and the thread of the lower bounds.  A search is one step there; that a
search has these outcomes is what `search_pairs`, `search_triples` and `solver`
show of `BranchingSolver`.  A lower bound is any number up to the optimum;
`lower_bounds` shows that.

`ClusterBudget` is the division of the time among the searches of the clusters:
`deadlineFor`, and the loop of `runOnStream` that calls it, with seeds that take
time and searches that end early or notice their deadline late.

`MutableForestView`, `ThreeApproxDual` and `RedBlueDual` are the two duals, with a
step for every edit; `CertifiedLowerBound` runs one after the other over all
ordered pairs of trees and lets the second be cancelled anywhere.

### Proofs and instances

The theorems are in modules of their own: `LaminarForestProofs`, with
`ForestEditingProofs` on the one side and `ForestStoreProofs` and
`ForestPointersProofs` on the other; `BranchingSolverProofs`;
`ClusterBudgetProofs`; `ClusterDecompositionProofs`, with `SolverPipelineProofs`.  Each
builds on those named before it with the same subject.  The `MC*` modules give the constants; `SmallTrees` enumerates trees.

## The runs

| Run | Bounds | What it shows |
|---|---|---|
| `forest_editing` | two forests of four labels, all edit sequences | edits keep X-forests and split components one by one; the undo of the collapses at the end loses none |
| `forest_pointers` | a caterpillar and a balanced tree of four labels, read from text with unsorted children; words of three bits so that a mask has two words; four edits | pointers, masks, root order, maps and counts agree after every do, undo and out-of-order undo; what is printed is read back as the same forest; the heap implements `ForestEditing` |
| `forest_surgery` | a caterpillar and two other trees of five labels, read from text; every set of up to three inner nodes as points; up to three cuts in the pieces; words of four bits | no exception, no pointer to a freed node, valid forests at every step; components keep their shape, and are those `ClusterDecomposition` gives |
| `solver` | three search trees of 12, 8 and 5 nodes, with and without a seed; plain, deadline, certified, bounded; stride 2 | the protocol of the search under every interleaving with signal, deadline and threshold |
| `search_pairs` | all pairs of trees of five leaves; the rules of the preset, the rules one by one where `TwoBRule` applies, the approximation; a caterpillar of five with any tree and a tree in order that is unlike it, with a seed | uninterrupted searches are optimal; the greedy branch is within three times the cuts |
| `search_triples` | all pairs of trees of four leaves under every rule list (bounded depth, `basicRules`, one by one, approximation); triples of four, the first and the last in order; clusters of three trees of four leaves and a root; pairs of seven leaves with a common chain of four, with the chain rule; seeds for triples and clusters | what is printed is an agreement forest wherever a SIGTERM stopped the search; no uncovered state; and what the proof of exactness takes from the rules: some branch of every rule that is applied keeps the optimum of the instance in mid-search, with the edges protected by then, for the half-weighted cluster root too; a rule does the same whenever it is applied to an instance in the same branch; a seed replays on the instance it was found for |
| `preprocessing` | all pairs of trees of five leaves, triples of four with the first and the last in order, with and without the reduction; tables of up to six levels | the reduction ends, collapses the maximal common subtrees and loses no optimal solution; the sparse table answers least common ancestors; the points are the common clusters in the order of decoupling |
| `cooperation` | the instance of a test in `ReductionSolverTests.cpp` | finding: the chain that appears once a cherry is collapsed is not shortened |
| `solver_pipeline` | instances grafted from small ones: no cluster, one, a small one in two and three trees, nested, side by side; all tracks for pairs of fewer than six labels; a = 1, 3/2 and 5/4 | clusters line up, seeds are fresh, cut roots are carried up, and the printed forest agrees, is optimal or valid; the process ends |
| `pipeline_sigterm` | the same | finding: SIGTERM kills on the lower-bound track |
| `lower_bounds` | all pairs of trees of four and five leaves, caterpillar triples of four, six pairs of six leaves, `redblue_unsound01.nw` | neither dual exceeds an agreement forest; what the rounds assume of their sets holds |
| `cluster_budget` | up to three clusters of weights 0 to 3, four of weights 0 and 1, an empty list; budgets 0, 1, 7 and 12; seeds of up to one tick, deadlines noticed up to two ticks late | every cluster is granted its share of the whole budget, and the last one all that is left |

In all families "all" is up to a renaming of the labels: the leaves of one tree
are in order.  Where a second tree has its leaves in order, the family is a part of
all instances, chosen to keep a run within minutes.

Why these bounds are enough to be of interest.  Four edits are enough for a
collapse inside a cut subtree inside another, undone out of order.  Three points
in five leaves can be nested, side by side and both, with a piece that is a
single terminal; three cuts can leave any of the nodes of an action as a root.
A chain of four is the shortest that is shortened for two trees.  With two
words per mask, the two label sets that are compared may have their smallest
labels in the same word, in different words, or not in the first word at all.
The hand-made search trees of `solver` contain what the real rules rarely
produce: suggestions dropped by a rollback, a dead end that aborts, a search
without pruning.  Five leaves are the first size at which the 2B rule, the
reverse B rule and the protected edges change what is found; the slips in these
rules are noticed at that size.  Two clusters, nested and side by side, are the
smallest in which a position of a root can be confused and a cut root can matter
two levels up.  The six pairs of six leaves are there because between them they
take the branches of `RedBlueDual` that no smaller pair takes, and the pair of
twelve leaves is the repository's own regression for an unsound bound; for these
seven the forest the bound is compared with is given and checked to agree
(`KnownForestsAgree`).  The code allows for a round
that leaves anything but two red leaves and one blue; `RoundsAsAssumed` shows
that it does not happen.

Every named bound is a CONSTANT or a definition of an MC module: `MaxEdits` and
`WordSize` of `ForestPointers`, `MaxPoints` and `MaxCuts` of `DecoupledForest`,
`MaxSeeding` and `MaxLate` of `ClusterBudget`, `ClockCheckStride` (1024 in the code, 2 here,
arbitrary in the proof), `Unbounded` for the weight of no solution, and the
families of instances.

Deadlock is checked in `lower_bounds`, whose final state repeats itself; the
other specifications stop in a final state, and say so with
`CHECK_DEADLOCK FALSE`.  That they do not stop earlier is what the liveness
properties `Answers`, `Reduces` and `Terminates` show.

### Fairness

`BranchingSolver` assumes `WF(Solve)` and `Preprocessing` `WF(Reduce)`: one thread
that never waits, so an enabled step is taken.  (The loops of the generator of
cluster points count up to a bound: no liveness is stated of them.)  `SolverPipeline` assumes `WF(Main)`
for the main thread and `WF(CancelBound)` for the thread of the lower bounds,
which polls `lbStop`.  Nothing is assumed of the signal, of the clock, of the
threshold, or of the lower bound ever being finished (`FinishBound`): that may
take longer than anybody waits.

### Where the model allows more than the code

- A search stopped by the signal or the end of its slice returns any agreement
  forest of the cluster in which the pinned terminals are cut, and one stopped by
  a certificate any of a weight within the threshold.
- In `SolverPipeline` the slice of a cluster may end at any time; how long it is
  and that none starves is shown in `ClusterBudget`, apart from the searches.
- `ClusterBudget` counts ticks and rounds a slice down to a whole tick, as the
  `duration_cast` does; that its fractions are doubles is abstracted.  The code's
  answer for an index past the last cluster is modelled and cannot come up in the
  loop.  The budget covers the searches and the seeds between them: reading,
  reducing and probing come before it, merging and printing after it.
- Clusters are solved in any order that puts children first: the code iterates
  over a hash set.
- The points of `DecoupledForest` are any inner nodes, in the order in which the
  generator lists its points, and any edge of a piece may be cut.
- The tokens of `NewickText` are symbols and whole labels, of well-formed text: the
  digits of a label and the errors reported for malformed input are left out.
- The validity constant `a` is a fraction.  That the 1e-9 added in
  `Context::certifiedCeiling` recovers the floor of a product of doubles is not
  shown.

## Where code and documentation differ

Two are runs, with the counterexample TLC finds:

- `cooperation`: a test of `ReductionSolver` (`tests/ReductionSolverTests.cpp:67`) says
  that the two reduction rules cooperate; `solve()` calls `SubtreeReductionRule`
  only, and leaves the nine terminals the test excludes.
- `pipeline_sigterm`: the lower-bound track is said to print its best forest on
  SIGTERM; it installs no handler.

More were met while reading, without a run:

- `RuleReturnCode::ImidateReturn` is said to end the solver "without solution";
  `solve()` then replays the incumbent over the rules still applied and returns
  true.  No shipped rule returns the code in a state the search reaches
  (`RulesCover`).
- `Instance.cpp:62` says that the "#a" line "may appear before or after "#p""; the
  loop stops at "#p", and a later "#a" is not read.  `SolverPipeline` models this
  (`lineFirst`), and `PrintedIsValid` speaks of the lines that are read.
- `ShortenChainAction.hpp:17` says that the removed elements come back "on top of
  lower again"; the code puts them above the parent that `lower` has at that time.
  After a search that ran to its end the two agree with the trees.  A search with
  the chain rule that was stopped may print a component that does not:
  `SolutionAgrees` leaves that case out, and no preset names the rule.
- `undoWithSubtreeRoot` leaves the bit of the label it made up in the masks above
  the point.  The label is never used again, and `PointersFit` looks past the bit.
- `TwoBRule.cpp` has a second, shorter form of its pattern that it tests and never
  uses (`TODO` at line 150), and reads the sibling of a parent that may not exist
  when the test before has failed; the rules listed before it exclude the case.
- `Forest::maximumCommonSubforestRoots` counts labels past a word boundary in a way
  that skips a word if the last bit of the word is set; only tests and an unused
  rule call it.
- A node with one child, which the reader accepts, is dereferenced as if it had two
  (`Forest.cpp:455-460` says so).
- `BranchingSolver.cpp:72-76` reads the clock once in `kClockCheckStride` + 1
  calls; the name and its comment suggest once in `kClockCheckStride`.  The
  second half of `StopsPromptly` states the bound the code has.
- The comment at `tests/DualLowerBoundTests.cpp:62` says of the small instances
  "L2 is uniformly >= the 3-approx L3 above"; the values pinned beside it are 2 for
  L3 and 1 for L2 on `tiny05.nw`.
- The usage text at `startSolver.cpp:407` names `pipeline` as the default; the
  default configuration of `SolverConfig.hpp` is the exact track.

## The proofs

TLC checks small instances; the theorems hold for all values of the constants.

**Editing** (`LaminarForestProofs`, `ForestEditingProofs`).  `TypeCorrect` (`Spec =>
[]TypeOK`) and `AlwaysValid` (`Spec => []ForestsValid`), for every set of labels,
every set of nodes and every start.  `ForestsValid` is not inductive: undoing an edit
returns to a forest kept on the undo stack, and the final expansions meet a forest
that is not the one the collapse was done on.  The invariant proved, `IInv`, adds that
every forest on the stack is an X-forest too, and what each record of the stack
says of the forest above it.  The lemmas show that cutting an edge, collapsing
and expanding a subtree keep a laminar binary forest.  The assumptions are those
named in `ForestEditing`.  `AlwaysSplits` (`EditsOnlySplit`), for a finite set of
nodes (`NodeAssumption`): a component is the cluster of a root, every node lies under
a root, and a cut makes the node that is cut off the only new root, so that it
replaces one component by two; collapses and expansions leave the components alone.

**The pointers** (`ForestStoreProofs`, `ForestPointersProofs`), for any trees, labels,
nodes, word size and length of the undo stack.  `PointersAssumption` says that every
heap that is read stores its forest (TLC evaluates it for two trees read from text),
`CountAssumption` that labels, nodes and trees are finitely many and the trees fewer
than 65536, because `Context` counts them in a `uint16_t`.

`ForestStoreProofs` is about one heap.  If it stores a forest, then after
`DoDelete` it stores the cut forest (`CutStores`), after `DoCollapse` the collapsed one
(`CollapseStores`), and the undo of either, done on what the do has left, gives back
the very same heap, every pointer, root and map (`CutUndone`, `CollapseUndone`).
Behind this are the facts one would want of the code: the comparison of two masks
word by word finds the smaller least label, the path to the root is the nodes above,
the children are sorted on it and nowhere else disturbed, and the binary search
finds the one place where the root list stays in order.

- `AlwaysPointersAgree` (`PointersAgree`) and `PointersImplementEditing`
  (`Implements`).  Neither the validity of the heaps nor the abstract state says
  enough: an undo works with what its action remembers of a heap that is long gone.
  The invariant `IInv` says that there are heaps `G`, one for each action of the
  stack, that the action was done to.  During the search they form a chain
  (`Chained`): doing the k-th action to the k-th heap gives the next one, so that
  the last undo gives back the last of them.  `unapplyReductions` breaks the
  chain: it undoes a collapse on a heap from which later cuts have taken nodes
  away, although the collapsed node is still there, or hidden by a
  later collapse, which is then undone first (`NodeKept`).  For every collapse on
  the stack `Waiting` therefore says that what it hid is still untouched and unreachable, and
  that its node still has the same labels; `CollapsesApart` that no two
  collapses hid the same node.  That is what `ExpandStores` needs to show that the
  undo, out of order, expands the terminal and spoils nothing else.
- `AlwaysCountsExact` (`CountsExact`).  With the same heaps: the set of labels a do
  counts up is exactly the set of labels that become a tree of their own by it, none of
  them counted before (`CutSinglesAdded`, `CollapseSinglesAdded`), and the set its
  undo counts down, computed from the flags and from the masks of another heap, is the same
  set (`Singled`, `Added`).  No count leaves the range of its counter, so that the
  sixteen bits lose nothing (`CountBound`); the number of mismatched labels follows from the
  labels that begin and those that cease to be mismatched (`MismatchChanges`).

**Searching** (`BranchingSolverProofs`), for any rules, instances, seeds and
thresholds:

- `AppliedRulesLeadHere` (`StackIsPath`) and `ReplaysOnTheOriginal`
  (`ReplayIsPristine`).  Every step pushes a rule, cuts the stack short, unwinds
  it, or leaves it and the instance alone (`StackStep`); each of the four keeps the
  path.  `ReplayIsPristine` needs `StackIsPath`: unwinding goes back to the first
  entry's instance, which is the original one because the stack is a path.
- `SearchStopsPromptly` (`StopsPromptly`), for every stride and configuration.  The
  two causes are counted apart: `afterSignal` is at most 1 even where a deadline
  throttles the reading of the clock, because `timeExpired` looks at the flag before
  it looks at the countdown (`KnownExpired`); `afterDeadline` is at most the stride
  and one.  Neither count is inductive alone: `SignalIsBounded` adds the rule already
  chosen, `DeadlineIsBounded` also the turns until the clock is read.  Both need
  that a solution is never forgotten (`SolutionIsKept`).  The only assumption is
  that the stride is a natural number.
- `IncumbentImproves` (`IncumbentOnlyImproves`), assuming that weights are natural
  numbers.

**Dividing the time** (`ClusterBudgetProofs`), for any number of clusters, any
weights and any budget (`BudgetAssumption`: they are natural numbers):
`ClustersGetTheirShare` (`NobodyStarves`), `AllTimeIsGranted` (`NoTimeIsWasted`) and
`LoopEndsInTime` (`EndsInTime`).  That a cluster gets its share of the whole budget
does not follow from the slice it is given now, which is a share of what is
left: the invariant `BudgetInv` adds that what is left and what was lost, together,
are at least the share of the clusters that are left (`ShareLeft`).  A search that
ends early only adds to it; one that uses its slice takes its own share away,
rounded down.  The sums of weights are recursive functions; `SumsExist` derives
from the least element of a set of numbers that they exist, in place of an
induction.

**Taking the instance apart** (`SolverPipelineProofs`), for any number of trees, any labels and cluster points that
nest in any way, on every track.  `PipelineAssumption` says what the reader
guarantees: there is a tree, all trees are over the same finite, nonempty set of
positive numbers, and every label has a leaf.

- `AlwaysClustersLineUp` (`ClustersLineUp`).  `splitInstance` pairs the trees of the
  forests by their position alone; that paired trees belong together rests on all
  forests being sorted by least label and having the same family of label sets
  when they are split.  The invariant `DecompositionInv` carries this through the
  decoupling: the families stay equal (`LabelsMatch`) because a point still to be
  decoupled is a node of every forest with the same labels below it
  (`PointsLeft`), and stays one when another point is decoupled, above or below it
  or beside it (`DecoupleForest`); and all trees but one have a cluster root
  (`RootsDiffer`).  `RootsLineUp` is the lemma about sorting:
  disjoint sets have different least labels, so that two sorted lists of the same
  family agree.
- `AlwaysSeedsFresh` (`SeedsFresh`) and `AlwaysRootsCutTogether`
  (`RootsCutTogether`).  The invariant `PipelineInv` says that nothing is
  solved, pinned or modified before the searches begin (`Untouched`), that the
  clusters are in an order that puts children first (`InOrder`), and, while they are
  searched (`Solving`), that the roots left alone so far are collected, that the
  terminals above them are pinned in the cluster to be searched, that no outcome of
  its search joins them again, and that the seed is the one for these pins.
- `AlwaysPrintedAgrees` (`PrintedAgrees`): whatever is printed is an agreement
  forest of the trees that were read.  `ClusterDecompositionProofs` has the
  lemmas.  The nodes of a forest are a family of nested or disjoint label sets
  (`IsFamily`), and that a partition agrees is put in terms of what the nodes contain of a
  block (`AgreementByTraces`); the recursion that enumerates the partitions gives
  all of them (`PartitionsAreAll`: it has two solutions otherwise, and no least
  set on which they differ).  Decoupling gives a family again (`DecoupleIsFamily`).  Coupling
  turns an agreement forest of that family into one of the family before if the
  terminal is alone where the root is (`CoupleAgrees`), and keeps this
  for the other points (`CoupleKeepsCuts`).  So the invariant `AgreeInv` says, while
  points are decoupled, that every agreement forest of the present trees that is cut
  in this way couples to one of the reduced trees (`CanRecouple`);
  once they are split, that solutions of the clusters do, because the trees
  of a forest share no label and merged solutions agree on it (`MergedAgrees`);
  and that every solution so far solves its cluster.  The condition about roots and terminals is
  `RootsCutTogether`, proved before.  `OpenedAgrees` undoes the reduction: the
  roots `MaximalCommonRoots` finds are common subtrees without common
  labels (`MaximalAreSubtrees`), and no block of the reduced trees uses a node inside one.
- `AlwaysPrintedIsValid` (`PrintedIsValid`): on the lower-bound track no more than
  a k + b components are printed.  An agreement forest stays one when labels are left
  out (`RestrictionAgrees`), so the reduced trees have one with at most k components
  and the lightest that the search can return has no more; a solution returned
  early is within the threshold, which stays valid whichever lower bound raises it
  (`ValidBounds`).  `ValidityAssumption` is what `Context.hpp` says of the constants:
  a is at least 1, b is not negative.

**Searching, continued** (`BranchingSolverProofs`).  The search
is proved for any rules, so that these theorems say what it needs from them.  Two
hypotheses are about rules in the states they are applied in, and stand beside
`Spec` as `[]RulesRepeat` and `[]RulesLoseNothing`; `search_triples` checks both for
the rules of the program (`ReplaysRepeat`, and `RulesKeepOptimum` for the lists of
rules that are meant to be exact).  All three also assume that weights are
natural numbers (`WeightsAreNumbers`), and the second that thresholds are integers.

- `IncumbentIsReturned` (`ReturnsTheIncumbent`) and `CertifiedSolutionsAreValid`
  (`CertifiedIsValid`) assume `RulesRepeat`: a rule that does not end its
  branch early leaves one and the same instance whenever it is applied to an
  instance in the same branch.  The invariant is that the recorded branch,
  replayed from the original instance, leads to the weight of the incumbent: while
  searching, it was recorded from the stack, which is a path; while replaying, what is
  left of it still leads there from the present instance.  `SeedsFit` says the same
  of a seed when the search begins (`ReplaysRepeat` and `SeedsFitTheirInstances` check
  it).  `ReturnsTheIncumbent`, which is about equal weights, also needs `SeedsAreExact`:
  the weight of a seed is that of the instance it leads to, which is so unless
  the seed leaves a cluster root alone, whose half component it counts in full.
  `CertifiedIsValid` and exactness do without.
- `SearchIsExact` (`ExactWhenExplored`) assumes `RulesLoseNothing` too: every rule
  has a branch that keeps an optimal solution of the instance it is applied to, or
  that ends in one.  Invariant: until the incumbent is as good as the
  optimum, or the size limit is too small for it, an optimal solution is below the
  present instance, or below a branch of an applied rule that is still to be
  entered (`Covered`).  A rollback goes to the youngest rule with a branch left, so
  that it can drop none of these; pruning drops what is no better than the
  incumbent.  It takes both that queued rules other than the first have no branch
  entered (`QueueIsFresh`) and that nothing below the original instance is better
  than its optimum.  `SolutionsExist` says that every instance has a solution -- all
  leaves alone are one -- and that bounded searches are only run where
  weights are whole components, as the code does; `RulesHaveBranches` that a
  rule's number of branches and its suggestions are what their types say.

Only checked by TLC, and why:

- liveness, which is out of the prover's reach;
- `PrintedIsOptimal`: that coupled optimal solutions of clusters are optimal would need
  the converse of `CoupleAgrees` and an exchange argument for a root that counts half;
- `SolutionAgrees`, `RulesAreExact`, `RulesKeepOptimum`: these are about every
  single rule over laminar forests, with recursive walks through them;
- the reductions, the sparse table and the two duals: walks with queues, folds and
  recursion over data, about which an induction is out of reach;
- `ReadsBack`: the reader is a fold over the tokens and the writer a recursive walk;
- the pointer surgery of `DecoupledForest`: `Stores` would have to speak of the
  three nodes of each action and of the bit that stays in the masks above a point
  after the undo, and of a forest whose set of labels changes.

## Plan

Modelled and checked: editing and its pointers, reading and printing, the search,
all rules, both reductions, cluster points, the decomposition on label sets and
on pointers, the division of the time, the pipeline and the lower bounds.
Proved: every property of the search, of the editing -- on label sets and on
pointers -- and of the budget that is not liveness; in the pipeline, every
invariant but optimality.

Next, in this order:

1. The decoupling on pointers: a relation like `Stores` for `DecoupledForest`, with the
   lemmas about paths and root lists of `ForestStoreProofs`.
2. Proofs about the rules that need no recursion: that an edit by a rule keeps
   the protected edges.
3. `Forest` beyond editing: `copy`, `isTrueSubtreeOf` and the common subforest of
   two forests, as the unused `EqualForestsRule` needs them.

### Not modelled

- Metrics and visualisation plugins, the Graphviz output: they read the state and
  change none of it.
- The characters of the header lines (their order is in `SolverPipeline`), the
  command line, files, and the wording of what is printed.
- The sparse table inside `RedBlue2::compatibleFast` (`RedBlueDual.cpp:228-251`):
  `CompatibleFast` takes the least and the greatest rank of a range as such, so
  `CompatibilityAgrees` compares the two algorithms and says nothing of the table's
  levels.  The table of `LeastCommonAncestor` is another one, modelled with its levels
  in `ClusterPoints`.
- The demo program, `TrivialSolver` and `EqualForestsRule`, which no preset and no
  stage names, and the parts of `Forest` that only they and tests call.
- Floating-point rounding: of the validity constants and of the slices.
