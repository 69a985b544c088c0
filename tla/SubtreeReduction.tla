-------------------------- MODULE SubtreeReduction --------------------------
(***************************************************************************)
(* The reduction before the search: SubtreeReductionRule, as               *)
(* src/src/Solver/ReductionSolver.cpp runs it.  isApplicable walks up all  *)
(* trees at once, from the terminals, with a queue of subtrees known to be *)
(* identical in all trees; one about whose sibling nothing is known yet is *)
(* put back.  apply collapses the maximal ones.                            *)
(*                                                                         *)
(* A subtree of the queue is the vector of its roots, one for each tree.   *)
(***************************************************************************)
EXTENDS Naturals, Sequences, SequencesExt, ForestNavigation, AgreementForests

CONSTANTS Instances  \* sequences of trees over the same labels

VARIABLES
  given,      \* the instance before the reduction
  forest,     \* the instance
  queue,      \* identicalSubtreeRoots
  identical,  \* seenNodes_identical: pairs of a tree and a node
  different,  \* seenNodes_diff
  maximal,    \* maximumSubtree
  reduction   \* "search" or "done"

reductionVars == <<given, forest, queue, identical, different, maximal, reduction>>

Indices == DOMAIN forest
Labels(f) == UNION {f[n] : n \in DOMAIN f}

(* The nodes of a vector, each with its tree. *)
Nodes(subtree) == {<<i, subtree[i]>> : i \in DOMAIN subtree}

Siblings(subtree) == [i \in DOMAIN subtree |-> Sibling(forest[i], subtree[i])]
ParentsOf(subtree) == [i \in DOMAIN subtree |-> Parent(forest[i], subtree[i])]

(* LabelToTerminal is iterated in the order of the labels. *)
TerminalVectors(trees) ==
  LET top == CHOOSE x \in Labels(trees[1]) : \A y \in Labels(trees[1]) : y <= x
      labels == SelectSeq([x \in 1..top |-> x], LAMBDA x : x \in Labels(trees[1]))
  IN  [k \in DOMAIN labels |->
         [i \in DOMAIN trees |->
            CHOOSE n \in DOMAIN trees[i] : trees[i][n] = {labels[k]}]]

InitReduction ==
  /\ given \in Instances
  /\ forest = given
  /\ queue = TerminalVectors(given)
  /\ identical = UNION {Nodes(queue[k]) : k \in DOMAIN queue}
  /\ different = {} /\ maximal = {}
  /\ reduction = "search"

-----------------------------------------------------------------------------
(* The conditions of the loop, on the subtree at the front of the queue. *)

AtRoot(subtree) == \E i \in Indices : Parent(forest[i], subtree[i]) = None

SiblingsSeen(subtree) == Nodes(Siblings(subtree)) \intersect identical

AllSiblingsSeen(subtree) == Nodes(Siblings(subtree)) \subseteq identical

(* A slip: a sibling that is the root of some identical subtree will do. *)
AnySiblings(subtree) == AllSiblingsSeen(subtree)

SameSiblings(subtree) ==
  \A i \in Indices :
    forest[i][Siblings(subtree)[i]] = forest[1][Siblings(subtree)[1]]

NothingKnown(subtree) ==
  SiblingsSeen(subtree) \union (Nodes(Siblings(subtree)) \intersect different) = {}

-----------------------------------------------------------------------------
Current == Head(queue)

Searching == reduction = "search" /\ queue # <<>>

(* A slip: only the parents are marked. *)
WithParents(subtree) == different \union Nodes(ParentsOf(subtree))

(* addAncestorSeenDiffNodes *)
WithAncestors(subtree) ==
  different \union UNION {{<<i, m>> : m \in Ancestors(forest[i], subtree[i])} : i \in Indices}

IsMaximal ==
  /\ Searching
  /\ \/ AtRoot(Current)
     \/ /\ ~AtRoot(Current)
        /\ ~(AllSiblingsSeen(Current) /\ SameSiblings(Current))
        /\ ~NothingKnown(Current)
  /\ maximal' = maximal \union {Current}
  /\ different' = WithAncestors(Current)
  /\ queue' = Tail(queue)
  /\ UNCHANGED <<given, forest, identical, reduction>>

(* The parents are identical; the second of two siblings finds them seen. *)
GoUp ==
  /\ Searching
  /\ ~AtRoot(Current) /\ AllSiblingsSeen(Current) /\ SameSiblings(Current)
  /\ IF <<1, ParentsOf(Current)[1]>> \in identical
     THEN queue' = Tail(queue) /\ UNCHANGED identical
     ELSE /\ queue' = Append(Tail(queue), ParentsOf(Current))
          /\ identical' = identical \union Nodes(ParentsOf(Current))
  /\ UNCHANGED <<given, forest, different, maximal, reduction>>

PutBack ==
  /\ Searching
  /\ ~AtRoot(Current) /\ NothingKnown(Current)
  /\ queue' = Append(Tail(queue), Current)
  /\ UNCHANGED <<given, forest, identical, different, maximal, reduction>>

(* A slip: the first tree is left out. *)
ToCollapseButFirst(i) ==
  {s[i] : s \in {t \in maximal : i # 1 /\ ~IsTerminal(forest[i], t[i])}}

(* The subtrees of tree i that are collapsed: the others are terminals. *)
ToCollapse(i) == {s[i] : s \in {t \in maximal : ~IsTerminal(forest[i], t[i])}}

(* apply; isApplicable returns no rule if there is nothing to collapse. *)
Collapse ==
  /\ reduction = "search" /\ queue = <<>>
  /\ forest' = [i \in Indices |->
       FoldLeft(CollapseSubtree, forest[i], SetToSeq(ToCollapse(i)))]
  /\ reduction' = "done"
  /\ UNCHANGED <<given, queue, identical, different, maximal>>

ReduceNext == IsMaximal \/ GoUp \/ PutBack \/ Collapse
=============================================================================
