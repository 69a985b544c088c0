----------------------- MODULE MCCertifiedLowerBound -----------------------
(* All pairs of trees of four and five leaves, the leaves of the first in   *)
(* order; triples of trees of four leaves; pairs of six leaves that between *)
(* them take every branch of the procedures; and an instance of             *)
(* res/lowerbound, for which the bound is exact.                            *)
EXTENDS CertifiedLowerBound, SmallTrees

Tree(n, inner) == {{x} : x \in 1..n} \union inner \union {1..n}

SmallInstances ==
  UNION {{c \in [1..2 -> TreesOver[1..n]] : InOrder(c[1])} : n \in {4, 5}}

(* The first tree of the triples is a caterpillar. *)
Triples ==
  {<<Tree(4, {{1, 2}, {1, 2, 3}}), a, b>> : a, b \in TreesOver[1..4]}

(* What the six leaves are for: a pair that is resolved last in 4c, in      *)
(* different trees, after a star; three trees; the order of the pair; and   *)
(* a final cut.  Then redblue_unsound01.nw.                                 *)
LargerPairs ==
  {<<Tree(6, {{1, 5}, {3, 4}, {3, 4, 6}, {1, 3, 4, 5, 6}}),
     Tree(6, {{1, 6}, {2, 3}, {4, 5}, {1, 4, 5, 6}}),
     {{1, 2, 4}, {3}, {5}, {6}}>>,
   <<Tree(6, {{2, 4}, {3, 6}, {2, 4, 5}, {2, 3, 4, 5, 6}}),
     Tree(6, {{2, 3}, {4, 6}, {2, 3, 4, 6}, {2, 3, 4, 5, 6}}),
     {{1, 2, 4, 5}, {3}, {6}}>>,
   <<Tree(6, {{4, 5}, {2, 4, 5}, {2, 4, 5, 6}, {1, 2, 4, 5, 6}}),
     Tree(6, {{2, 6}, {3, 5}, {3, 4, 5}, {2, 3, 4, 5, 6}}),
     {{1, 2, 4, 5}, {3}, {6}}>>,
   <<Tree(6, {{1, 6}, {4, 5}, {1, 2, 6}, {1, 2, 4, 5, 6}}),
     Tree(6, {{1, 4}, {2, 6}, {2, 5, 6}, {1, 2, 4, 5, 6}}),
     {{1}, {2, 3, 4, 6}, {5}}>>,
   <<Tree(6, {{1, 6}, {1, 5, 6}, {1, 3, 5, 6}, {1, 3, 4, 5, 6}}),
     Tree(6, {{1, 5}, {3, 6}, {3, 4, 6}, {1, 3, 4, 5, 6}}),
     {{1, 2, 3, 5}, {4}, {6}}>>,
   <<Tree(6, {{3, 5}, {3, 5, 6}, {1, 3, 5, 6}, {1, 3, 4, 5, 6}}),
     Tree(6, {{1, 2}, {1, 2, 5}, {1, 2, 3, 5}, {1, 2, 3, 5, 6}}),
     {{1, 2}, {3, 5, 6}, {4}}>>,
   <<Tree(12, {{2, 7}, {3, 4}, {6, 9}, {1, 6, 9}, {2, 5, 7}, {2, 5, 7, 12},
               {2, 3, 4, 5, 7, 12}, {2, 3, 4, 5, 7, 10, 12},
               1..12 \ {8, 11}, 1..12 \ {11}}),
     Tree(12, {{1, 4}, {3, 9}, {6, 10}, {7, 8}, {5, 7, 8}, {5, 7, 8, 12},
               {1, 4, 5, 7, 8, 12}, {1, 4, 5, 6, 7, 8, 10, 12},
               1..12 \ {2, 11}, 1..12 \ {11}}),
     {{1}, {2}, {3}, {4, 5, 7, 9, 10, 11, 12}, {6}, {8}}>>}

MCInstances == SmallInstances \union Triples \union {<<c[1], c[2]>> : c \in LargerPairs}

(* All partitions of up to five labels, and the forests given above. *)
SmallPartitions == [n \in 4..5 |-> Partitions(1..n)]

MCCandidates(c) ==
  LET n == Cardinality(LabelsOf(c[1]))
  IN  IF n <= 5 THEN SmallPartitions[n] ELSE {d[3] : d \in {e \in LargerPairs : e[1] = c[1]}}

ASSUME KnownForestsAgree ==
  \A c \in LargerPairs : IsAgreementForest(AsForests(<<c[1], c[2]>>), c[3])
=============================================================================
