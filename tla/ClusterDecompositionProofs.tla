--------------------- MODULE ClusterDecompositionProofs ---------------------
(***************************************************************************)
(* Agreement forests, and what taking an instance apart keeps of them:     *)
(* what they come to on families of label sets, the partitions the model   *)
(* checker enumerates, that an agreement forest stays one if labels are    *)
(* left out or a subtree is coupled, and that the trees of a decoupled     *)
(* instance line up.                                                       *)
(***************************************************************************)
EXTENDS ClusterDecomposition, FiniteSetTheorems, NaturalsInduction, WellFoundedInduction,
        SequenceTheorems, TLAPS

-----------------------------------------------------------------------------
(* Least and greatest numbers. *)
LEMMA LeastElement ==
  ASSUME NEW X, X \subseteq Nat, X # {}
  PROVE  \E x \in X : \A y \in X : x <= y
<1> DEFINE R == {p \in Nat \X Nat : p[1] < p[2]}
<1>1. IsWellFoundedOn(R, Nat)
  BY NatLessThanWellFounded DEF OpToRel
<1>2. PICK x \in X : \A y \in X : ~(<<y, x>> \in R)
  <2> HIDE DEF R
  <2> QED BY <1>1, WFMin
<1>3. \A y \in X : y \in Nat /\ x \in Nat /\ (<<y, x>> \in R <=> y < x)
  OBVIOUS
<1>4. ASSUME NEW y \in X  PROVE x <= y
  <2>1. x \in Nat /\ y \in Nat
    OBVIOUS
  <2>2. ~(y < x)
    <3> HIDE DEF R
    <3> QED BY <1>2, <1>3
  <2> QED BY <2>1, <2>2
<1> QED BY <1>4

LEMMA GreatestElement ==
  ASSUME NEW X, X \subseteq Nat, IsFiniteSet(X), X # {}
  PROVE  \E x \in X : \A y \in X : y <= x
<1> DEFINE above(x) == {y \in X : x < y}
           S == {above(x) : x \in X}
           R == StrictSubsetOrdering(X)
           U == FiniteSubsetsOf(X)
<1>1. IsWellFoundedOn(R, U)
  BY FS_StrictSubsetOrderingWellFounded
<1>2. U = SUBSET X
  BY FS_FiniteSubsetsOfFinite
<1>3. S \subseteq U /\ S # {}
  <2>1. \A x : above(x) \in SUBSET X
    OBVIOUS
  <2>2. S \subseteq SUBSET X
    BY <2>1
  <2>3. PICK x \in X : TRUE
    OBVIOUS
  <2>4. above(x) \in S
    OBVIOUS
  <2> QED BY <1>2, <2>2, <2>4
<1>4. PICK A \in S : \A B \in S : ~(<<B, A>> \in R)
  <2> HIDE DEF S, R, U
  <2> QED BY <1>1, <1>3, WFMin
<1>5. PICK x \in X : A = above(x)
  BY <1>4
<1>6. ASSUME NEW y \in X, x < y
      PROVE  FALSE
  <2>1. above(y) \in S /\ above(y) \in SUBSET X /\ above(x) \in SUBSET X
    OBVIOUS
  <2>2. \A z \in X : y < z => x < z
    BY <1>6
  <2>3. above(y) \subseteq above(x)
    BY <2>2
  <2>4. y \in above(x) /\ y \notin above(y)
    BY <1>6
  <2>5. <<above(y), above(x)>> \in R
    <3> HIDE DEF above
    <3> QED BY <2>1, <2>3, <2>4 DEF StrictSubsetOrdering
  <2> QED BY <1>4, <1>5, <2>1, <2>5
<1> QED BY <1>6

(* SmallestOf finds it.                                                    *)
LEMMA SmallestIsLeast ==
  ASSUME NEW X, X \subseteq Nat, X # {}
  PROVE  SmallestOf(X) \in X /\ \A y \in X : SmallestOf(X) <= y
  BY LeastElement DEF SmallestOf

-----------------------------------------------------------------------------
(* Finitely many label sets, nested or disjoint: the nodes of some trees.  *)
IsFamily(u) ==
  /\ IsFiniteSet(u)
  /\ \A m \in u : m # {}
  /\ \A m, n \in u : m \subseteq n \/ n \subseteq m \/ m \intersect n = {}

(* The node m is needed to join the labels of B. *)
Joins(u, B, m) == m \in u /\ m \intersect B # {} /\ \A k \in u : B \subseteq k => m \subseteq k

(* What the nodes contain of B. *)
Trace(u, B) == {m \intersect B : m \in u} \ {{}}

Together(u, B) == \E m \in u : B \subseteq m

(* An agreement forest, by traces. *)
AgreesOn(us, P) ==
  /\ \A B \in P : \A i \in DOMAIN us :
       Together(us[i], B) /\ Trace(us[i], B) = Trace(us[1], B)
  /\ \A i \in DOMAIN us : \A B, C \in P : B # C =>
       \A m \in us[i] : ~(Joins(us[i], B, m) /\ Joins(us[i], C, m))

(* Of the nodes above some labels one is the least. *)
LEMMA LeastNodeExists ==
  ASSUME NEW u, IsFamily(u), NEW B, B # {}, Together(u, B)
  PROVE  \E a \in u : B \subseteq a /\ \A m \in u : B \subseteq m => a \subseteq m
<1> DEFINE S == {m \in u : B \subseteq m}
           X == UNION u
           R == StrictSubsetOrdering(X)
           below(m) == {k \in u : k \subseteq m}
           T == {below(m) : m \in S}
           Q == StrictSubsetOrdering(u)
           U == FiniteSubsetsOf(u)
<1>1. IsWellFoundedOn(Q, U)
  BY FS_StrictSubsetOrderingWellFounded
<1>2. U = SUBSET u
  BY FS_FiniteSubsetsOfFinite DEF IsFamily
<1>3. T \subseteq U /\ T # {}
  <2>1. \A m : below(m) \in SUBSET u
    OBVIOUS
  <2>2. T \subseteq SUBSET u
    BY <2>1
  <2>3. PICK m \in S : TRUE
    BY DEF Together
  <2>4. below(m) \in T
    OBVIOUS
  <2> QED BY <1>2, <2>2, <2>4
<1>4. PICK A \in T : \A C \in T : ~(<<C, A>> \in Q)
  <2> HIDE DEF T, Q, U
  <2> QED BY <1>1, <1>3, WFMin
<1>5. PICK a \in S : A = below(a)
  BY <1>4
<1>6. ASSUME NEW m \in S, ~(a \subseteq m)  PROVE FALSE
  <2>1. a \intersect m # {} /\ a \in u /\ m \in u
    OBVIOUS
  <2>2. m \subseteq a /\ m # a
    BY <1>6, <2>1 DEF IsFamily
  <2>3. below(m) \subseteq below(a) /\ a \in below(a) /\ a \notin below(m)
    BY <1>6, <2>1, <2>2
  <2>4. below(m) \in SUBSET u /\ below(a) \in SUBSET u /\ below(m) \in T
    OBVIOUS
  <2>5. <<below(m), below(a)>> \in Q
    <3> HIDE DEF below
    <3> QED BY <2>3, <2>4 DEF StrictSubsetOrdering
  <2> QED BY <1>4, <1>5, <2>4, <2>5
<1> QED BY <1>6

(* The nodes that join B. *)
LEMMA SpannedJoins ==
  ASSUME NEW u, NEW B, NEW m
  PROVE  m \in Spanned(AsForest(u), B) <=> Joins(u, B, m)
  BY DEF Spanned, AsForest, Joins

(* The shape of B shows in all nodes, not only in those that join it. *)
LEMMA RestrictedIsTrace ==
  ASSUME NEW u, IsFamily(u), NEW B, B # {}, Together(u, B)
  PROVE  Restricted(AsForest(u), B) = Trace(u, B)
<1>1. PICK a \in u : B \subseteq a /\ \A m \in u : B \subseteq m => a \subseteq m
  BY LeastNodeExists
<1>2. \A m \in Spanned(AsForest(u), B) : m \in u /\ AsForest(u)[m] = m
  BY SpannedJoins DEF Joins, AsForest
<1>3. Restricted(AsForest(u), B) = {m \intersect B : m \in Spanned(AsForest(u), B)}
  BY <1>2 DEF Restricted
<1>4. \A m \in Spanned(AsForest(u), B) : m \intersect B \in Trace(u, B)
  BY SpannedJoins DEF Joins, Trace
<1>5. ASSUME NEW m \in u, m \intersect B # {}
      PROVE  \E k \in Spanned(AsForest(u), B) : k \intersect B = m \intersect B
  <2>1. m \subseteq a \/ a \subseteq m
    BY <1>1, <1>5 DEF IsFamily
  <2>2. CASE m \subseteq a
    <3>1. Joins(u, B, m)
      BY <1>1, <1>5, <2>2 DEF Joins
    <3> QED BY <3>1, SpannedJoins
  <2>3. CASE a \subseteq m
    <3>1. Joins(u, B, a)
      BY <1>1 DEF Joins
    <3>2. a \intersect B = m \intersect B
      BY <1>1, <2>3
    <3> QED BY <3>1, <3>2, SpannedJoins
  <2> QED BY <2>1, <2>2, <2>3
<1>6. Trace(u, B) \subseteq Restricted(AsForest(u), B)
  BY <1>3, <1>5 DEF Trace
<1> QED BY <1>3, <1>4, <1>6

(* The definition the model checker evaluates is the one by traces. *)
LEMMA AgreementByTraces ==
  ASSUME NEW us, 1 \in DOMAIN us, \A i \in DOMAIN us : IsFamily(us[i]),
         NEW P, \A B \in P : B # {}
  PROVE  IsAgreementForest(AsForests(us), P) <=> AgreesOn(us, P)
<1> DEFINE fs == AsForests(us)
<1>1. DOMAIN fs = DOMAIN us /\ \A i \in DOMAIN us : fs[i] = AsForest(us[i])
  BY DEF AsForests
<1> HIDE DEF fs
<1>2. ASSUME NEW B \in P, NEW i \in DOMAIN us
      PROVE  IsTogether(fs[i], B) <=> Together(us[i], B)
  BY <1>1 DEF IsTogether, Together, AsForest
<1>3. ASSUME NEW B \in P
      PROVE  Agrees(fs, B)
               <=> \A i \in DOMAIN us :
                     Together(us[i], B) /\ Trace(us[i], B) = Trace(us[1], B)
  <2>1. ASSUME \A i \in DOMAIN us : Together(us[i], B)
        PROVE  \A i \in DOMAIN us : Restricted(fs[i], B) = Trace(us[i], B)
    BY <1>1, <2>1, RestrictedIsTrace
  <2> QED BY <1>1, <1>2, <2>1 DEF Agrees
<1>4. ASSUME NEW i \in DOMAIN us
      PROVE  AreApart(fs[i], P)
               <=> \A B, C \in P : B # C =>
                     \A m \in us[i] : ~(Joins(us[i], B, m) /\ Joins(us[i], C, m))
  <2>1. AreApart(fs[i], P)
          <=> \A B, C \in P : B = C \/ Spanned(fs[i], B) \intersect Spanned(fs[i], C) = {}
    BY DEF AreApart
  <2>2. \A B, m : m \in Spanned(fs[i], B) <=> Joins(us[i], B, m)
    BY <1>1, SpannedJoins
  <2>3. \A B, C : Spanned(fs[i], B) \intersect Spanned(fs[i], C) = {}
                    <=> \A m \in us[i] : ~(Joins(us[i], B, m) /\ Joins(us[i], C, m))
    <3>1. \A B, m : Joins(us[i], B, m) => m \in us[i]
      BY DEF Joins
    <3> QED BY <2>2, <3>1
  <2> QED BY <2>1, <2>3
<1>5. IsAgreementForest(fs, P) <=> AgreesOn(us, P)
  BY <1>1, <1>3, <1>4 DEF IsAgreementForest, AgreesOn
<1> QED BY <1>5 DEF fs

-----------------------------------------------------------------------------
(* Partitions. *)

PartitionsOf(X) == {P \in SUBSET SUBSET X : IsPartition(P, X)}

HasBlock(Q, S, B) == \E P \in PartitionsOf(S \ B) : Q = {B} \union P

(* A partition is a block with some x and a partition of what is left. *)
LEMMA PartitionSplits ==
  ASSUME NEW S, NEW x \in S, NEW Q \in PartitionsOf(S)
  PROVE  \E B \in SUBSET S : x \in B /\ HasBlock(Q, S, B)
<1>1. PICK B \in Q : x \in B
  BY DEF PartitionsOf, IsPartition
<1>2. B \in SUBSET S
  BY <1>1 DEF PartitionsOf
<1> DEFINE P == Q \ {B}
<1>3. \A C \in P : C \intersect B = {} /\ C \subseteq S
  BY <1>1 DEF PartitionsOf, IsPartition
<1>4. UNION Q = S
  BY DEF PartitionsOf, IsPartition
<1>5. UNION P = S \ B
  <2>1. \A y : y \in UNION P <=> \E C \in P : y \in C
    OBVIOUS
  <2>2. \A y : y \in S <=> \E C \in Q : y \in C
    BY <1>4
  <2>3. \A y : y \in UNION P <=> y \in S \ B
    BY <1>1, <1>3, <2>1, <2>2
  <2> QED BY <2>3
<1>6. P \in PartitionsOf(S \ B)
  <2>1. \A C \in P : C \in SUBSET (S \ B)
    BY <1>3
  <2>2. \A C, D \in P : C # {} /\ (C = D \/ C \intersect D = {})
    BY DEF PartitionsOf, IsPartition
  <2> QED BY <1>5, <2>1, <2>2 DEF PartitionsOf, IsPartition
<1>7. Q = {B} \union P
  BY <1>1
<1> QED BY <1>1, <1>2, <1>6, <1>7 DEF HasBlock

(* And such a block and a partition of the others are one.                 *)
LEMMA PartitionExtends ==
  ASSUME NEW S, NEW B \in SUBSET S, B # {}, NEW P \in PartitionsOf(S \ B)
  PROVE  {B} \union P \in PartitionsOf(S)
<1>1. /\ \A C \in P : C \subseteq S \ B /\ C # {}
      /\ \A C, D \in P : C = D \/ C \intersect D = {}
      /\ UNION P = S \ B
  BY DEF PartitionsOf, IsPartition
<1>2. UNION ({B} \union P) = S
  <2>1. UNION ({B} \union P) = B \union UNION P
    OBVIOUS
  <2> QED BY <1>1, <2>1
<1>3. \A C, D \in {B} \union P : C # {} /\ (C = D \/ C \intersect D = {})
  BY <1>1
<1>4. {B} \union P \in SUBSET SUBSET S
  BY <1>1
<1> QED BY <1>2, <1>3, <1>4 DEF PartitionsOf, IsPartition

(* Without labels there is one partition, without blocks.                  *)
LEMMA NoPartition == PartitionsOf({}) = {{}}
<1>1. {} \in PartitionsOf({})
  BY DEF PartitionsOf, IsPartition
<1>2. ASSUME NEW P \in PartitionsOf({}), P # {}  PROVE FALSE
  <2>1. PICK B \in P : TRUE
    BY <1>2
  <2>2. B # {} /\ B \subseteq {}
    BY DEF PartitionsOf, IsPartition
  <2> QED BY <2>2
<1> QED BY <1>1, <1>2

(* What the recursion adds. *)
Extended(g, S, x) == UNION {{{B} \union P : P \in g[S \ B]} : B \in {C \in SUBSET S : x \in C}}

Extends(Q, g, S, B) == \E P \in g[S \ B] : Q = {B} \union P

(* Its members, one by one.                                                *)
LEMMA ExtendedMeans ==
  ASSUME NEW g, NEW S, NEW x, NEW Q
  PROVE  Q \in Extended(g, S, x) <=> \E B \in SUBSET S : x \in B /\ Extends(Q, g, S, B)
<1> DEFINE with(B) == {{B} \union P : P \in g[S \ B]}
<1>1. Extended(g, S, x) = UNION {with(B) : B \in {C \in SUBSET S : x \in C}}
  BY DEF Extended
<1>2. \A B : Q \in with(B) <=> Extends(Q, g, S, B)
  BY DEF Extends
<1>3. Q \in Extended(g, S, x) <=> \E B \in {C \in SUBSET S : x \in C} : Q \in with(B)
  <2> HIDE DEF with
  <2> QED BY <1>1
<1> HIDE DEF with
<1> QED BY <1>2, <1>3

(* The recursion gives the partitions: they are a solution of it, and of   *)
(* two solutions there is no least set on which they differ.               *)
LEMMA PartitionsAreAll ==
  ASSUME NEW X, IsFiniteSet(X)
  PROVE  Partitions(X) = PartitionsOf(X)
<1> DEFINE rest(g, S) == Extended(g, S, CHOOSE y \in S : TRUE)
           eqn(g) == g = [S \in SUBSET X |-> IF S = {} THEN {{}} ELSE rest(g, S)]
           all == [S \in SUBSET X |-> PartitionsOf(S)]
<1>1. ASSUME NEW S \in SUBSET X, S # {}
      PROVE  rest(all, S) = PartitionsOf(S)
  <2> DEFINE x == CHOOSE y \in S : TRUE
  <2>1. x \in S
    BY <1>1
  <2>2. \A B \in SUBSET S : all[S \ B] = PartitionsOf(S \ B)
    OBVIOUS
  <2>3. ASSUME NEW Q \in rest(all, S)  PROVE Q \in PartitionsOf(S)
    <3>1. PICK B \in SUBSET S : x \in B /\ Extends(Q, all, S, B)
      <4> HIDE DEF x, all
      <4> QED BY <2>3, ExtendedMeans DEF x
    <3>2. PICK P \in PartitionsOf(S \ B) : Q = {B} \union P
      BY <2>2, <3>1 DEF Extends
    <3> QED BY <3>1, <3>2, PartitionExtends
  <2>4. ASSUME NEW Q \in PartitionsOf(S)  PROVE Q \in rest(all, S)
    <3>1. PICK B \in SUBSET S : x \in B /\ HasBlock(Q, S, B)
      <4> HIDE DEF x
      <4> QED BY <2>1, PartitionSplits
    <3>2. Extends(Q, all, S, B)
      BY <2>2, <3>1 DEF HasBlock, Extends
    <3> HIDE DEF all
    <3> QED BY <3>1, <3>2, ExtendedMeans
  <2> HIDE DEF all, rest
  <2> QED BY <2>3, <2>4
<1>2. eqn(all)
  <2>1. \A S \in SUBSET X : all[S] = IF S = {} THEN {{}} ELSE rest(all, S)
    <3> SUFFICES ASSUME NEW S \in SUBSET X
                 PROVE  all[S] = IF S = {} THEN {{}} ELSE rest(all, S)
      OBVIOUS
    <3>1. all[S] = PartitionsOf(S)
      OBVIOUS
    <3> HIDE DEF all, rest
    <3> QED BY <1>1, <3>1, NoPartition
  <2> HIDE DEF rest
  <2> QED BY <2>1
<1> DEFINE part == CHOOSE g : eqn(g)
<1>3. eqn(part)
  <2> HIDE DEF eqn, all
  <2> QED BY <1>2
<1>4. Partitions(X) = part[X]
  BY DEF Partitions, Extended
<1> HIDE DEF part
<1>5. ASSUME NEW S \in SUBSET X
      PROVE  part[S] = IF S = {} THEN {{}} ELSE rest(part, S)
  <2> HIDE DEF rest
  <2> QED BY <1>3
<1> DEFINE Bad == {S \in SUBSET X : part[S] # PartitionsOf(S)}
           R == StrictSubsetOrdering(X)
           U == FiniteSubsetsOf(X)
<1>6. SUFFICES ASSUME Bad # {}  PROVE FALSE
  <2>1. X \in SUBSET X
    OBVIOUS
  <2> QED BY <1>4, <1>6, <2>1
<1>7. IsWellFoundedOn(R, U)
  BY FS_StrictSubsetOrderingWellFounded
<1>8. U = SUBSET X
  BY FS_FiniteSubsetsOfFinite
<1>9. PICK S \in Bad : \A T \in Bad : ~(<<T, S>> \in R)
  <2>1. Bad \subseteq U
    BY <1>8
  <2> HIDE DEF Bad, R, U
  <2> QED BY <1>6, <1>7, <2>1, WFMin
<1>10. S \in SUBSET X /\ part[S] # PartitionsOf(S)
  BY <1>9
<1>11. S # {}
  BY <1>5, <1>10, NoPartition
<1> DEFINE x == CHOOSE y \in S : TRUE
<1>12. x \in S
  BY <1>11
<1>13. ASSUME NEW B \in SUBSET S, x \in B
       PROVE  part[S \ B] = PartitionsOf(S \ B)
  <2>1. S \ B \subseteq S /\ S \ B # S /\ S \ B \in SUBSET X
    BY <1>10, <1>12, <1>13
  <2>2. <<S \ B, S>> \in R
    BY <1>10, <2>1 DEF StrictSubsetOrdering
  <2> QED BY <1>9, <2>1, <2>2
<1>14. ASSUME NEW Q \in rest(part, S)  PROVE Q \in PartitionsOf(S)
  <2>1. PICK B \in SUBSET S : x \in B /\ Extends(Q, part, S, B)
    BY <1>14, ExtendedMeans
  <2>2. PICK P \in PartitionsOf(S \ B) : Q = {B} \union P
    BY <1>13, <2>1 DEF Extends
  <2> QED BY <2>1, <2>2, PartitionExtends
<1>15. ASSUME NEW Q \in PartitionsOf(S)  PROVE Q \in rest(part, S)
  <2>1. PICK B \in SUBSET S : x \in B /\ HasBlock(Q, S, B)
    <3> HIDE DEF x
    <3> QED BY <1>12, PartitionSplits
  <2>2. Extends(Q, part, S, B)
    BY <1>13, <2>1 DEF HasBlock, Extends
  <2> QED BY <2>1, <2>2, ExtendedMeans
<1>16. part[S] = rest(part, S)
  BY <1>5, <1>10, <1>11
<1>17. rest(part, S) = PartitionsOf(S)
  <2> HIDE DEF rest
  <2> QED BY <1>14, <1>15
<1> QED BY <1>10, <1>16, <1>17

-----------------------------------------------------------------------------
(* Labels are left out.  The nodes and the blocks lose them alike. *)

(* What a trace has.                                                       *)
LEMMA InTrace ==
  ASSUME NEW u, NEW B, NEW s
  PROVE  s \in Trace(u, B) <=> s # {} /\ \E m \in u : s = m \intersect B
  BY DEF Trace

(* The labels of a trace.                                                  *)
LEMMA UnionOfTrace ==
  ASSUME NEW u, NEW K
  PROVE  UNION Trace(u, K) = (UNION u) \intersect K
<1>1. ASSUME NEW x \in UNION Trace(u, K)  PROVE x \in (UNION u) \intersect K
  <2>1. PICK s \in Trace(u, K) : x \in s
    OBVIOUS
  <2>2. PICK m \in u : s = m \intersect K
    BY InTrace
  <2> QED BY <2>1, <2>2
<1>2. ASSUME NEW x \in (UNION u) \intersect K  PROVE x \in UNION Trace(u, K)
  <2>1. PICK m \in u : x \in m
    OBVIOUS
  <2>2. m \intersect K # {}
    BY <2>1
  <2>3. m \intersect K \in Trace(u, K)
    BY <2>2, InTrace
  <2> QED BY <2>1, <2>3
<1> QED BY <1>1, <1>2

(* Leaving out labels twice.                                               *)
LEMMA TraceTwice ==
  ASSUME NEW u, NEW K, NEW L
  PROVE  Trace(Trace(u, K), L) = Trace(u, K \intersect L)
<1>1. ASSUME NEW s \in Trace(Trace(u, K), L)
      PROVE  s \in Trace(u, K \intersect L)
  <2>1. PICK t \in Trace(u, K) : s = t \intersect L
    BY InTrace
  <2>2. PICK m \in u : t = m \intersect K
    BY InTrace
  <2>3. s = m \intersect (K \intersect L) /\ s # {}
    BY <2>1, <2>2, InTrace
  <2> QED BY <2>3, InTrace
<1>2. ASSUME NEW s \in Trace(u, K \intersect L)
      PROVE  s \in Trace(Trace(u, K), L)
  <2>1. PICK m \in u : s = m \intersect (K \intersect L)
    BY InTrace
  <2>2. s = (m \intersect K) \intersect L /\ s # {}
    BY <2>1, InTrace
  <2>3. m \intersect K \in Trace(u, K)
    BY <2>2, InTrace
  <2> QED BY <2>2, <2>3, InTrace
<1> QED BY <1>1, <1>2

(* A trace has no more sets.                                               *)
LEMMA TraceIsFinite ==
  ASSUME NEW u, IsFiniteSet(u), NEW K
  PROVE  IsFiniteSet(Trace(u, K)) /\ Cardinality(Trace(u, K)) <= Cardinality(u)
<1> DEFINE I == {m \intersect K : m \in u}
           f == [m \in u |-> m \intersect K]
<1>1. IsFiniteSet(I) /\ Cardinality(I) <= Cardinality(u)
  <2>1. f \in Surjection(u, I)
    BY DEF Surjection
  <2> HIDE DEF f, I
  <2> QED BY <2>1, FS_Surjection
<1>2. Trace(u, K) \subseteq I
  BY DEF Trace
<1>3. IsFiniteSet(Trace(u, K)) /\ Cardinality(Trace(u, K)) <= Cardinality(I)
  BY <1>1, <1>2, FS_Subset
<1> HIDE DEF I
<1> QED BY <1>1, <1>3, FS_CardinalityType

(* A family stays one.                                                     *)
LEMMA TraceIsFamily ==
  ASSUME NEW u, IsFamily(u), NEW K
  PROVE  IsFamily(Trace(u, K))
<1>2. IsFiniteSet(Trace(u, K))
  BY TraceIsFinite DEF IsFamily
<1>3. \A m \in Trace(u, K) : m # {}
  BY DEF Trace
<1>4. ASSUME NEW m \in u, NEW n \in u
      PROVE  \/ m \intersect K \subseteq n \intersect K
             \/ n \intersect K \subseteq m \intersect K
             \/ (m \intersect K) \intersect (n \intersect K) = {}
  BY DEF IsFamily
<1>5. \A m \in Trace(u, K) : \E k \in u : m = k \intersect K
  BY DEF Trace
<1>6. \A m, n \in Trace(u, K) : m \subseteq n \/ n \subseteq m \/ m \intersect n = {}
  BY <1>4, <1>5
<1> QED BY <1>2, <1>3, <1>6 DEF IsFamily

(* A node that joins two blocks with fewer labels comes from one that      *)
(* joined them before.                                                     *)
LEMMA JoinedBefore ==
  ASSUME NEW u, IsFamily(u), NEW K, NEW B, NEW C, B # {}, C # {},
         Together(u, B), Together(u, C),
         NEW m \in Trace(u, K), Joins(Trace(u, K), B \intersect K, m),
         Joins(Trace(u, K), C \intersect K, m)
  PROVE  \E k \in u : Joins(u, B, k) /\ Joins(u, C, k)
<1>1. PICK a \in u : B \subseteq a /\ \A k \in u : B \subseteq k => a \subseteq k
  BY LeastNodeExists
<1>2. PICK c \in u : C \subseteq c /\ \A k \in u : C \subseteq k => c \subseteq k
  BY LeastNodeExists
<1>3. PICK n \in u : m = n \intersect K
  BY DEF Trace
<1>4. m \intersect B # {} /\ m \intersect C # {}
  BY DEF Joins
<1>5. m \subseteq a /\ m \subseteq c
  <2>1. a \intersect K \in Trace(u, K)
    BY <1>1, <1>3, <1>4 DEF Trace, Joins
  <2>2. c \intersect K \in Trace(u, K)
    BY <1>2, <1>3, <1>4 DEF Trace, Joins
  <2> QED BY <1>1, <1>2, <2>1, <2>2 DEF Joins
<1>6. ASSUME NEW k \in u, m \subseteq k, k \subseteq a, k \subseteq c
      PROVE  Joins(u, B, k) /\ Joins(u, C, k)
  BY <1>1, <1>2, <1>4, <1>6 DEF Joins
<1>7. \E k \in u : m \subseteq k /\ k \subseteq a /\ k \subseteq c
  <2>1. (n \subseteq a \/ a \subseteq n) /\ (n \subseteq c \/ c \subseteq n)
        /\ (a \subseteq c \/ c \subseteq a)
    BY <1>3, <1>4, <1>5 DEF IsFamily
  <2> QED BY <1>3, <1>5, <2>1
<1> QED BY <1>6, <1>7

(* An agreement forest stays one if labels are left out everywhere.        *)
LEMMA RestrictionAgrees ==
  ASSUME NEW us, 1 \in DOMAIN us, \A i \in DOMAIN us : IsFamily(us[i]),
         NEW P, \A B \in P : B # {}, AgreesOn(us, P), NEW K,
         NEW vs, DOMAIN vs = DOMAIN us, \A i \in DOMAIN us : vs[i] = Trace(us[i], K)
  PROVE  AgreesOn(vs, Trace(P, K))
<1>1. \A D \in Trace(P, K) : \E B \in P : D = B \intersect K /\ D # {}
  BY DEF Trace
<1>2. ASSUME NEW B \in P, B \intersect K # {}, NEW i \in DOMAIN us
      PROVE  Together(vs[i], B \intersect K)
  <2>1. PICK m \in us[i] : B \subseteq m
    BY DEF AgreesOn, Together
  <2>2. m \intersect K \in vs[i] /\ B \intersect K \subseteq m \intersect K
    BY <1>2, <2>1, InTrace
  <2> QED BY <2>2 DEF Together
<1>3. ASSUME NEW B \in P, NEW i \in DOMAIN us
      PROVE  Trace(vs[i], B \intersect K) = Trace(vs[1], B \intersect K)
  <2>1. Trace(us[i], B) = Trace(us[1], B)
    BY DEF AgreesOn
  <2>2. ASSUME NEW j \in DOMAIN us
        PROVE  Trace(vs[j], B \intersect K) = Trace(Trace(us[j], B), K)
    <3>1. K \intersect (B \intersect K) = B \intersect K
      OBVIOUS
    <3>2. Trace(Trace(us[j], K), B \intersect K) = Trace(us[j], B \intersect K)
      BY <3>1, TraceTwice
    <3>3. Trace(Trace(us[j], B), K) = Trace(us[j], B \intersect K)
      BY TraceTwice
    <3>4. vs[j] = Trace(us[j], K)
      OBVIOUS
    <3> QED BY <3>2, <3>3, <3>4
  <2> QED BY <2>1, <2>2
<1>4. ASSUME NEW i \in DOMAIN us, NEW B \in P, NEW C \in P,
             B \intersect K # C \intersect K, NEW m \in vs[i],
             Joins(vs[i], B \intersect K, m), Joins(vs[i], C \intersect K, m)
      PROVE  FALSE
  <2>1. B # C /\ Together(us[i], B) /\ Together(us[i], C)
    BY <1>4 DEF AgreesOn
  <2>2. vs[i] = Trace(us[i], K) /\ IsFamily(us[i]) /\ B # {} /\ C # {}
    OBVIOUS
  <2>3. \E k \in us[i] : Joins(us[i], B, k) /\ Joins(us[i], C, k)
    BY <1>4, <2>1, <2>2, JoinedBefore
  <2> QED BY <2>1, <2>3 DEF AgreesOn
<1>5. \A D \in Trace(P, K) : \A i \in DOMAIN vs :
        Together(vs[i], D) /\ Trace(vs[i], D) = Trace(vs[1], D)
  BY <1>1, <1>2, <1>3
<1>6. \A i \in DOMAIN vs : \A D, E \in Trace(P, K) : D # E =>
        \A m \in vs[i] : ~(Joins(vs[i], D, m) /\ Joins(vs[i], E, m))
  <2> SUFFICES ASSUME NEW i \in DOMAIN us, NEW D \in Trace(P, K), NEW E \in Trace(P, K), D # E,
                      NEW m \in vs[i], Joins(vs[i], D, m), Joins(vs[i], E, m)
               PROVE  FALSE
    OBVIOUS
  <2>1. PICK B \in P : D = B \intersect K
    BY <1>1
  <2>2. PICK C \in P : E = C \intersect K
    BY <1>1
  <2> QED BY <1>4, <2>1, <2>2
<1> QED BY <1>5, <1>6 DEF AgreesOn

(* Fewer labels, no more blocks. *)
LEMMA RestrictedPartition ==
  ASSUME NEW X, NEW P, IsFiniteSet(P), IsPartition(P, X), NEW K
  PROVE  /\ IsPartition(Trace(P, K), X \intersect K)
         /\ IsFiniteSet(Trace(P, K)) /\ Cardinality(Trace(P, K)) <= Cardinality(P)
<1>3. IsFiniteSet(Trace(P, K)) /\ Cardinality(Trace(P, K)) <= Cardinality(P)
  BY TraceIsFinite
<1>4. UNION Trace(P, K) = X \intersect K
  BY UnionOfTrace DEF IsPartition
<1>5. \A D \in Trace(P, K) : \E B \in P : D = B \intersect K /\ D # {}
  BY DEF Trace
<1>6. ASSUME NEW D \in Trace(P, K), NEW E \in Trace(P, K)
      PROVE  D # {} /\ (D = E \/ D \intersect E = {})
  <2>1. PICK B \in P : D = B \intersect K /\ D # {}
    BY <1>5
  <2>2. PICK C \in P : E = C \intersect K
    BY <1>5
  <2>3. B = C \/ B \intersect C = {}
    BY DEF IsPartition
  <2> QED BY <2>1, <2>2, <2>3
<1> QED BY <1>3, <1>4, <1>6 DEF IsPartition

-----------------------------------------------------------------------------
(* The least number of components. *)

Singletons(X) == {{x} : x \in X}

(* The forest of single labels agrees. *)
LEMMA SingletonsAgree ==
  ASSUME NEW us, 1 \in DOMAIN us, NEW X,
         \A i \in DOMAIN us : IsFamily(us[i]) /\ \A x \in X : {x} \in us[i]
  PROVE  AgreesOn(us, Singletons(X)) /\ IsPartition(Singletons(X), X)
<1>1. ASSUME NEW x \in X, NEW i \in DOMAIN us
      PROVE  /\ Together(us[i], {x})
             /\ \A s : s \in Trace(us[i], {x}) <=> s = {x}
             /\ \A m : Joins(us[i], {x}, m) => m = {x}
  <2>1. {x} \in us[i] /\ {x} \intersect {x} = {x}
    OBVIOUS
  <2>2. Together(us[i], {x})
    BY <2>1 DEF Together
  <2>3. ASSUME NEW s \in Trace(us[i], {x})  PROVE s = {x}
    BY InTrace
  <2>4. {x} \in Trace(us[i], {x})
    BY <2>1, InTrace
  <2>5. \A m : Joins(us[i], {x}, m) => m = {x}
    BY <2>1 DEF Joins
  <2> QED BY <2>2, <2>3, <2>4, <2>5
<1>2. \A x \in X : \A i \in DOMAIN us : Trace(us[i], {x}) = Trace(us[1], {x})
  BY <1>1
<1>3. \A B \in Singletons(X) : \E x \in X : B = {x}
  BY DEF Singletons
<1>4. AgreesOn(us, Singletons(X))
  <2>1. ASSUME NEW B \in Singletons(X), NEW i \in DOMAIN us
        PROVE  Together(us[i], B) /\ Trace(us[i], B) = Trace(us[1], B)
    <3>1. PICK x \in X : B = {x}
      BY <1>3
    <3>2. Together(us[i], {x}) /\ Trace(us[i], {x}) = Trace(us[1], {x})
      BY <1>1, <1>2
    <3> QED BY <3>1, <3>2
  <2>2. ASSUME NEW i \in DOMAIN us, NEW B \in Singletons(X), NEW C \in Singletons(X), B # C,
               NEW m \in us[i], Joins(us[i], B, m), Joins(us[i], C, m)
        PROVE  FALSE
    <3>1. PICK x \in X : B = {x}
      BY <1>3
    <3>2. PICK y \in X : C = {y}
      BY <1>3
    <3>3. Joins(us[i], {x}, m) /\ Joins(us[i], {y}, m)
      BY <2>2, <3>1, <3>2
    <3>4. m = {x} /\ m = {y}
      BY <1>1, <3>3
    <3> QED BY <2>2, <3>1, <3>2, <3>4
  <2> QED BY <2>1, <2>2 DEF AgreesOn
<1>5. IsPartition(Singletons(X), X)
  <2>1. UNION Singletons(X) = X
    <3>1. \A x \in X : {x} \in Singletons(X)
      BY DEF Singletons
    <3> QED BY <1>3, <3>1
  <2> QED BY <1>3, <2>1 DEF IsPartition
<1> QED BY <1>4, <1>5

(* A partition of finitely many labels is finite. *)
LEMMA PartitionIsFinite ==
  ASSUME NEW X, IsFiniteSet(X), NEW P, IsPartition(P, X)
  PROVE  P \in PartitionsOf(X) /\ IsFiniteSet(P) /\ Cardinality(P) \in Nat
<1>1. \A B \in P : B \subseteq X
  BY DEF IsPartition
<1>2. P \subseteq SUBSET X
  BY <1>1
<1>3. IsFiniteSet(P)
  BY <1>2, FS_SUBSET, FS_Subset
<1> QED BY <1>2, <1>3, FS_CardinalityType DEF PartitionsOf

(* The agreement forests the model checker enumerates. *)
LEMMA AgreementForestsAre ==
  ASSUME NEW us, 1 \in DOMAIN us, \A i \in DOMAIN us : IsFamily(us[i]),
         NEW X, IsFiniteSet(X), NEW P
  PROVE  P \in AgreementForestsOver(AsForests(us), X) <=> IsPartition(P, X) /\ AgreesOn(us, P)
<1>1. P \in Partitions(X) <=> IsPartition(P, X)
  BY PartitionsAreAll, PartitionIsFinite DEF PartitionsOf
<1>2. IsPartition(P, X) => \A B \in P : B # {}
  BY DEF IsPartition
<1>3. IsPartition(P, X) => (IsAgreementForest(AsForests(us), P) <=> AgreesOn(us, P))
  BY <1>2, AgreementByTraces
<1> QED BY <1>1, <1>3 DEF AgreementForestsOver

(* Every component counts twice if 0 is no label. *)
LEMMA WeightIsTwice ==
  ASSUME NEW X, IsFiniteSet(X), 0 \notin X, NEW P, IsPartition(P, X)
  PROVE  PartitionWeight(P, 0) = 2 * Cardinality(P)
<1>1. {0} \notin P
  BY DEF IsPartition
<1>2. Cardinality(P) \in Nat
  BY PartitionIsFinite
<1> QED BY <1>1, <1>2 DEF PartitionWeight

(* Some agreement forest has the weight LeastWeight gives.                 *)
LEMMA LeastWeightIsReached ==
  ASSUME NEW us, 1 \in DOMAIN us, NEW X, IsFiniteSet(X), 0 \notin X,
         \A i \in DOMAIN us : IsFamily(us[i]) /\ \A x \in X : {x} \in us[i]
  PROVE  \E P : /\ IsPartition(P, X) /\ AgreesOn(us, P)
                /\ Cardinality(P) = LeastWeight(AsForests(us), X, 0) \div 2
<1> DEFINE F == AgreementForestsOver(AsForests(us), X)
           weights == {PartitionWeight(P, 0) : P \in F}
           least == {w \in weights : \A v \in weights : w <= v}
<1>1. \A P : P \in F <=> IsPartition(P, X) /\ AgreesOn(us, P)
  BY AgreementForestsAre
<1>2. Singletons(X) \in F
  BY <1>1, SingletonsAgree
<1> HIDE DEF F
<1>3. ASSUME NEW P \in F
      PROVE  PartitionWeight(P, 0) = 2 * Cardinality(P) /\ Cardinality(P) \in Nat
  BY <1>1, WeightIsTwice, PartitionIsFinite
<1>4. weights \subseteq Nat /\ weights # {}
  BY <1>2, <1>3
<1>5. least # {}
  <2>1. \E w \in weights : \A v \in weights : w <= v
    <3> HIDE DEF weights
    <3> QED BY <1>4, LeastElement
  <2> QED BY <2>1
<1>6. LeastWeights(AsForests(us), X, 0) = least
  BY DEF LeastWeights, F
<1>7. LeastWeight(AsForests(us), X, 0) \in least
  BY <1>5, <1>6 DEF LeastWeight
<1>8. PICK P \in F : LeastWeight(AsForests(us), X, 0) = PartitionWeight(P, 0)
  BY <1>7
<1>9. Cardinality(P) = LeastWeight(AsForests(us), X, 0) \div 2
  <2>1. PICK c \in Nat : c = Cardinality(P)
    BY <1>3
  <2>2. LeastWeight(AsForests(us), X, 0) = 2 * c
    BY <1>3, <1>8, <2>1
  <2> QED BY <2>1, <2>2
<1> QED BY <1>1, <1>9
-----------------------------------------------------------------------------
(* Sorting. *)

IsAscending(s, number) == \A j, k \in DOMAIN s : j < k => number[s[j]] <= number[s[k]]

(* The elements of a finite set can be sorted: a least set that could not  *)
(* would have a last element.                                              *)
LEMMA SortedExists ==
  ASSUME NEW S, IsFiniteSet(S), NEW number \in [S -> Nat]
  PROVE  \E s \in SetToSeqs(S) : IsAscending(s, number)
<1> DEFINE Bad == {T \in SUBSET S : ~\E s \in SetToSeqs(T) : IsAscending(s, number)}
           R == StrictSubsetOrdering(S)
           U == FiniteSubsetsOf(S)
<1>1. SUFFICES ASSUME Bad # {}  PROVE FALSE
  OBVIOUS
<1>2. IsWellFoundedOn(R, U)
  BY FS_StrictSubsetOrderingWellFounded
<1>3. U = SUBSET S
  BY FS_FiniteSubsetsOfFinite
<1>4. PICK T \in Bad : \A V \in Bad : ~(<<V, T>> \in R)
  <2>1. Bad \subseteq U
    BY <1>3
  <2> HIDE DEF Bad, R, U
  <2> QED BY <1>1, <1>2, <2>1, WFMin
<1>5. T \subseteq S /\ IsFiniteSet(T) /\ ~\E s \in SetToSeqs(T) : IsAscending(s, number)
  BY <1>4, FS_Subset
<1>6. T # {}
  <2>1. SUFFICES ASSUME T = {}  PROVE FALSE
    OBVIOUS
  <2>2. Cardinality(T) = 0
    BY <2>1, FS_EmptySet
  <2>3. <<>> \in SetToSeqs(T)
    BY <2>2 DEF SetToSeqs
  <2>4. IsAscending(<<>>, number)
    BY DEF IsAscending
  <2> QED BY <1>5, <2>3, <2>4
<1>7. PICK x \in T : \A y \in T : number[y] <= number[x]
  <2> DEFINE f == [y \in T |-> number[y]]
             X == {number[y] : y \in T}
  <2>1. f \in Surjection(T, X)
    BY DEF Surjection
  <2>2. IsFiniteSet(X)
    BY <2>1, <1>5, FS_Surjection
  <2>3. X \subseteq Nat /\ X # {}
    BY <1>5, <1>6
  <2>4. PICK m \in X : \A y \in X : y <= m
    <3> HIDE DEF X
    <3> QED BY <2>2, <2>3, GreatestElement
  <2> QED BY <2>4
<1> DEFINE V == T \ {x}
<1>8. IsFiniteSet(V) /\ V \subseteq S
  BY <1>5, FS_RemoveElement
<1>9. V \notin Bad
  <2>1. <<V, T>> \in R
    BY <1>5, <1>8 DEF StrictSubsetOrdering
  <2> HIDE DEF Bad, R, V
  <2> QED BY <1>4, <2>1
<1>10. PICK s \in SetToSeqs(V) : IsAscending(s, number)
  BY <1>8, <1>9
<1>11. PICK n \in Nat : n = Cardinality(V)
  BY <1>8, FS_CardinalityType
<1>12. Cardinality(T) = n + 1
  <2>1. T = V \union {x} /\ x \notin V
    OBVIOUS
  <2> HIDE DEF V
  <2> QED BY <1>8, <1>11, <2>1, FS_AddElement
<1>13. s \in [1..n -> V] /\ \A i, j \in 1..n : i # j => s[i] # s[j]
  BY <1>10, <1>11 DEF SetToSeqs
<1> DEFINE q == [k \in 1..n + 1 |-> IF k = n + 1 THEN x ELSE s[k]]
<1>14. \A k \in 1..n + 1 : k # n + 1 => k \in 1..n /\ q[k] = s[k]
  BY <1>11
<1>15. DOMAIN q = 1..n + 1 /\ q[n + 1] = x /\ n + 1 \in Nat
  BY <1>11
<1> HIDE DEF q
<1>16. \A k \in 1..n + 1 : q[k] \in T
  BY <1>13, <1>14, <1>15
<1>17. \A i, j \in 1..n + 1 : i # j => q[i] # q[j]
  BY <1>13, <1>14, <1>15
<1>18. q \in SetToSeqs(T)
  <2>1. q \in [1..n + 1 -> T]
    <3>1. q = [k \in 1..n + 1 |-> q[k]]
      BY DEF q
    <3> QED BY <3>1, <1>16
  <2> QED BY <2>1, <1>12, <1>17 DEF SetToSeqs
<1>19. IsAscending(q, number)
  <2> SUFFICES ASSUME NEW j \in 1..n + 1, NEW k \in 1..n + 1, j < k
               PROVE  number[q[j]] <= number[q[k]]
    BY <1>15 DEF IsAscending
  <2>1. CASE k = n + 1
    BY <2>1, <1>7, <1>15, <1>16
  <2>2. CASE k # n + 1
    <3>1. j # n + 1
      BY <2>2, <1>11
    <3>2. j \in 1..n /\ k \in 1..n /\ q[j] = s[j] /\ q[k] = s[k]
      BY <2>2, <3>1, <1>14
    <3> QED BY <3>2, <1>10, <1>13 DEF IsAscending
  <2> QED BY <2>1, <2>2
<1> QED BY <1>5, <1>18, <1>19

(* Each element of a finite set has one place in an enumeration of it. *)
LEMMA EnumerationHasAll ==
  ASSUME NEW S, IsFiniteSet(S), NEW s \in SetToSeqs(S)
  PROVE  LET n == Cardinality(S)
         IN  /\ n \in Nat /\ s \in [1..n -> S]
             /\ \A j, k \in 1..n : j # k => s[j] # s[k]
             /\ \A x \in S : \E k \in 1..n : s[k] = x
<1>1. PICK n \in Nat : n = Cardinality(S)
  BY FS_CardinalityType
<1>2. s \in [1..n -> S] /\ \A j, k \in 1..n : j # k => s[j] # s[k]
  BY <1>1 DEF SetToSeqs
<1> DEFINE X == {s[k] : k \in 1..n}
<1>3. s \in Surjection(1..n, X) /\ s \in Injection(1..n, X)
  BY <1>2 DEF Surjection, Injection, IsInjective
<1>4. IsFiniteSet(1..n) /\ Cardinality(1..n) = n
  BY <1>1, FS_Interval
<1>5. Cardinality(X) = n
  <2> HIDE DEF X
  <2> QED BY <1>3, <1>4, FS_Surjection
<1>6. X \subseteq S
  BY <1>2
<1>7. X = S
  <2> HIDE DEF X
  <2> QED BY <1>1, <1>5, <1>6, FS_Subset
<1> QED BY <1>1, <1>2, <1>7

(* SortedBy sorts: every element is at one position. *)
LEMMA SortedIsAscending ==
  ASSUME NEW S, IsFiniteSet(S), NEW number \in [S -> Nat]
  PROVE  LET s == SortedBy(S, number)
             n == Cardinality(S)
         IN  /\ n \in Nat /\ s \in [1..n -> S] /\ IsAscending(s, number)
             /\ \A j, k \in 1..n : j # k => s[j] # s[k]
             /\ \A x \in S : \E k \in 1..n : s[k] = x
<1>1. PICK s : s = SortedBy(S, number)
  OBVIOUS
<1>2. s \in SetToSeqs(S) /\ IsAscending(s, number)
  BY <1>1, SortedExists DEF SortedBy, IsAscending
<1> QED BY <1>1, <1>2, EnumerationHasAll

(* Two families with the same numbers, each number once, line up.          *)
LEMMA SortedAlike ==
  ASSUME NEW F, IsFiniteSet(F), NEW f \in [F -> Nat], \A x, y \in F : f[x] = f[y] => x = y,
         NEW G, IsFiniteSet(G), NEW g \in [G -> Nat], \A x, y \in G : g[x] = g[y] => x = y,
         \A x \in F : \E y \in G : g[y] = f[x],
         \A y \in G : \E x \in F : f[x] = g[y]
  PROVE  /\ Cardinality(F) = Cardinality(G)
         /\ \A k \in 1..Cardinality(F) : f[SortedBy(F, f)[k]] = g[SortedBy(G, g)[k]]
<1>1. PICK n \in Nat : n = Cardinality(F)
  BY FS_CardinalityType
<1>2. n = Cardinality(G)
  <2> DEFINE h == [x \in F |-> CHOOSE y \in G : g[y] = f[x]]
  <2>1. \A x \in F : h[x] \in G /\ g[h[x]] = f[x]
    OBVIOUS
  <2>2. h \in [F -> G]
    BY <2>1
  <2> HIDE DEF h
  <2>3. h \in Surjection(F, G)
    <3>1. \A y \in G : \E x \in F : h[x] = y
      BY <2>1
    <3> QED BY <2>2, <3>1 DEF Surjection
  <2>4. h \in Injection(F, G)
    <3>1. \A x, y \in F : h[x] = h[y] => x = y
      BY <2>1
    <3> QED BY <2>2, <3>1 DEF Injection, IsInjective
  <2> QED BY <1>1, <2>3, <2>4, FS_Surjection
<1>3. PICK s : s = SortedBy(F, f)
  OBVIOUS
<1>4. PICK t : t = SortedBy(G, g)
  OBVIOUS
<1>5. /\ s \in [1..n -> F] /\ IsAscending(s, f)
      /\ \A j, k \in 1..n : j # k => s[j] # s[k]
      /\ \A x \in F : \E k \in 1..n : s[k] = x
  BY <1>1, <1>3, SortedIsAscending
<1>6. /\ t \in [1..n -> G] /\ IsAscending(t, g)
      /\ \A j, k \in 1..n : j # k => t[j] # t[k]
      /\ \A x \in G : \E k \in 1..n : t[k] = x
  BY <1>2, <1>4, SortedIsAscending
<1> DEFINE a(k) == f[s[k]]
           b(k) == g[t[k]]
           Bad == {k \in 1..n : a(k) # b(k)}
<1>7. \A k \in 1..n : a(k) \in Nat /\ b(k) \in Nat
  BY <1>5, <1>6
<1>8. \A j, k \in 1..n : j < k => a(j) < a(k) /\ b(j) < b(k)
  <2> SUFFICES ASSUME NEW j \in 1..n, NEW k \in 1..n, j < k
               PROVE  a(j) < a(k) /\ b(j) < b(k)
    OBVIOUS
  <2>1. a(j) <= a(k) /\ b(j) <= b(k)
    BY <1>5, <1>6 DEF IsAscending
  <2>2. a(j) # a(k) /\ b(j) # b(k)
    BY <1>5, <1>6
  <2> HIDE DEF a, b
  <2> QED BY <1>7, <2>1, <2>2
<1>9. \A k \in 1..n : (\E j \in 1..n : b(j) = a(k)) /\ \E j \in 1..n : a(j) = b(k)
  <2> SUFFICES ASSUME NEW k \in 1..n
               PROVE  (\E j \in 1..n : b(j) = a(k)) /\ \E j \in 1..n : a(j) = b(k)
    OBVIOUS
  <2>1. s[k] \in F /\ t[k] \in G
    BY <1>5, <1>6
  <2>2. PICK y \in G : g[y] = f[s[k]]
    BY <2>1
  <2>3. PICK x \in F : f[x] = g[t[k]]
    BY <2>1
  <2>4. PICK i \in 1..n : t[i] = y
    BY <1>6
  <2>5. PICK j \in 1..n : s[j] = x
    BY <1>5
  <2>6. b(i) = a(k) /\ a(j) = b(k)
    BY <2>2, <2>3, <2>4, <2>5
  <2> HIDE DEF a, b
  <2> QED BY <2>6
<1> HIDE DEF a, b
<1>10. SUFFICES ASSUME Bad # {}  PROVE FALSE
  BY <1>1, <1>3, <1>4, <1>2 DEF a, b
<1>11. PICK k \in Bad : \A j \in Bad : k <= j
  <2>1. Bad \subseteq Nat
    OBVIOUS
  <2> HIDE DEF Bad
  <2> QED BY <1>10, <2>1, LeastElement
<1>12. k \in 1..n /\ a(k) # b(k) /\ \A j \in 1..n : j < k => a(j) = b(j)
  BY <1>11
<1>13. CASE a(k) < b(k)
  <2>1. PICK j \in 1..n : b(j) = a(k)
    BY <1>9, <1>12
  <2>2. j < k
    BY <1>7, <1>8, <1>12, <1>13, <2>1
  <2> QED BY <1>7, <1>8, <1>12, <2>1, <2>2
<1>14. CASE b(k) < a(k)
  <2>1. PICK j \in 1..n : a(j) = b(k)
    BY <1>9, <1>12
  <2>2. j < k
    BY <1>7, <1>8, <1>12, <1>14, <2>1
  <2> QED BY <1>7, <1>8, <1>12, <2>1, <2>2
<1> QED BY <1>7, <1>12, <1>13, <1>14

-----------------------------------------------------------------------------
(* Decoupling. *)

(* The trees of a forest share no labels. *)
IsForest(F) ==
  /\ \A u \in F : IsTree(u) /\ LabelsOf(u) # {}
  /\ \A u, v \in F : u # v => LabelsOf(u) \intersect LabelsOf(v) = {}

LabelSets(F) == {LabelsOf(u) : u \in F}

HasNode(F, m) == \E u \in F : m \in u

(* The subtree that is taken off: it has the labels of n and the root r. *)
LEMMA SubtreeIsTree ==
  ASSUME NEW u, IsTree(u), NEW n \in u, NEW r, r \notin LabelsOf(u)
  PROVE  /\ IsTree(DecoupledSubtree(u, n, r))
         /\ LabelsOf(DecoupledSubtree(u, n, r)) = n \union {r}
<1>1. n # {} /\ \A m \in u : m \subseteq LabelsOf(u)
  BY DEF IsTree, LabelsOf
<1>2. LabelsOf(DecoupledSubtree(u, n, r)) = n \union {r}
  BY DEF LabelsOf, DecoupledSubtree
<1>3. \A m, k \in DecoupledSubtree(u, n, r) :
        m \subseteq k \/ k \subseteq m \/ m \intersect k = {}
  <2> SUFFICES ASSUME NEW m \in DecoupledSubtree(u, n, r), NEW k \in DecoupledSubtree(u, n, r)
               PROVE  m \subseteq k \/ k \subseteq m \/ m \intersect k = {}
    OBVIOUS
  <2>1. (m \in u /\ m \subseteq n) \/ m = {r} \/ m = n \union {r}
    BY DEF DecoupledSubtree
  <2>2. (k \in u /\ k \subseteq n) \/ k = {r} \/ k = n \union {r}
    BY DEF DecoupledSubtree
  <2>3. CASE m \in u /\ k \in u
    BY <2>3 DEF IsTree
  <2>4. CASE m \notin u \/ k \notin u
    BY <2>1, <2>2, <2>4
  <2> QED BY <2>3, <2>4
<1>4. \A m \in DecoupledSubtree(u, n, r) : m # {}
  BY DEF DecoupledSubtree, IsTree
<1>5. n \union {r} \in DecoupledSubtree(u, n, r)
  BY DEF DecoupledSubtree
<1> QED BY <1>2, <1>3, <1>4, <1>5 DEF IsTree

(* The tree that is left: n is the terminal t. *)
LEMMA ParentIsTree ==
  ASSUME NEW u, IsTree(u), NEW n \in u, NEW t, t \notin LabelsOf(u)
  PROVE  /\ IsTree(ParentTree(u, n, t))
         /\ LabelsOf(ParentTree(u, n, t)) = (LabelsOf(u) \ n) \union {t}
<1> DEFINE K == {k \in u : k \intersect n = {} \/ n \subseteq k}
<1>1. n # {} /\ \A m \in u : m # {} /\ m \subseteq LabelsOf(u)
  BY DEF IsTree, LabelsOf
<1>2. LabelsOf(u) \in K
  BY <1>1 DEF IsTree
<1>3. ParentTree(u, n, t) = {WithoutSubtree(m, n, t) : m \in K}
  BY DEF ParentTree
<1>4. \A m \in K : \/ m \in u /\ n \subseteq m /\ WithoutSubtree(m, n, t) = (m \ n) \union {t}
                   \/ m \in u /\ m \intersect n = {} /\ WithoutSubtree(m, n, t) = m
  BY <1>1 DEF WithoutSubtree
<1>5. WithoutSubtree(LabelsOf(u), n, t) = (LabelsOf(u) \ n) \union {t}
  BY <1>1 DEF WithoutSubtree
<1> HIDE DEF K
<1>6. (LabelsOf(u) \ n) \union {t} \in ParentTree(u, n, t)
  BY <1>2, <1>3, <1>5
<1>7. \A m \in K : WithoutSubtree(m, n, t) \subseteq (LabelsOf(u) \ n) \union {t}
  BY <1>1, <1>4
<1>8. LabelsOf(ParentTree(u, n, t)) = (LabelsOf(u) \ n) \union {t}
  <2>1. \A p \in ParentTree(u, n, t) : p \subseteq (LabelsOf(u) \ n) \union {t}
    BY <1>3, <1>7
  <2>2. UNION ParentTree(u, n, t) = (LabelsOf(u) \ n) \union {t}
    BY <1>6, <2>1
  <2> QED BY <2>2 DEF LabelsOf
<1>9. \A p \in ParentTree(u, n, t) : p # {}
  BY <1>1, <1>3, <1>4
<1>10. \A p, q \in ParentTree(u, n, t) : p \subseteq q \/ q \subseteq p \/ p \intersect q = {}
  <2> SUFFICES ASSUME NEW m \in K, NEW k \in K
               PROVE  \/ WithoutSubtree(m, n, t) \subseteq WithoutSubtree(k, n, t)
                      \/ WithoutSubtree(k, n, t) \subseteq WithoutSubtree(m, n, t)
                      \/ WithoutSubtree(m, n, t) \intersect WithoutSubtree(k, n, t) = {}
    BY <1>3
  <2>1. m \subseteq k \/ k \subseteq m \/ m \intersect k = {}
    BY <1>4 DEF IsTree
  <2>2. m \subseteq LabelsOf(u) /\ k \subseteq LabelsOf(u)
    BY <1>1, <1>4
  <2> QED BY <1>1, <1>4, <2>1, <2>2
<1> QED BY <1>6, <1>8, <1>9, <1>10 DEF IsTree

(* What lies apart from the subtree of n keeps its place.                  *)
LEMMA DecoupleForest ==
  ASSUME NEW F, IsForest(F), NEW L \in LabelSets(F),
         NEW n, n \subseteq L, HasNode(F, n),
         NEW t, t \notin UNION LabelSets(F), NEW r, r \notin UNION LabelSets(F), t # r
  PROVE  /\ IsForest(Decouple(F, n, t, r))
         /\ LabelSets(Decouple(F, n, t, r))
              = (LabelSets(F) \ {L}) \union {n \union {r}, (L \ n) \union {t}}
         /\ \A m : HasNode(F, m) => HasNode(Decouple(F, n, t, r), WithoutSubtree(m, n, t))
<1>1. \A v \in F : IsTree(v) /\ LabelsOf(v) # {} /\ \A m \in v : m # {} /\ m \subseteq LabelsOf(v)
  BY DEF IsForest, IsTree, LabelsOf
<1>2. PICK u \in F : u = CHOOSE v \in F : n \in v
  BY DEF HasNode
<1>3. n \in u
  BY <1>2 DEF HasNode
<1>4. L = LabelsOf(u)
  <2>1. PICK v \in F : L = LabelsOf(v)
    BY DEF LabelSets
  <2>2. n # {} /\ n \subseteq LabelsOf(u)
    BY <1>1, <1>3
  <2> QED BY <2>1, <2>2 DEF IsForest
<1> DEFINE A == DecoupledSubtree(u, n, r)
           B == ParentTree(u, n, t)
           D == Decouple(F, n, t, r)
<1>5. D = (F \ {u}) \union {A, B}
  BY <1>2 DEF Decouple
<1>6. \A v \in F : r \notin LabelsOf(v) /\ t \notin LabelsOf(v)
  BY DEF LabelSets
<1>7. IsTree(A) /\ LabelsOf(A) = n \union {r}
  BY <1>1, <1>3, <1>6, SubtreeIsTree
<1>8. IsTree(B) /\ LabelsOf(B) = (L \ n) \union {t}
  BY <1>1, <1>3, <1>4, <1>6, ParentIsTree
<1> HIDE DEF A, B, D
<1>9. \A v \in F \ {u} : LabelsOf(v) \intersect L = {}
  BY <1>4 DEF IsForest
<1>10. IsForest(D)
  <2>1. \A v \in D : IsTree(v) /\ LabelsOf(v) # {}
    BY <1>1, <1>5, <1>7, <1>8
  <2>2. LabelsOf(A) \intersect LabelsOf(B) = {}
    BY <1>4, <1>6, <1>7, <1>8
  <2>3. \A v \in F \ {u} : /\ LabelsOf(v) \intersect LabelsOf(A) = {}
                           /\ LabelsOf(v) \intersect LabelsOf(B) = {}
    BY <1>6, <1>7, <1>8, <1>9
  <2>4. \A v, w \in F \ {u} : v # w => LabelsOf(v) \intersect LabelsOf(w) = {}
    BY DEF IsForest
  <2>5. \A v, w \in D : v # w => LabelsOf(v) \intersect LabelsOf(w) = {}
    BY <1>5, <2>2, <2>3, <2>4
  <2> QED BY <2>1, <2>5 DEF IsForest
<1>11. LabelSets(D) = (LabelSets(F) \ {L}) \union {n \union {r}, (L \ n) \union {t}}
  <2>1. \A v \in F : v # u => LabelsOf(v) # L
    BY <1>1, <1>9
  <2>2. {LabelsOf(v) : v \in F \ {u}} = LabelSets(F) \ {L}
    BY <1>4, <2>1 DEF LabelSets
  <2>3. LabelSets(D) = {LabelsOf(v) : v \in F \ {u}} \union {LabelsOf(A), LabelsOf(B)}
    BY <1>5 DEF LabelSets
  <2> QED BY <1>7, <1>8, <2>2, <2>3
<1>12. ASSUME NEW m, HasNode(F, m)
       PROVE  HasNode(D, WithoutSubtree(m, n, t))
  <2>1. PICK v \in F : m \in v
    BY <1>12 DEF HasNode
  <2>2. n # {} /\ n \subseteq LabelsOf(u)
    BY <1>1, <1>3
  <2>3. CASE v # u
    <3>1. ~(n \subseteq m)
      BY <1>1, <1>4, <1>9, <2>1, <2>2, <2>3
    <3> QED BY <1>5, <2>1, <2>3, <3>1 DEF HasNode, WithoutSubtree
  <2>4. CASE v = u /\ (n \subseteq m \/ m \intersect n = {})
    <3>1. WithoutSubtree(m, n, t) \in B
      BY <2>1, <2>4 DEF B, ParentTree
    <3> QED BY <1>5, <3>1 DEF HasNode
  <2>5. CASE v = u /\ m \subseteq n /\ ~(n \subseteq m)
    <3>1. m \in A
      BY <2>1, <2>5 DEF A, DecoupledSubtree
    <3> QED BY <1>5, <2>5, <3>1 DEF HasNode, WithoutSubtree
  <2> QED BY <1>1, <1>3, <2>1, <2>3, <2>4, <2>5 DEF IsTree
<1> QED BY <1>10, <1>11, <1>12 DEF D

(* A finite forest stays finite.                                           *)
LEMMA DecoupleIsFinite ==
  ASSUME NEW F, IsFiniteSet(F), NEW n, NEW t, NEW r
  PROVE  IsFiniteSet(Decouple(F, n, t, r)) /\ Decouple(F, n, t, r) # {}
<1> DEFINE u == CHOOSE v \in F : n \in v
           A == DecoupledSubtree(u, n, r)
           B == ParentTree(u, n, t)
<1>1. Decouple(F, n, t, r) = ((F \ {u}) \union {A}) \union {B}
  BY DEF Decouple
<1> HIDE DEF u, A, B
<1>2. IsFiniteSet(((F \ {u}) \union {A}) \union {B})
  BY FS_RemoveElement, FS_AddElement
<1> QED BY <1>1, <1>2

-----------------------------------------------------------------------------
(* Where the trees of two forests have the same labels, those at the same  *)
(* position in the order of their least labels have.                       *)
LEMMA RootsLineUp ==
  ASSUME NEW F, IsForest(F), IsFiniteSet(F), UNION LabelSets(F) \subseteq Nat,
         NEW G, IsForest(G), IsFiniteSet(G), LabelSets(F) = LabelSets(G)
  PROVE  /\ Cardinality(F) \in Nat /\ Cardinality(F) = Cardinality(G)
         /\ \A k \in 1..Cardinality(F) :
              /\ RootsInOrder(F)[k] \in F
              /\ LabelsOf(RootsInOrder(F)[k]) = LabelsOf(RootsInOrder(G)[k])
         /\ \A j, k \in 1..Cardinality(F) : j # k => RootsInOrder(F)[j] # RootsInOrder(F)[k]
         /\ \A u \in F : \E k \in 1..Cardinality(F) : RootsInOrder(F)[k] = u
<1> DEFINE f == [u \in F |-> SmallestOf(LabelsOf(u))]
           g == [u \in G |-> SmallestOf(LabelsOf(u))]
<1>1. \A u \in F \union G : LabelsOf(u) \subseteq Nat /\ LabelsOf(u) # {}
  BY DEF IsForest, LabelSets
<1>2. \A u \in F \union G : SmallestOf(LabelsOf(u)) \in LabelsOf(u)
  BY <1>1, SmallestIsLeast
<1>3. f \in [F -> Nat] /\ g \in [G -> Nat]
  BY <1>1, <1>2
<1>4. /\ \A u \in F : f[u] = SmallestOf(LabelsOf(u))
      /\ \A u \in G : g[u] = SmallestOf(LabelsOf(u))
  OBVIOUS
<1>5. RootsInOrder(F) = SortedBy(F, f) /\ RootsInOrder(G) = SortedBy(G, g)
  BY DEF RootsInOrder
<1> HIDE DEF f, g
<1>6. /\ \A u, v \in F : f[u] = f[v] => u = v
      /\ \A u, v \in G : g[u] = g[v] => u = v
  BY <1>2, <1>4 DEF IsForest
<1>7. /\ \A u \in F : \E v \in G : LabelsOf(v) = LabelsOf(u)
      /\ \A v \in G : \E u \in F : LabelsOf(v) = LabelsOf(u)
  BY DEF LabelSets
<1>8. /\ \A u \in F : \E v \in G : g[v] = f[u]
      /\ \A v \in G : \E u \in F : f[u] = g[v]
  BY <1>4, <1>7
<1>9. PICK n \in Nat : n = Cardinality(F)
  BY FS_CardinalityType
<1>10. /\ Cardinality(G) = n
       /\ \A k \in 1..n : f[SortedBy(F, f)[k]] = g[SortedBy(G, g)[k]]
  BY <1>3, <1>6, <1>8, <1>9, SortedAlike
<1>11. /\ SortedBy(F, f) \in [1..n -> F]
       /\ \A j, k \in 1..n : j # k => SortedBy(F, f)[j] # SortedBy(F, f)[k]
       /\ \A u \in F : \E k \in 1..n : SortedBy(F, f)[k] = u
  BY <1>3, <1>9, SortedIsAscending
<1>12. SortedBy(G, g) \in [1..n -> G]
  BY <1>3, <1>10, SortedIsAscending
<1>13. ASSUME NEW k \in 1..n
       PROVE  LabelsOf(SortedBy(F, f)[k]) = LabelsOf(SortedBy(G, g)[k])
  <2>1. PICK u \in F : u = SortedBy(F, f)[k]
    BY <1>11
  <2>2. PICK v \in G : v = SortedBy(G, g)[k]
    BY <1>12
  <2>3. SmallestOf(LabelsOf(u)) = SmallestOf(LabelsOf(v))
    BY <1>4, <1>10, <2>1, <2>2
  <2>4. PICK w \in G : LabelsOf(w) = LabelsOf(u)
    BY <1>7
  <2>5. w = v
    BY <1>4, <1>6, <2>3, <2>4
  <2> QED BY <2>1, <2>2, <2>4, <2>5
<1> QED BY <1>5, <1>9, <1>10, <1>11, <1>13

(* The points found are common clusters, each with its twins. *)
LEMMA PointsAreNodes ==
  ASSUME NEW trees, IsFiniteSet(trees[1])
  PROVE  /\ DOMAIN PointsWithTwins(trees) = 1..Len(PointsWithTwins(trees))
         /\ Len(PointsWithTwins(trees)) \in Nat
         /\ \A k \in DOMAIN PointsWithTwins(trees) :
              \E n \in CommonClusters(trees) :
                PointsWithTwins(trees)[k] = [i \in DOMAIN trees |-> n]
<1> DEFINE S == CommonClusters(trees)
           number == [n \in S |-> PostorderNumber(trees[1], n)]
<1>1. S \subseteq trees[1] /\ IsFiniteSet(S)
  <2>1. S \subseteq trees[1]
    BY DEF CommonClusters
  <2> HIDE DEF S
  <2> QED BY <2>1, FS_Subset
<1>2. ASSUME NEW n  PROVE PostorderNumber(trees[1], n) \in Nat
  <2>1. IsFiniteSet({m \in trees[1] : VisitedBefore(trees[1], m, n)})
    BY FS_Subset
  <2> QED BY <2>1, FS_CardinalityType DEF PostorderNumber
<1>3. number \in [S -> Nat]
  BY <1>2
<1>4. PointsInOrder(trees) = SortedBy(S, number)
  BY DEF PointsInOrder
<1> HIDE DEF number, S
<1>5. PICK c \in Nat : c = Cardinality(S)
  BY <1>1, FS_CardinalityType
<1>6. PointsInOrder(trees) \in [1..c -> S]
  BY <1>1, <1>3, <1>4, <1>5, SortedIsAscending
<1>7. PICK s \in [1..c -> S] : s = PointsInOrder(trees)
  BY <1>6
<1>8. PointsWithTwins(trees)
        = [k \in 1..c |-> [i \in DOMAIN trees |-> LeastAbove(trees[i], s[k])]]
  BY <1>7 DEF PointsWithTwins
<1>9. ASSUME NEW n \in S, NEW i \in DOMAIN trees
      PROVE  LeastAbove(trees[i], n) = n
  <2>1. n \in trees[i]
    BY DEF S, CommonClusters, InEveryTree
  <2> QED BY <2>1 DEF LeastAbove
<1>10. \A k \in 1..c : PointsWithTwins(trees)[k] = [i \in DOMAIN trees |-> s[k]]
  BY <1>8, <1>9
<1>11. DOMAIN PointsWithTwins(trees) = 1..c /\ Len(PointsWithTwins(trees)) = c
  BY <1>8
<1> QED BY <1>10, <1>11 DEF S

-----------------------------------------------------------------------------
(* What is left of a tree when only the labels of K are kept.              *)
LEMMA KeptIsTree ==
  ASSUME NEW u, IsTree(u), NEW K
  PROVE  LET v == {n \intersect K : n \in u} \ {{}}
         IN  IsTree(v) /\ LabelsOf(v) = LabelsOf(u) \intersect K
<1> DEFINE v == {n \intersect K : n \in u} \ {{}}
<1>1. LabelsOf(v) = LabelsOf(u) \intersect K
  <2>1. \A x : x \in UNION v <=> \E n \in u : x \in n \intersect K
    OBVIOUS
  <2>2. \A x : x \in UNION v <=> x \in (UNION u) \intersect K
    <3> HIDE DEF v
    <3> QED BY <2>1
  <2> HIDE DEF v
  <2> QED BY <2>2 DEF LabelsOf
<1>2. LabelsOf(v) # {} => LabelsOf(v) \in v
  <2> SUFFICES ASSUME LabelsOf(v) # {}  PROVE LabelsOf(v) \in v
    OBVIOUS
  <2>1. LabelsOf(u) \in u
    BY <1>1 DEF IsTree
  <2>2. LabelsOf(u) \intersect K \in v
    BY <1>1, <2>1
  <2> QED BY <1>1, <2>2
<1>3. \A m, n \in v : m \subseteq n \/ n \subseteq m \/ m \intersect n = {}
  <2> SUFFICES ASSUME NEW m \in u, NEW n \in u
               PROVE  \/ m \intersect K \subseteq n \intersect K
                      \/ n \intersect K \subseteq m \intersect K
                      \/ (m \intersect K) \intersect (n \intersect K) = {}
    OBVIOUS
  <2>1. m \subseteq n \/ n \subseteq m \/ m \intersect n = {}
    BY DEF IsTree
  <2> QED BY <2>1
<1>4. \A m \in v : m # {}
  OBVIOUS
<1> HIDE DEF v
<1>5. IsTree(v)
  BY <1>2, <1>3, <1>4 DEF IsTree
<1> QED BY <1>1, <1>5 DEF v

(* A tree with finitely many labels has finitely many nodes. *)
LEMMA TreeIsFinite ==
  ASSUME NEW u, IsFiniteSet(LabelsOf(u))
  PROVE  IsFiniteSet(u)
<1>1. u \subseteq SUBSET LabelsOf(u)
  BY DEF LabelsOf
<1> QED BY <1>1, FS_SUBSET, FS_Subset

(* The clusters c have between them the trees of the forests fs, each has  *)
(* a tree of every forest, with the same labels.                           *)
AreClusters(fs, c) ==
  /\ \A k \in DOMAIN c : \A i \in DOMAIN fs :
       c[k].trees[i] \in fs[i] /\ LabelsOf(c[k].trees[i]) = LabelsOf(c[k].trees[1])
  /\ \A i \in DOMAIN fs : \A u \in fs[i] : \E k \in DOMAIN c : c[k].trees[i] = u
  /\ \A j, k \in DOMAIN c : j # k =>
       LabelsOf(c[j].trees[1]) \intersect LabelsOf(c[k].trees[1]) = {}

(* splitInstance pairs trees with the same labels. *)
LEMMA SplitClusters ==
  ASSUME NEW fs, 1 \in DOMAIN fs, NEW terminals, NEW roots,
         \A i \in DOMAIN fs : /\ IsForest(fs[i]) /\ IsFiniteSet(fs[i])
                              /\ LabelSets(fs[i]) = LabelSets(fs[1]),
         UNION LabelSets(fs[1]) \subseteq Nat,
         NEW c \in BottomUp(Split(fs, terminals, roots))
  PROVE  /\ AreClusters(fs, c)
         /\ \A k \in DOMAIN c :
              /\ DOMAIN c[k].trees = DOMAIN fs
              /\ c[k].roots = roots \intersect LabelsOf(c[k].trees[1])
              /\ c[k].terminals = terminals \intersect LabelsOf(c[k].trees[1])
<1> DEFINE Cluster(q) ==
      LET trees == [i \in DOMAIN fs |-> RootsInOrder(fs[i])[q]]
      IN  [trees |-> trees, roots |-> roots \intersect LabelsOf(trees[1]),
           terminals |-> terminals \intersect LabelsOf(trees[1])]
<1>1. PICK n \in Nat : n = Cardinality(fs[1])
  BY FS_CardinalityType
<1>2. ASSUME NEW i \in DOMAIN fs
      PROVE  /\ \A q \in 1..n :
                  /\ RootsInOrder(fs[i])[q] \in fs[i]
                  /\ LabelsOf(RootsInOrder(fs[i])[q]) = LabelsOf(RootsInOrder(fs[1])[q])
             /\ \A u \in fs[i] : \E q \in 1..n : RootsInOrder(fs[i])[q] = u
  <2>1. /\ IsForest(fs[i]) /\ IsFiniteSet(fs[i])
        /\ UNION LabelSets(fs[i]) \subseteq Nat /\ LabelSets(fs[i]) = LabelSets(fs[1])
    OBVIOUS
  <2> QED BY <1>1, <2>1, RootsLineUp
<1>3. \A p, q \in 1..n : p # q => RootsInOrder(fs[1])[p] # RootsInOrder(fs[1])[q]
  BY <1>1, RootsLineUp
<1>4. Split(fs, terminals, roots) = {Cluster(q) : q \in 1..n}
  BY <1>1 DEF Split
<1>5. \A q : /\ DOMAIN Cluster(q).trees = DOMAIN fs
             /\ \A i \in DOMAIN fs : Cluster(q).trees[i] = RootsInOrder(fs[i])[q]
             /\ Cluster(q).roots = roots \intersect LabelsOf(RootsInOrder(fs[1])[q])
             /\ Cluster(q).terminals = terminals \intersect LabelsOf(RootsInOrder(fs[1])[q])
  OBVIOUS
<1> HIDE DEF Cluster
<1> DEFINE f == [q \in 1..n |-> Cluster(q)]
           S == Split(fs, terminals, roots)
<1>6. f \in Surjection(1..n, S)
  BY <1>4 DEF Surjection
<1>7. IsFiniteSet(S)
  BY <1>6, FS_Interval, FS_Surjection
<1>8. c \in SetToSeqs(S)
  BY DEF BottomUp
<1>9. /\ \A j \in DOMAIN c : c[j] \in S
      /\ \A j, k \in DOMAIN c : j # k => c[j] # c[k]
      /\ \A d \in S : \E k \in DOMAIN c : c[k] = d
  <2> HIDE DEF S
  <2> QED BY <1>7, <1>8, EnumerationHasAll
<1>10. /\ \A j \in DOMAIN c : \E q \in 1..n : c[j] = Cluster(q)
       /\ \A q \in 1..n : \E k \in DOMAIN c : c[k] = Cluster(q)
  BY <1>4, <1>9
<1> HIDE DEF f, S
<1>11. ASSUME NEW k \in DOMAIN c
       PROVE  /\ DOMAIN c[k].trees = DOMAIN fs
              /\ c[k].roots = roots \intersect LabelsOf(c[k].trees[1])
              /\ c[k].terminals = terminals \intersect LabelsOf(c[k].trees[1])
              /\ \A i \in DOMAIN fs :
                   /\ c[k].trees[i] \in fs[i]
                   /\ LabelsOf(c[k].trees[i]) = LabelsOf(c[k].trees[1])
  <2>1. PICK q \in 1..n : c[k] = Cluster(q)
    BY <1>10
  <2> QED BY <1>2, <1>5, <2>1
<1>12. ASSUME NEW i \in DOMAIN fs, NEW u \in fs[i]
       PROVE  \E k \in DOMAIN c : c[k].trees[i] = u
  <2>1. PICK q \in 1..n : RootsInOrder(fs[i])[q] = u
    BY <1>2
  <2>2. PICK k \in DOMAIN c : c[k] = Cluster(q)
    BY <1>10
  <2> QED BY <1>5, <2>1, <2>2
<1>13. ASSUME NEW j \in DOMAIN c, NEW k \in DOMAIN c, j # k
       PROVE  LabelsOf(c[j].trees[1]) \intersect LabelsOf(c[k].trees[1]) = {}
  <2>1. PICK p \in 1..n : c[j] = Cluster(p)
    BY <1>10
  <2>2. PICK q \in 1..n : c[k] = Cluster(q)
    BY <1>10
  <2>3. p # q
    BY <1>9, <1>13, <2>1, <2>2
  <2>4. c[j].trees[1] # c[k].trees[1]
    BY <1>3, <1>5, <2>1, <2>2, <2>3
  <2> QED BY <1>11, <2>4 DEF IsForest
<1>14. AreClusters(fs, c)
  BY <1>11, <1>12, <1>13 DEF AreClusters
<1> QED BY <1>11, <1>14

(* Of two clusters only one can be without a root. *)
LEMMA SplitLinesUp ==
  ASSUME NEW fs, 1 \in DOMAIN fs, NEW terminals, NEW roots,
         \A i \in DOMAIN fs : /\ IsForest(fs[i]) /\ IsFiniteSet(fs[i])
                              /\ LabelSets(fs[i]) = LabelSets(fs[1]),
         UNION LabelSets(fs[1]) \subseteq Nat,
         \A L, M \in LabelSets(fs[1]) :
           L # M => L \intersect roots # {} \/ M \intersect roots # {},
         NEW c \in BottomUp(Split(fs, terminals, roots))
  PROVE  /\ \A k \in DOMAIN c : \A i \in DOMAIN fs :
              LabelsOf(c[k].trees[i]) = LabelsOf(c[k].trees[1])
         /\ \A j, k \in DOMAIN c : j # k =>
              /\ LabelsOf(c[j].trees[1]) \intersect LabelsOf(c[k].trees[1]) = {}
              /\ c[j].roots # {} \/ c[k].roots # {}
<1>1. /\ AreClusters(fs, c)
      /\ \A k \in DOMAIN c : c[k].roots = roots \intersect LabelsOf(c[k].trees[1])
  BY SplitClusters
<1>2. ASSUME NEW j \in DOMAIN c, NEW k \in DOMAIN c, j # k
      PROVE  c[j].roots # {} \/ c[k].roots # {}
  <2>1. PICK u \in fs[1] : u = c[j].trees[1]
    BY <1>1 DEF AreClusters
  <2>2. PICK v \in fs[1] : v = c[k].trees[1]
    BY <1>1 DEF AreClusters
  <2>3. LabelsOf(u) \intersect LabelsOf(v) = {} /\ LabelsOf(u) # {}
    BY <1>1, <1>2, <2>1, <2>2 DEF AreClusters, IsForest
  <2>4. LabelsOf(u) \intersect roots # {} \/ LabelsOf(v) \intersect roots # {}
    BY <2>3 DEF LabelSets
  <2> QED BY <1>1, <2>1, <2>2, <2>4
<1> QED BY <1>1, <1>2 DEF AreClusters

-----------------------------------------------------------------------------
(* Coupling, one point after the other. *)

IsCoupled(g, P, m, k) ==
  g = [j \in 0..k |->
         IF j = k THEN P ELSE Couple(g[j + 1], ClusterTerminal(m, j + 1), ClusterRoot(m, j + 1))]

(* There is such a function: for one point more it is that for one less,   *)
(* begun with what the last point makes of P.                              *)
LEMMA CoupledExists ==
  ASSUME NEW m, NEW k \in Nat, NEW P
  PROVE  \E g : IsCoupled(g, P, m, k)
<1> DEFINE Bad == {q \in Nat : \E Q : ~\E g : IsCoupled(g, Q, m, q)}
<1>1. SUFFICES ASSUME Bad # {}  PROVE FALSE
  OBVIOUS
<1>2. PICK q \in Bad : \A p \in Bad : q <= p
  <2>1. Bad \subseteq Nat
    OBVIOUS
  <2> HIDE DEF Bad
  <2> QED BY <1>1, <2>1, LeastElement
<1>3. PICK Q : ~\E g : IsCoupled(g, Q, m, q)
  BY <1>2
<1>4. q \in Nat
  BY <1>2
<1>5. CASE q = 0
  <2> DEFINE g == [j \in 0..0 |-> Q]
  <2>1. IsCoupled(g, Q, m, 0)
    BY DEF IsCoupled
  <2> QED BY <1>3, <1>5, <2>1
<1>6. CASE q # 0
  <2> DEFINE R == Couple(Q, ClusterTerminal(m, q), ClusterRoot(m, q))
  <2>1. q - 1 \in Nat /\ q - 1 \notin Bad
    BY <1>2, <1>4, <1>6
  <2>2. PICK h : IsCoupled(h, R, m, q - 1)
    BY <2>1
  <2> DEFINE g == [j \in 0..q |-> IF j = q THEN Q ELSE h[j]]
  <2> HIDE DEF R
  <2>3. ASSUME NEW j \in 0..q, j # q
        PROVE  g[j] = Couple(g[j + 1], ClusterTerminal(m, j + 1), ClusterRoot(m, j + 1))
    <3>1. j \in 0..q - 1 /\ j + 1 \in 0..q /\ g[j] = h[j]
      BY <1>4, <2>3
    <3>2. CASE j = q - 1
      <4>1. h[j] = R /\ j + 1 = q /\ g[j + 1] = Q
        BY <1>4, <2>2, <3>1, <3>2 DEF IsCoupled
      <4> QED BY <3>1, <4>1 DEF R
    <3>3. CASE j # q - 1
      <4>1. h[j] = Couple(h[j + 1], ClusterTerminal(m, j + 1), ClusterRoot(m, j + 1))
        BY <2>2, <3>1, <3>3 DEF IsCoupled
      <4>2. g[j + 1] = h[j + 1]
        BY <1>4, <3>1, <3>3
      <4> QED BY <3>1, <4>1, <4>2
    <3> QED BY <3>2, <3>3
  <2>4. g[q] = Q
    BY <1>4
  <2>5. \A j \in 0..q :
          g[j] = IF j = q THEN Q
                 ELSE Couple(g[j + 1], ClusterTerminal(m, j + 1), ClusterRoot(m, j + 1))
    BY <2>3, <2>4
  <2>6. IsCoupled(g, Q, m, q)
    <3>1. g = [j \in 0..q |-> g[j]]
      OBVIOUS
    <3> HIDE DEF g
    <3> QED BY <2>5, <3>1 DEF IsCoupled
  <2> QED BY <1>3, <2>6
<1> QED BY <1>5, <1>6

(* CoupleAll is the first value of the function.                           *)
LEMMA CoupleAllIsCoupled ==
  ASSUME NEW m, NEW k \in Nat, NEW P
  PROVE  \E g : IsCoupled(g, P, m, k) /\ CoupleAll(P, m, k) = g[0]
<1> DEFINE g == CHOOSE h : IsCoupled(h, P, m, k)
<1>1. IsCoupled(g, P, m, k)
  BY CoupledExists
<1>2. CoupleAll(P, m, k) = g[0]
  BY DEF CoupleAll, IsCoupled
<1> QED BY <1>1, <1>2

(* Without points nothing is coupled.                                      *)
LEMMA CoupleNone ==
  ASSUME NEW m, NEW P
  PROVE  CoupleAll(P, m, 0) = P
<1>1. PICK g : IsCoupled(g, P, m, 0) /\ CoupleAll(P, m, 0) = g[0]
  BY CoupleAllIsCoupled
<1> QED BY <1>1 DEF IsCoupled

(* The last point first, then the others. *)
LEMMA CoupleLastFirst ==
  ASSUME NEW m, NEW k \in Nat, NEW P
  PROVE  CoupleAll(P, m, k + 1)
           = CoupleAll(Couple(P, ClusterTerminal(m, k + 1), ClusterRoot(m, k + 1)), m, k)
<1> DEFINE Q == Couple(P, ClusterTerminal(m, k + 1), ClusterRoot(m, k + 1))
<1>1. PICK g : IsCoupled(g, P, m, k + 1) /\ CoupleAll(P, m, k + 1) = g[0]
  BY CoupleAllIsCoupled
<1>2. PICK h : IsCoupled(h, Q, m, k) /\ CoupleAll(Q, m, k) = h[0]
  <2> HIDE DEF Q
  <2> QED BY CoupleAllIsCoupled
<1> DEFINE Bad == {d \in Nat : d <= k /\ g[k - d] # h[k - d]}
<1>3. Bad = {}
  <2> SUFFICES ASSUME Bad # {}  PROVE FALSE
    OBVIOUS
  <2>1. PICK d \in Bad : \A e \in Bad : d <= e
    <3>1. Bad \subseteq Nat
      OBVIOUS
    <3> HIDE DEF Bad
    <3> QED BY <3>1, LeastElement
  <2>2. d \in 0..k /\ g[k - d] # h[k - d]
    BY <2>1
  <2>3. CASE d = 0
    <3>1. h[k] = Q
      BY <1>2 DEF IsCoupled
    <3>2. g[k + 1] = P
      BY <1>1 DEF IsCoupled
    <3>3. g[k] = Couple(g[k + 1], ClusterTerminal(m, k + 1), ClusterRoot(m, k + 1))
      BY <1>1 DEF IsCoupled
    <3> QED BY <2>2, <2>3, <3>1, <3>2, <3>3
  <2>4. CASE d # 0
    <3> DEFINE j == k - d
    <3>1. j \in 0..k /\ j + 1 \in 0..k /\ j # k /\ j # k + 1 /\ j \in 0..k + 1
      BY <2>2, <2>4
    <3>2. g[j + 1] = h[j + 1]
      <4>1. d - 1 \in Nat /\ d - 1 <= k /\ k - (d - 1) = j + 1
        BY <2>2, <2>4
      <4>2. d - 1 \notin Bad
        BY <2>1, <2>2, <4>1
      <4> QED BY <4>1, <4>2
    <3> HIDE DEF j
    <3>3. g[j] = Couple(g[j + 1], ClusterTerminal(m, j + 1), ClusterRoot(m, j + 1))
      BY <1>1, <3>1 DEF IsCoupled
    <3>4. h[j] = Couple(h[j + 1], ClusterTerminal(m, j + 1), ClusterRoot(m, j + 1))
      BY <1>2, <3>1 DEF IsCoupled
    <3> QED BY <2>2, <3>2, <3>3, <3>4 DEF j
  <2> QED BY <2>3, <2>4
<1>4. g[0] = h[0]
  <2>1. k \notin Bad
    BY <1>3
  <2> QED BY <2>1
<1> HIDE DEF Q
<1>5. CoupleAll(P, m, k + 1) = CoupleAll(Q, m, k)
  BY <1>1, <1>2, <1>4
<1> QED BY <1>5 DEF Q

-----------------------------------------------------------------------------
(* Coupling keeps agreement forests.  The nodes of all trees of a forest   *)
(* are one family u; n is decoupled, with the new labels t and r.          *)

DecoupledFamily(u, n, t, r) == DecoupledSubtree(u, n, r) \union ParentTree(u, n, t)

AreNew(u, t, r) == t # r /\ \A m \in u : t \notin m /\ r \notin m

(* The nodes after the decoupling, by where they come from.                *)
LEMMA InDecoupled ==
  ASSUME NEW u, NEW n, n # {}, NEW t, NEW r, NEW m
  PROVE  m \in DecoupledFamily(u, n, t, r)
           <=> \/ m \in u /\ (m \subseteq n \/ m \intersect n = {})
               \/ m = {r} \/ m = n \union {r}
               \/ \E k \in u : n \subseteq k /\ m = (k \ n) \union {t}
<1> DEFINE Kept == {k \in u : k \intersect n = {} \/ n \subseteq k}
<1>1. m \in ParentTree(u, n, t) <=> \E k \in Kept : m = WithoutSubtree(k, n, t)
  BY DEF ParentTree
<1>2. \A k : k \intersect n = {} => WithoutSubtree(k, n, t) = k
  BY DEF WithoutSubtree
<1>3. \A k : n \subseteq k => WithoutSubtree(k, n, t) = (k \ n) \union {t}
  BY DEF WithoutSubtree
<1>4. m \in ParentTree(u, n, t)
        <=> \/ m \in u /\ m \intersect n = {}
            \/ \E k \in u : n \subseteq k /\ m = (k \ n) \union {t}
  BY <1>1, <1>2, <1>3
<1>5. m \in DecoupledSubtree(u, n, r)
        <=> (m \in u /\ m \subseteq n) \/ m = {r} \/ m = n \union {r}
  BY DEF DecoupledSubtree
<1> QED BY <1>4, <1>5 DEF DecoupledFamily

(* The nodes after the decoupling: whole, new, or with the terminal t. *)
IsNodeAfter(u, n, t, r, m) ==
  \/ m \in u /\ (m \subseteq n \/ m \intersect n = {})
  \/ m = {r} \/ m = n \union {r}
  \/ \E k \in u : n \subseteq k /\ m = (k \ n) \union {t}

(* The same, of all sets at once.                                          *)
LEMMA NodesAfter ==
  ASSUME NEW u, NEW n, n # {}, NEW t, NEW r
  PROVE  \A m : m \in DecoupledFamily(u, n, t, r) <=> IsNodeAfter(u, n, t, r, m)
<1> SUFFICES ASSUME NEW m
             PROVE  m \in DecoupledFamily(u, n, t, r) <=> IsNodeAfter(u, n, t, r, m)
  OBVIOUS
<1>1. m \in DecoupledFamily(u, n, t, r)
        <=> \/ m \in u /\ (m \subseteq n \/ m \intersect n = {})
            \/ m = {r} \/ m = n \union {r}
            \/ \E k \in u : n \subseteq k /\ m = (k \ n) \union {t}
  BY InDecoupled
<1> QED BY <1>1 DEF IsNodeAfter

(* A block without the new labels is on one side, and it has the same      *)
(* shape before and after.                                                 *)
LEMMA OldBlock ==
  ASSUME NEW u, IsFamily(u), NEW n \in u, NEW t, NEW r, AreNew(u, t, r),
         NEW B, B # {}, t \notin B, r \notin B, Together(DecoupledFamily(u, n, t, r), B)
  PROVE  /\ B \subseteq n \/ B \intersect n = {}
         /\ Together(u, B)
         /\ Trace(u, B) = Trace(DecoupledFamily(u, n, t, r), B)
<1> DEFINE v == DecoupledFamily(u, n, t, r)
<1>1. n # {}
  BY DEF IsFamily
<1>2. PICK b \in v : B \subseteq b
  BY DEF Together
<1>3. \/ b \in u /\ (b \subseteq n \/ b \intersect n = {})
      \/ b = {r} \/ b = n \union {r}
      \/ \E k \in u : n \subseteq k /\ b = (k \ n) \union {t}
  BY <1>1, InDecoupled
<1>4. /\ B \subseteq n \/ B \intersect n = {}
      /\ \E m \in u : B \subseteq m
  <2>1. CASE b \in u /\ (b \subseteq n \/ b \intersect n = {})
    BY <1>2, <2>1
  <2>2. CASE b = {r} \/ b = n \union {r}
    BY <1>2, <2>2
  <2>3. CASE \E k \in u : n \subseteq k /\ b = (k \ n) \union {t}
    BY <1>2, <2>3
  <2> QED BY <1>3, <2>1, <2>2, <2>3
<1>5. ASSUME NEW s \in Trace(u, B)  PROVE s \in Trace(v, B)
  <2>1. PICK m \in u : s = m \intersect B /\ s # {}
    BY InTrace
  <2>2. m \subseteq n \/ n \subseteq m \/ m \intersect n = {}
    BY DEF IsFamily
  <2>3. CASE m \subseteq n \/ m \intersect n = {}
    <3>1. m \in v
      BY <1>1, <2>3, InDecoupled
    <3> QED BY <2>1, <3>1, InTrace
  <2>4. CASE n \subseteq m
    <3>1. CASE B \subseteq n
      <4>1. n \union {r} \in v /\ (n \union {r}) \intersect B = s
        BY <1>1, <2>1, <2>4, <3>1, InDecoupled
      <4> QED BY <2>1, <4>1, InTrace
    <3>2. CASE B \intersect n = {}
      <4>1. (m \ n) \union {t} \in v
        BY <1>1, <2>4, InDecoupled
      <4>2. ((m \ n) \union {t}) \intersect B = s
        BY <2>1, <3>2
      <4> QED BY <2>1, <4>1, <4>2, InTrace
    <3> QED BY <1>4, <3>1, <3>2
  <2> QED BY <2>2, <2>3, <2>4
<1>6. ASSUME NEW s \in Trace(v, B)  PROVE s \in Trace(u, B)
  <2>1. PICK m \in v : s = m \intersect B /\ s # {}
    BY InTrace
  <2>2. \/ m \in u /\ (m \subseteq n \/ m \intersect n = {})
        \/ m = {r} \/ m = n \union {r}
        \/ \E k \in u : n \subseteq k /\ m = (k \ n) \union {t}
    BY <1>1, InDecoupled
  <2>3. CASE m \in u
    BY <2>1, <2>3, InTrace
  <2>4. CASE m = {r} \/ m = n \union {r}
    <3>1. s = n \intersect B
      BY <2>1, <2>4
    <3> QED BY <2>1, <3>1, InTrace
  <2>5. CASE \E k \in u : n \subseteq k /\ m = (k \ n) \union {t}
    <3>1. PICK k \in u : n \subseteq k /\ m = (k \ n) \union {t}
      BY <2>5
    <3>2. s = k \intersect B
      BY <1>4, <2>1, <3>1
    <3> QED BY <2>1, <3>2, InTrace
  <2> QED BY <2>2, <2>3, <2>4, <2>5
<1>7. Trace(u, B) = Trace(v, B)
  BY <1>5, <1>6
<1> QED BY <1>4, <1>7 DEF Together

(* The node after the decoupling. *)
Moved(m, n, t) == IF m \subseteq n \/ m \intersect n = {} THEN m ELSE (m \ n) \union {t}

(* A node that joins such a block still does so. *)
LEMMA OldBlockJoined ==
  ASSUME NEW u, IsFamily(u), NEW n \in u, NEW t, NEW r, AreNew(u, t, r),
         NEW B, B # {}, t \notin B, r \notin B, Together(DecoupledFamily(u, n, t, r), B),
         NEW m, Joins(u, B, m)
  PROVE  /\ Moved(m, n, t) \in DecoupledFamily(u, n, t, r)
         /\ Joins(DecoupledFamily(u, n, t, r), B, Moved(m, n, t))
         /\ B \subseteq n => m \subseteq n
         /\ B \intersect n = {} => ~(m \subseteq n)
<1> DEFINE v == DecoupledFamily(u, n, t, r)
<1>1. n # {} /\ m \in u /\ m \intersect B # {}
  BY DEF IsFamily, Joins
<1>2. B \subseteq n \/ B \intersect n = {}
  BY OldBlock
<1>3. /\ B \subseteq n => m \subseteq n
      /\ B \intersect n = {} => ~(m \subseteq n)
  BY <1>1 DEF Joins
<1>4. m \subseteq n \/ n \subseteq m \/ m \intersect n = {}
  BY <1>1 DEF IsFamily
<1>5. Moved(m, n, t) \in v
  BY <1>1, <1>4, InDecoupled DEF Moved
<1>6. Moved(m, n, t) \intersect B # {}
  BY <1>1, <1>2, <1>3, <1>4 DEF Moved
<1>7. ASSUME NEW b \in v, B \subseteq b
      PROVE  Moved(m, n, t) \subseteq b
  <2>1. \/ b \in u /\ (b \subseteq n \/ b \intersect n = {})
        \/ b = {r} \/ b = n \union {r}
        \/ \E k \in u : n \subseteq k /\ b = (k \ n) \union {t}
    BY <1>1, InDecoupled
  <2>2. CASE b \in u /\ (b \subseteq n \/ b \intersect n = {})
    <3>1. m \subseteq b
      BY <1>7, <2>2 DEF Joins
    <3> QED BY <2>2, <3>1 DEF Moved
  <2>3. CASE b = {r} \/ b = n \union {r}
    <3>1. B \subseteq n /\ b = n \union {r}
      BY <1>7, <2>3
    <3> QED BY <1>3, <3>1 DEF Moved
  <2>4. CASE \E k \in u : n \subseteq k /\ b = (k \ n) \union {t}
    <3>1. PICK k \in u : n \subseteq k /\ b = (k \ n) \union {t}
      BY <2>4
    <3>2. B \subseteq k /\ B \intersect n = {}
      BY <1>7, <3>1
    <3>3. m \subseteq k
      BY <3>2 DEF Joins
    <3> QED BY <1>3, <1>4, <3>1, <3>2, <3>3 DEF Moved
  <2> QED BY <2>1, <2>2, <2>3, <2>4
<1> QED BY <1>3, <1>5, <1>6, <1>7 DEF Joins

(* The blocks of the root and of the terminal, made one. *)
JoinedBlock(R, T, t, r) == (R \union T) \ {t, r}

(* The shape of the block they become, by their own. *)
JoinedTrace(TR, TT, R, t, r) ==
  {s \in TR : r \notin s} \union {s \in TT : t \notin s}
    \union {(s \ {t}) \union (R \ {r}) : s \in {z \in TT : t \in z}}

(* The block of the root lies below n, that of the terminal beside it.     *)
LEMMA NewBlocks ==
  ASSUME NEW u, IsFamily(u), NEW n \in u, NEW t, NEW r, AreNew(u, t, r),
         NEW R, NEW T, r \in R, R # {r}, t \in T,
         Together(DecoupledFamily(u, n, t, r), R), Together(DecoupledFamily(u, n, t, r), T)
  PROVE  /\ R \ {r} \subseteq n /\ T \intersect n = {} /\ r \notin T /\ t \notin R
         /\ \E k \in u : n \subseteq k /\ T \ {t} \subseteq k
<1>1. n # {} /\ t # r
  BY DEF IsFamily, AreNew
<1>2. t \notin n /\ r \notin n
  BY DEF AreNew
<1>3. PICK b \in DecoupledFamily(u, n, t, r) : R \subseteq b
  BY DEF Together
<1>4. b = n \union {r}
  <2>1. \/ b \in u /\ (b \subseteq n \/ b \intersect n = {})
        \/ b = {r} \/ b = n \union {r}
        \/ \E k \in u : n \subseteq k /\ b = (k \ n) \union {t}
    BY <1>1, InDecoupled
  <2>2. \A k \in u : r \notin k
    BY DEF AreNew
  <2> QED BY <1>1, <1>3, <2>1, <2>2
<1>5. PICK c \in DecoupledFamily(u, n, t, r) : T \subseteq c
  BY DEF Together
<1>6. \E k \in u : n \subseteq k /\ c = (k \ n) \union {t}
  <2>1. \/ c \in u /\ (c \subseteq n \/ c \intersect n = {})
        \/ c = {r} \/ c = n \union {r}
        \/ \E k \in u : n \subseteq k /\ c = (k \ n) \union {t}
    BY <1>1, InDecoupled
  <2>2. \A k \in u : t \notin k
    BY DEF AreNew
  <2> QED BY <1>1, <1>5, <2>1, <2>2
<1>7. PICK k \in u : n \subseteq k /\ c = (k \ n) \union {t}
  BY <1>6
<1>8. r \notin k
  BY DEF AreNew
<1> QED BY <1>1, <1>2, <1>3, <1>4, <1>5, <1>7, <1>8

(* The block they become has one shape if both have.                       *)
LEMMA JoinedBlockTrace ==
  ASSUME NEW u, IsFamily(u), NEW n \in u, NEW t, NEW r, AreNew(u, t, r),
         NEW R, NEW T, r \in R, R # {r}, t \in T,
         Together(DecoupledFamily(u, n, t, r), R), Together(DecoupledFamily(u, n, t, r), T)
  PROVE  /\ Together(u, JoinedBlock(R, T, t, r))
         /\ Trace(u, JoinedBlock(R, T, t, r))
              = JoinedTrace(Trace(DecoupledFamily(u, n, t, r), R),
                            Trace(DecoupledFamily(u, n, t, r), T), R, t, r)
<1> DEFINE v == DecoupledFamily(u, n, t, r)
           U == JoinedBlock(R, T, t, r)
           J == JoinedTrace(Trace(v, R), Trace(v, T), R, t, r)
<1>1. n # {} /\ t # r
  BY DEF IsFamily, AreNew
<1>2. \A k \in u : t \notin k /\ r \notin k
  BY DEF AreNew
<1>3. /\ R \ {r} \subseteq n /\ T \intersect n = {} /\ r \notin T /\ t \notin R
      /\ \E k \in u : n \subseteq k /\ T \ {t} \subseteq k
  BY NewBlocks
<1>4. R \ {r} # {}
  OBVIOUS
<1>5. U = (R \ {r}) \union (T \ {t})
  BY <1>1, <1>3 DEF JoinedBlock
<1>6. Together(u, U)
  BY <1>3, <1>5 DEF Together
<1> HIDE DEF U
<1>7. \A m : m \in v <=> IsNodeAfter(u, n, t, r, m)
  BY <1>1, NodesAfter
<1> HIDE DEF v
<1>8. ASSUME NEW s \in Trace(u, U)  PROVE s \in J
  <2>1. PICK m \in u : s = m \intersect U /\ s # {}
    BY InTrace
  <2>2. m \subseteq n \/ n \subseteq m \/ m \intersect n = {}
    BY DEF IsFamily
  <2>3. CASE m \subseteq n
    <3>1. s = m \intersect R /\ r \notin s
      BY <1>2, <1>3, <1>5, <2>1, <2>3
    <3>2. m \in v
      BY <1>7, <2>3 DEF IsNodeAfter
    <3>3. s \in Trace(v, R)
      BY <2>1, <3>1, <3>2, InTrace
    <3> QED BY <3>1, <3>3 DEF JoinedTrace
  <2>4. CASE m \intersect n = {}
    <3>1. s = m \intersect T /\ t \notin s
      BY <1>2, <1>3, <1>5, <2>1, <2>4
    <3>2. m \in v
      BY <1>7, <2>4 DEF IsNodeAfter
    <3>3. s \in Trace(v, T)
      BY <2>1, <3>1, <3>2, InTrace
    <3> QED BY <3>1, <3>3 DEF JoinedTrace
  <2>5. CASE n \subseteq m
    <3> DEFINE w == (m \ n) \union {t}
               z == w \intersect T
    <3>1. w \in v
      BY <1>7, <2>5 DEF IsNodeAfter
    <3>2. t \in z /\ z # {}
      OBVIOUS
    <3>3. z \in Trace(v, T)
      BY <3>1, <3>2, InTrace
    <3>4. s = (z \ {t}) \union (R \ {r})
      BY <1>2, <1>3, <1>5, <2>1, <2>5
    <3> HIDE DEF z
    <3> QED BY <3>2, <3>3, <3>4 DEF JoinedTrace
  <2> QED BY <2>2, <2>3, <2>4, <2>5
<1>9. ASSUME NEW s \in J  PROVE s \in Trace(u, U)
  <2>1. CASE s \in Trace(v, R) /\ r \notin s
    <3>1. PICK m \in v : s = m \intersect R /\ s # {}
      BY <2>1, InTrace
    <3>2. r \notin m
      BY <2>1, <3>1
    <3>3. m \in u /\ m \subseteq n
      <4>1. \/ m \in u /\ (m \subseteq n \/ m \intersect n = {})
            \/ \E k \in u : n \subseteq k /\ m = (k \ n) \union {t}
        BY <1>7, <3>2 DEF IsNodeAfter
      <4>2. m \intersect n # {}
        BY <1>3, <2>1, <3>1
      <4>3. t \notin n
        BY <1>2
      <4> QED BY <4>1, <4>2, <4>3
    <3>4. s = m \intersect U
      BY <1>2, <1>3, <1>5, <3>1, <3>3
    <3> QED BY <3>1, <3>3, <3>4, InTrace
  <2>2. CASE s \in Trace(v, T) /\ t \notin s
    <3>1. PICK m \in v : s = m \intersect T /\ s # {}
      BY <2>2, InTrace
    <3>2. t \notin m
      BY <2>2, <3>1
    <3>3. m \in u /\ m \intersect n = {}
      <4>1. \/ m \in u /\ (m \subseteq n \/ m \intersect n = {})
            \/ m = {r} \/ m = n \union {r}
        BY <1>7, <3>2 DEF IsNodeAfter
      <4> QED BY <1>3, <3>1, <4>1
    <3>4. s = m \intersect U
      BY <1>2, <1>3, <1>5, <3>1, <3>3
    <3> QED BY <3>1, <3>3, <3>4, InTrace
  <2>3. CASE \E z \in Trace(v, T) : t \in z /\ s = (z \ {t}) \union (R \ {r})
    <3>1. PICK z \in Trace(v, T) : t \in z /\ s = (z \ {t}) \union (R \ {r})
      BY <2>3
    <3>2. PICK m \in v : z = m \intersect T
      BY InTrace
    <3>3. \E k \in u : n \subseteq k /\ m = (k \ n) \union {t}
      <4>1. t \in m /\ t \notin n
        BY <1>2, <3>1, <3>2
      <4> QED BY <1>1, <1>2, <1>7, <4>1 DEF IsNodeAfter
    <3>4. PICK k \in u : n \subseteq k /\ m = (k \ n) \union {t}
      BY <3>3
    <3>5. s = k \intersect U
      BY <1>2, <1>3, <1>5, <3>1, <3>2, <3>4
    <3> QED BY <1>4, <3>1, <3>5, InTrace
  <2> QED BY <2>1, <2>2, <2>3 DEF JoinedTrace
<1>10. Trace(u, U) = J
  <2> HIDE DEF J
  <2> QED BY <1>8, <1>9
<1> QED BY <1>6, <1>10 DEF U, v

(* A node that joins the new block joined one of the two. *)
LEMMA JoinedBlockJoined ==
  ASSUME NEW u, IsFamily(u), NEW n \in u, NEW t, NEW r, AreNew(u, t, r),
         NEW R, NEW T, r \in R, R # {r}, t \in T,
         Together(DecoupledFamily(u, n, t, r), R), Together(DecoupledFamily(u, n, t, r), T),
         NEW m, Joins(u, JoinedBlock(R, T, t, r), m)
  PROVE  /\ m \subseteq n => Joins(DecoupledFamily(u, n, t, r), R, Moved(m, n, t))
         /\ ~(m \subseteq n) => Joins(DecoupledFamily(u, n, t, r), T, Moved(m, n, t))
<1> DEFINE v == DecoupledFamily(u, n, t, r)
           U == JoinedBlock(R, T, t, r)
<1>1. n # {} /\ t # r /\ m \in u /\ m \intersect U # {}
  BY DEF IsFamily, AreNew, Joins
<1>2. \A k \in u : t \notin k /\ r \notin k
  BY DEF AreNew
<1>3. R \ {r} \subseteq n /\ T \intersect n = {} /\ r \notin T /\ t \notin R
  BY NewBlocks
<1>4. U = (R \ {r}) \union (T \ {t})
  BY <1>1, <1>3 DEF JoinedBlock
<1>5. \A k \in u : U \subseteq k => m \subseteq k
  BY DEF Joins
<1> HIDE DEF U
<1>6. m \subseteq n \/ n \subseteq m \/ m \intersect n = {}
  BY <1>1 DEF IsFamily
<1>7. \A b : b \in v <=> IsNodeAfter(u, n, t, r, b)
  BY <1>1, NodesAfter
<1>8. Moved(m, n, t) \in v
  BY <1>1, <1>6, <1>7 DEF Moved, IsNodeAfter
<1> HIDE DEF v
<1>9. ASSUME m \subseteq n  PROVE Joins(v, R, Moved(m, n, t))
  <2>1. Moved(m, n, t) = m
    BY <1>9 DEF Moved
  <2>2. m \intersect R # {}
    BY <1>1, <1>3, <1>4, <1>9
  <2>3. ASSUME NEW b \in v, R \subseteq b  PROVE m \subseteq b
    <3>1. b = n \union {r}
      BY <1>1, <1>2, <1>7, <2>3 DEF IsNodeAfter
    <3> QED BY <1>9, <3>1
  <2> QED BY <1>8, <2>1, <2>2, <2>3 DEF Joins
<1>10. ASSUME ~(m \subseteq n)  PROVE Joins(v, T, Moved(m, n, t))
  <2>1. Moved(m, n, t) \intersect T # {}
    BY <1>1, <1>3, <1>4, <1>6, <1>10 DEF Moved
  <2>2. ASSUME NEW b \in v, T \subseteq b  PROVE Moved(m, n, t) \subseteq b
    <3>1. t \in b /\ t \notin n
      BY <1>2, <2>2
    <3>2. \E k \in u : n \subseteq k /\ b = (k \ n) \union {t}
      BY <1>1, <1>2, <1>7, <3>1 DEF IsNodeAfter
    <3>3. PICK k \in u : n \subseteq k /\ b = (k \ n) \union {t}
      BY <3>2
    <3>4. U \subseteq k
      BY <1>3, <1>4, <2>2, <3>3
    <3>5. m \subseteq k
      BY <1>5, <3>4
    <3> QED BY <1>6, <1>10, <3>3, <3>5 DEF Moved
  <2> QED BY <1>8, <2>1, <2>2 DEF Joins
<1> QED BY <1>9, <1>10 DEF v

-----------------------------------------------------------------------------
(* What Couple makes of a partition.                                       *)

(* The root is alone, and so is the terminal: both are forgotten.          *)
LEMMA CoupleCuts ==
  ASSUME NEW X, NEW t, NEW r, t # r, t \notin X, r \notin X,
         NEW P, IsPartition(P, X \union {t, r}), {r} \in P, {t} \in P
  PROVE  Couple(P, t, r) = P \ {{r}, {t}} /\ IsPartition(Couple(P, t, r), X)
<1>1. \A B \in P : B # {r} /\ B # {t} => t \notin B /\ r \notin B
  <2> SUFFICES ASSUME NEW B \in P, B # {r}, B # {t}  PROVE t \notin B /\ r \notin B
    OBVIOUS
  <2>1. B \intersect {r} = {} /\ B \intersect {t} = {}
    BY DEF IsPartition
  <2> QED BY <2>1
<1>2. \A B \in P : B # {r} /\ B # {t} => B \ {t} = B
  BY <1>1
<1>3. Couple(P, t, r) = {B \ {t} : B \in P \ {{r}, {t}}}
  BY DEF Couple
<1>4. Couple(P, t, r) = P \ {{r}, {t}}
  BY <1>2, <1>3
<1>5. UNION (P \ {{r}, {t}}) = X
  <2>1. ASSUME NEW x \in UNION (P \ {{r}, {t}})  PROVE x \in X
    BY <1>1, <2>1 DEF IsPartition
  <2>2. ASSUME NEW x \in X  PROVE x \in UNION (P \ {{r}, {t}})
    <3>1. PICK B \in P : x \in B
      BY <2>2 DEF IsPartition
    <3> QED BY <3>1
  <2> QED BY <2>1, <2>2
<1> QED BY <1>4, <1>5 DEF IsPartition

(* The root is not alone: two blocks become one.                           *)
LEMMA CoupleJoins ==
  ASSUME NEW X, NEW t, NEW r, t # r, t \notin X, r \notin X,
         NEW P, IsPartition(P, X \union {t, r}),
         NEW R \in P, NEW T \in P, r \in R, t \in T, R # {r}, R # T
  PROVE  /\ Couple(P, t, r) = (P \ {R, T}) \union {JoinedBlock(R, T, t, r)}
         /\ \A B \in P \ {R, T} : t \notin B /\ r \notin B
         /\ IsPartition(Couple(P, t, r), X)
<1> DEFINE U == JoinedBlock(R, T, t, r)
           New == {B \in P : B \intersect {t, r} # {}}
<1>1. \A B, C \in P : B # {} /\ (B = C \/ B \intersect C = {})
  BY DEF IsPartition
<1>2. \A B \in P \ {R, T} : t \notin B /\ r \notin B
  BY <1>1
<1>3. New = {R, T}
  BY <1>2
<1>4. UNION New = R \union T
  BY <1>3
<1>5. {B \in P : B \intersect {t, r} = {}} = P \ {R, T}
  BY <1>2
<1>6. {r} \notin P
  BY <1>1
<1>7. Couple(P, t, r) = (P \ {R, T}) \union {U}
  BY <1>4, <1>5, <1>6 DEF Couple, JoinedBlock
<1>8. t \notin R /\ r \notin T
  BY <1>1
<1>9. U = (R \ {r}) \union (T \ {t}) /\ U # {}
  BY <1>8 DEF JoinedBlock
<1> HIDE DEF U
<1>10. \A B \in P \ {R, T} : B \intersect U = {}
  BY <1>1, <1>9
<1>11. UNION ((P \ {R, T}) \union {U}) = X
  <2>1. ASSUME NEW x \in UNION ((P \ {R, T}) \union {U})  PROVE x \in X
    <3>1. \A B \in P : B \subseteq X \union {t, r}
      BY DEF IsPartition
    <3>2. PICK B \in (P \ {R, T}) \union {U} : x \in B
      BY <2>1
    <3>3. CASE B = U
      BY <1>8, <1>9, <3>1, <3>2, <3>3
    <3>4. CASE B \in P \ {R, T}
      BY <1>2, <3>1, <3>2, <3>4
    <3> QED BY <3>2, <3>3, <3>4
  <2>2. ASSUME NEW x \in X  PROVE x \in UNION ((P \ {R, T}) \union {U})
    <3>1. PICK B \in P : x \in B
      BY <2>2 DEF IsPartition
    <3>2. x # t /\ x # r
      OBVIOUS
    <3> QED BY <1>9, <3>1, <3>2
  <2> QED BY <2>1, <2>2
<1> QED
  <2>1. \A B, C \in (P \ {R, T}) \union {U} : B # {} /\ (B = C \/ B \intersect C = {})
    BY <1>1, <1>9, <1>10
  <2> QED BY <1>2, <1>7, <1>11, <2>1 DEF IsPartition, U

(* Each tree has the node that was decoupled. *)
DecoupledEach(us, n, t, r) == [i \in DOMAIN us |-> DecoupledFamily(us[i], n, t, r)]

(* What is left of an agreement forest without the new labels agrees.      *)
LEMMA OldBlocksAgree ==
  ASSUME NEW us, 1 \in DOMAIN us, NEW n, NEW t, NEW r,
         \A i \in DOMAIN us : IsFamily(us[i]) /\ n \in us[i] /\ AreNew(us[i], t, r),
         NEW P, AgreesOn(DecoupledEach(us, n, t, r), P),
         NEW Q, Q \subseteq P, \A B \in Q : B # {} /\ t \notin B /\ r \notin B
  PROVE  AgreesOn(us, Q)
<1> DEFINE vs == DecoupledEach(us, n, t, r)
<1>1. DOMAIN vs = DOMAIN us /\ \A i \in DOMAIN us : vs[i] = DecoupledFamily(us[i], n, t, r)
  BY DEF DecoupledEach
<1>2. \A B \in P : \A i \in DOMAIN us :
        Together(vs[i], B) /\ Trace(vs[i], B) = Trace(vs[1], B)
  BY <1>1 DEF AgreesOn
<1>3. \A i \in DOMAIN us : \A B, C \in P : B # C =>
        \A m \in vs[i] : ~(Joins(vs[i], B, m) /\ Joins(vs[i], C, m))
  BY <1>1 DEF AgreesOn
<1> HIDE DEF vs
<1>4. ASSUME NEW B \in Q, NEW i \in DOMAIN us
      PROVE  Together(us[i], B) /\ Trace(us[i], B) = Trace(vs[i], B)
  <2>1. Together(DecoupledFamily(us[i], n, t, r), B)
    BY <1>1, <1>2
  <2>2. IsFamily(us[i]) /\ n \in us[i] /\ AreNew(us[i], t, r) /\ B # {} /\ t \notin B /\ r \notin B
    OBVIOUS
  <2> QED BY <1>1, <2>1, <2>2, OldBlock
<1>5. ASSUME NEW B \in Q, NEW i \in DOMAIN us
      PROVE  Together(us[i], B) /\ Trace(us[i], B) = Trace(us[1], B)
  BY <1>2, <1>4
<1>6. ASSUME NEW i \in DOMAIN us, NEW B \in Q, NEW m, Joins(us[i], B, m)
      PROVE  Moved(m, n, t) \in vs[i] /\ Joins(vs[i], B, Moved(m, n, t))
  <2>1. Together(DecoupledFamily(us[i], n, t, r), B)
    BY <1>1, <1>2
  <2>2. IsFamily(us[i]) /\ n \in us[i] /\ AreNew(us[i], t, r) /\ B # {} /\ t \notin B /\ r \notin B
    OBVIOUS
  <2> QED BY <1>1, <1>6, <2>1, <2>2, OldBlockJoined
<1>7. ASSUME NEW i \in DOMAIN us, NEW B \in Q, NEW C \in Q, B # C, NEW m \in us[i]
      PROVE  ~(Joins(us[i], B, m) /\ Joins(us[i], C, m))
  BY <1>3, <1>6, <1>7
<1> QED BY <1>5, <1>7 DEF AgreesOn

(* P solves what the families us, with the labels X, come to when their    *)
(* node n is decoupled, and the terminal is cut if the root is.            *)
SolvesDecoupled(us, n, t, r, X, P) ==
  /\ 1 \in DOMAIN us /\ t # r /\ t \notin X /\ r \notin X
  /\ \A i \in DOMAIN us : IsFamily(us[i]) /\ n \in us[i] /\ AreNew(us[i], t, r)
  /\ IsPartition(P, X \union {t, r}) /\ AgreesOn(DecoupledEach(us, n, t, r), P)
  /\ {r} \in P => {t} \in P

(* DecoupleSubtreeAction::undoAction keeps agreement forests.              *)
LEMMA CoupleAgrees ==
  ASSUME NEW us, NEW n, NEW t, NEW r, NEW X, NEW P, SolvesDecoupled(us, n, t, r, X, P)
  PROVE  IsPartition(Couple(P, t, r), X) /\ AgreesOn(us, Couple(P, t, r))
<1> USE DEF SolvesDecoupled
<1> DEFINE vs == DecoupledEach(us, n, t, r)
           Q == Couple(P, t, r)
<1>1. DOMAIN vs = DOMAIN us /\ \A i \in DOMAIN us : vs[i] = DecoupledFamily(us[i], n, t, r)
  BY DEF DecoupledEach
<1>2. \A B, C \in P : B # {} /\ (B = C \/ B \intersect C = {})
  BY DEF IsPartition
<1>3. CASE {r} \in P
  <2>1. {t} \in P
    BY <1>3
  <2>2. Q = P \ {{r}, {t}} /\ IsPartition(Q, X)
    BY <1>3, <2>1, CoupleCuts
  <2>3. \A B \in Q : B # {} /\ t \notin B /\ r \notin B
    <3>1. \A B \in Q : B \intersect {r} = {} /\ B \intersect {t} = {} /\ B # {}
      BY <1>2, <1>3, <2>1, <2>2
    <3> QED BY <3>1
  <2>4. Q \subseteq P
    BY <2>2
  <2> HIDE DEF Q
  <2>5. AgreesOn(us, Q)
    BY <2>3, <2>4, OldBlocksAgree
  <2> QED BY <2>2, <2>5 DEF Q
<1>4. CASE {r} \notin P
  <2>1. PICK R \in P : r \in R
    BY DEF IsPartition
  <2>2. PICK T \in P : t \in T
    BY DEF IsPartition
  <2>3. R # {r}
    BY <1>4, <2>1
  <2> DEFINE U == JoinedBlock(R, T, t, r)
  <2>4. \A B \in P : \A i \in DOMAIN us :
          Together(vs[i], B) /\ Trace(vs[i], B) = Trace(vs[1], B)
    BY <1>1 DEF AgreesOn
  <2>5. \A i \in DOMAIN us : \A B, C \in P : B # C =>
          \A m \in vs[i] : ~(Joins(vs[i], B, m) /\ Joins(vs[i], C, m))
    BY <1>1 DEF AgreesOn
  <2>6. ASSUME NEW i \in DOMAIN us
        PROVE  /\ Together(DecoupledFamily(us[i], n, t, r), R)
               /\ Together(DecoupledFamily(us[i], n, t, r), T)
    BY <1>1, <2>4
  <2>7. R # T
    BY <2>1, <2>2, <2>3, <2>6, NewBlocks
  <2>8. /\ Q = (P \ {R, T}) \union {U}
        /\ \A B \in P \ {R, T} : t \notin B /\ r \notin B
        /\ IsPartition(Q, X)
    BY <2>1, <2>2, <2>3, <2>7, CoupleJoins
  <2>9. AgreesOn(us, P \ {R, T})
    <3> DEFINE O == P \ {R, T}
    <3>1. O \subseteq P /\ \A B \in O : B # {} /\ t \notin B /\ r \notin B
      BY <1>2, <2>8
    <3> HIDE DEF O
    <3> QED BY <3>1, OldBlocksAgree DEF O
  <2>10. ASSUME NEW i \in DOMAIN us
         PROVE  /\ Together(us[i], U)
                /\ Trace(us[i], U) = JoinedTrace(Trace(vs[i], R), Trace(vs[i], T), R, t, r)
    BY <1>1, <2>1, <2>2, <2>3, <2>6, JoinedBlockTrace
  <2>11. ASSUME NEW i \in DOMAIN us
         PROVE  Together(us[i], U) /\ Trace(us[i], U) = Trace(us[1], U)
    <3>1. Trace(vs[i], R) = Trace(vs[1], R) /\ Trace(vs[i], T) = Trace(vs[1], T)
      BY <2>4
    <3> HIDE DEF U, vs
    <3> QED BY <2>10, <3>1
  <2>12. ASSUME NEW i \in DOMAIN us, NEW B \in P \ {R, T}, NEW m,
                Joins(us[i], B, m), Joins(us[i], U, m)
         PROVE  FALSE
    <3>1. Together(DecoupledFamily(us[i], n, t, r), B) /\ B # {} /\ t \notin B /\ r \notin B
      BY <1>1, <1>2, <2>4, <2>8
    <3>2. Moved(m, n, t) \in vs[i] /\ Joins(vs[i], B, Moved(m, n, t))
      BY <1>1, <2>12, <3>1, OldBlockJoined
    <3>3. \/ Joins(vs[i], R, Moved(m, n, t))
          \/ Joins(vs[i], T, Moved(m, n, t))
      BY <1>1, <2>1, <2>2, <2>3, <2>6, <2>12, JoinedBlockJoined
    <3> QED BY <2>5, <3>2, <3>3
  <2> HIDE DEF U, Q, vs
  <2>13. \A B \in Q : \A i \in DOMAIN us :
           Together(us[i], B) /\ Trace(us[i], B) = Trace(us[1], B)
    BY <2>8, <2>9, <2>11 DEF AgreesOn
  <2>14. ASSUME NEW i \in DOMAIN us, NEW B \in Q, NEW C \in Q, B # C, NEW m \in us[i]
         PROVE  ~(Joins(us[i], B, m) /\ Joins(us[i], C, m))
    BY <2>8, <2>9, <2>12, <2>14 DEF AgreesOn
  <2> QED BY <2>8, <2>13, <2>14 DEF AgreesOn, Q
<1> QED BY <1>3, <1>4

(* With the root s the terminal q is alone. *)
CutWith(P, s, q) == {s} \in P => {q} \in P

(* A root that is alone then was alone before, if it is not below the      *)
(* point.                                                                  *)
LEMMA CoupleKeepsCuts ==
  ASSUME NEW us, NEW n, NEW t, NEW r, NEW X, NEW P, SolvesDecoupled(us, n, t, r, X, P),
         NEW s, NEW q, s \notin n, q # t, q # r, s # t, s # r, CutWith(P, s, q)
  PROVE  CutWith(Couple(P, t, r), s, q)
<1> SUFFICES ASSUME {s} \in Couple(P, t, r)  PROVE {q} \in Couple(P, t, r)
  BY DEF CutWith
<1> USE DEF SolvesDecoupled, CutWith
<1> DEFINE vs == DecoupledEach(us, n, t, r)
           Q == Couple(P, t, r)
<1>1. CASE {r} \in P
  <2>1. Q = P \ {{r}, {t}}
    BY <1>1, CoupleCuts
  <2> QED BY <2>1
<1>2. CASE {r} \notin P
  <2>1. PICK R \in P : r \in R
    BY DEF IsPartition
  <2>2. PICK T \in P : t \in T
    BY DEF IsPartition
  <2>3. R # {r}
    BY <1>2, <2>1
  <2>4. vs[1] = DecoupledFamily(us[1], n, t, r) /\ DOMAIN vs = DOMAIN us
    BY DEF DecoupledEach
  <2>5. /\ Together(DecoupledFamily(us[1], n, t, r), R)
        /\ Together(DecoupledFamily(us[1], n, t, r), T)
    BY <2>4 DEF AgreesOn
  <2>6. R \ {r} \subseteq n /\ r \notin T /\ t \notin R
    BY <2>1, <2>2, <2>3, <2>5, NewBlocks
  <2>7. R # T
    BY <2>1, <2>6
  <2>8. /\ Q = (P \ {R, T}) \union {JoinedBlock(R, T, t, r)}
        /\ \A B \in P \ {R, T} : t \notin B /\ r \notin B
        /\ IsPartition(Q, X)
    BY <2>1, <2>2, <2>3, <2>7, CoupleJoins
  <2>9. JoinedBlock(R, T, t, r) # {s}
    <3>1. R \ {r} \subseteq JoinedBlock(R, T, t, r) /\ R \ {r} # {}
      BY <2>1, <2>3, <2>6 DEF JoinedBlock
    <3> QED BY <2>6, <3>1
  <2>10. {s} \in P /\ {q} \in P
    BY <2>8, <2>9
  <2>11. {q} # R /\ {q} # T
    BY <2>1, <2>2
  <2> QED BY <2>8, <2>10, <2>11
<1> QED BY <1>1, <1>2

-----------------------------------------------------------------------------
(* The nodes of all trees of a forest.                                     *)

(* They are a family, for the trees share no label.                        *)
LEMMA ForestIsFamily ==
  ASSUME NEW F, IsForest(F), IsFiniteSet(UNION F)
  PROVE  IsFamily(UNION F)
<1>1. \A m \in UNION F : m # {}
  BY DEF IsForest, IsTree
<1>2. ASSUME NEW u \in F, NEW v \in F, NEW m \in u, NEW k \in v
      PROVE  m \subseteq k \/ k \subseteq m \/ m \intersect k = {}
  <2>1. CASE u = v
    BY <2>1 DEF IsForest, IsTree
  <2>2. CASE u # v
    <3>1. LabelsOf(u) \intersect LabelsOf(v) = {}
      BY <2>2 DEF IsForest
    <3>2. m \subseteq LabelsOf(u) /\ k \subseteq LabelsOf(v)
      BY DEF LabelsOf
    <3> QED BY <3>1, <3>2
  <2> QED BY <2>1, <2>2
<1>3. \A m, k \in UNION F : m \subseteq k \/ k \subseteq m \/ m \intersect k = {}
  BY <1>2
<1> QED BY <1>1, <1>3 DEF IsFamily

(* Decoupling in one tree of the forest. *)
LEMMA DecoupleIsFamily ==
  ASSUME NEW F, IsForest(F), NEW n, HasNode(F, n), NEW t, NEW r
  PROVE  UNION Decouple(F, n, t, r) = DecoupledFamily(UNION F, n, t, r)
<1> DEFINE u == CHOOSE v \in F : n \in v
           N == UNION F
<1>1. u \in F /\ n \in u
  BY DEF HasNode
<1>2. Decouple(F, n, t, r)
        = (F \ {u}) \union {DecoupledSubtree(u, n, r), ParentTree(u, n, t)}
  BY DEF Decouple
<1> HIDE DEF u
<1>3. n # {} /\ \A v \in F : \A m \in v : m # {}
  BY <1>1 DEF IsForest, IsTree
<1>4. ASSUME NEW v \in F, NEW m \in v, v # u
      PROVE  m \intersect n = {}
  <2>1. LabelsOf(v) \intersect LabelsOf(u) = {}
    BY <1>1, <1>4 DEF IsForest
  <2> QED BY <1>1, <2>1 DEF LabelsOf
<1>5. \A m \in N : (m \subseteq n \/ n \subseteq m) => m \in u
  BY <1>3, <1>4
<1>6. u \subseteq N
  BY <1>1
<1>7. DecoupledSubtree(u, n, r) = DecoupledSubtree(N, n, r)
  <2>1. {m \in u : m \subseteq n} = {m \in N : m \subseteq n}
    BY <1>5, <1>6
  <2> QED BY <2>1 DEF DecoupledSubtree
<1>8. (UNION (F \ {u})) \union ParentTree(u, n, t) = ParentTree(N, n, t)
  <2> DEFINE K(w) == {k \in w : k \intersect n = {} \/ n \subseteq k}
  <2>1. \A k : k \intersect n = {} => WithoutSubtree(k, n, t) = k
    BY <1>3 DEF WithoutSubtree
  <2>2. ASSUME NEW m \in (UNION (F \ {u})) \union ParentTree(u, n, t)
        PROVE  m \in ParentTree(N, n, t)
    <3>1. CASE m \in UNION (F \ {u})
      <4>1. m \in N /\ m \intersect n = {}
        BY <1>4, <3>1
      <4> QED BY <2>1, <4>1 DEF ParentTree
    <3>2. CASE m \in ParentTree(u, n, t)
      BY <1>6, <3>2 DEF ParentTree
    <3> QED BY <3>1, <3>2
  <2>3. ASSUME NEW m \in ParentTree(N, n, t)
        PROVE  m \in (UNION (F \ {u})) \union ParentTree(u, n, t)
    <3>1. PICK k \in N : m = WithoutSubtree(k, n, t) /\ (k \intersect n = {} \/ n \subseteq k)
      BY DEF ParentTree
    <3>2. CASE k \in u
      BY <3>1, <3>2 DEF ParentTree
    <3>3. CASE k \notin u
      <4>1. k \intersect n = {} /\ m = k
        BY <1>5, <2>1, <3>1, <3>3
      <4>2. k \in UNION (F \ {u})
        BY <3>3
      <4> QED BY <4>1, <4>2
    <3> QED BY <3>2, <3>3
  <2> QED BY <2>2, <2>3
<1>9. UNION Decouple(F, n, t, r)
        = DecoupledSubtree(u, n, r) \union ((UNION (F \ {u})) \union ParentTree(u, n, t))
  BY <1>2
<1> QED BY <1>7, <1>8, <1>9 DEF DecoupledFamily

(* Finitely many nodes stay finitely many.                                 *)
LEMMA DecoupledIsFinite ==
  ASSUME NEW u, IsFiniteSet(u), NEW n, NEW t, NEW r
  PROVE  IsFiniteSet(DecoupledFamily(u, n, t, r))
<1> DEFINE K == {k \in u : k \intersect n = {} \/ n \subseteq k}
           f == [k \in K |-> WithoutSubtree(k, n, t)]
           B == {m \in u : m \subseteq n}
<1>1. IsFiniteSet(K) /\ IsFiniteSet(B)
  BY FS_Subset
<1>2. ParentTree(u, n, t) = {WithoutSubtree(k, n, t) : k \in K}
  BY DEF ParentTree
<1>3. f \in Surjection(K, ParentTree(u, n, t))
  <2>1. \A m \in ParentTree(u, n, t) : \E k \in K : f[k] = m
    BY <1>2
  <2>2. f \in [K -> ParentTree(u, n, t)]
    BY <1>2
  <2> QED BY <2>1, <2>2 DEF Surjection
<1> HIDE DEF K, f, B
<1>4. IsFiniteSet(ParentTree(u, n, t))
  BY <1>1, <1>3, FS_Surjection
<1>5. DecoupledSubtree(u, n, r) = (B \union {{r}}) \union {n \union {r}}
  BY DEF DecoupledSubtree, B
<1>6. IsFiniteSet(B \union {{r}})
  BY <1>1, FS_AddElement
<1>7. IsFiniteSet((B \union {{r}}) \union {n \union {r}})
  BY <1>6, FS_AddElement
<1> QED BY <1>4, <1>5, <1>7, FS_Union DEF DecoupledFamily

-----------------------------------------------------------------------------
(* The common subtrees, and what replaces them.                            *)

(* Common subtrees S of the families: nodes of all, with the same nodes    *)
(* below, that share no labels and have all.                               *)
AreSubtrees(us, S, X) ==
  /\ \A s \in S : \A i \in DOMAIN us :
       s \in us[i] /\ \A m : m \subseteq s => (m \in us[i] <=> m \in us[1])
  /\ \A s, q \in S : s # q => s \intersect q = {}
  /\ UNION S = X

(* Of finitely many sets one is in no other. *)
LEMMA GreatestSet ==
  ASSUME NEW X, IsFiniteSet(X), NEW C, C \subseteq SUBSET X, C # {}
  PROVE  \E a \in C : \A m \in C : a \subseteq m => m = a
<1> DEFINE Q == StrictSubsetOrdering(X)
           U == FiniteSubsetsOf(X)
           T == {X \ m : m \in C}
<1>1. IsWellFoundedOn(Q, U)
  BY FS_StrictSubsetOrderingWellFounded
<1>2. U = SUBSET X
  BY FS_FiniteSubsetsOfFinite
<1>3. T \subseteq U /\ T # {}
  <2>1. \A m \in C : X \ m \in SUBSET X
    OBVIOUS
  <2>2. T \subseteq SUBSET X
    BY <2>1
  <2>3. PICK m \in C : TRUE
    OBVIOUS
  <2>4. X \ m \in T
    OBVIOUS
  <2> QED BY <1>2, <2>2, <2>4
<1>4. PICK A \in T : \A D \in T : ~(<<D, A>> \in Q)
  <2> HIDE DEF T, Q, U
  <2> QED BY <1>1, <1>3, WFMin
<1>5. PICK a \in C : A = X \ a
  BY <1>4
<1>6. ASSUME NEW m \in C, a \subseteq m, m # a  PROVE FALSE
  <2>1. m \subseteq X /\ a \subseteq X
    OBVIOUS
  <2>2. X \ m \subseteq X \ a /\ X \ m # X \ a /\ X \ m \in T
    BY <1>6, <2>1
  <2>3. <<X \ m, X \ a>> \in Q
    BY <2>2 DEF StrictSubsetOrdering
  <2> QED BY <1>4, <1>5, <2>2, <2>3
<1> QED BY <1>6

(* A node with the same shape in two trees is the same node. *)
LEMMA SameShape ==
  ASSUME NEW u, NEW v, NEW n \in u, NEW m \in v, Shape(AsForest(v), m) = Shape(AsForest(u), n)
  PROVE  m = n /\ n \in v /\ \A k : k \subseteq n => (k \in v <=> k \in u)
<1>1. Shape(AsForest(u), n) = {k \in u : k \subseteq n}
  BY DEF Shape, AsForest
<1>2. Shape(AsForest(v), m) = {k \in v : k \subseteq m}
  BY DEF Shape, AsForest
<1>3. n \in v /\ n \subseteq m
  BY <1>1, <1>2
<1>4. m \in u /\ m \subseteq n
  BY <1>1, <1>2
<1>5. m = n
  BY <1>3, <1>4
<1> QED BY <1>1, <1>2, <1>3, <1>5

(* MaximalCommonRoots finds such subtrees. *)
LEMMA MaximalAreSubtrees ==
  ASSUME NEW us, 1 \in DOMAIN us, NEW X, IsFiniteSet(X),
         \A i \in DOMAIN us :
           IsFamily(us[i]) /\ UNION us[i] = X /\ \A x \in X : {x} \in us[i]
  PROVE  AreSubtrees(us, MaximalCommonRoots(AsForests(us)), X)
<1> DEFINE common == CommonRoots(AsForests(us))
           S == MaximalCommonRoots(AsForests(us))
<1>1. DOMAIN AsForests(us) = DOMAIN us /\ \A i \in DOMAIN us : AsForests(us)[i] = AsForest(us[i])
  BY DEF AsForests
<1>2. \A u : DOMAIN AsForest(u) = u /\ \A n \in u : AsForest(u)[n] = n
  BY DEF AsForest
<1>3. common = {n \in us[1] : \A i \in DOMAIN us : \E m \in us[i] :
                  m = n /\ Shape(AsForest(us[i]), m) = Shape(AsForest(us[1]), n)}
  BY <1>1, <1>2 DEF CommonRoots
<1>4. S = {n \in common : \A k \in common : ~Below(AsForests(us)[1], n, k)}
  BY DEF MaximalCommonRoots
<1>5. common \subseteq us[1]
  BY <1>3
<1>6. S = {n \in common : \A k \in common : ~(n # k /\ n \subseteq k)}
  <2>1. \A n, k \in common : Below(AsForests(us)[1], n, k) <=> n # k /\ n \subseteq k
    BY <1>1, <1>2, <1>5 DEF Below
  <2> QED BY <1>4, <2>1
<1>7. ASSUME NEW n \in common, NEW i \in DOMAIN us
      PROVE  n \in us[i] /\ \A m : m \subseteq n => (m \in us[i] <=> m \in us[1])
  <2>1. PICK m \in us[i] : Shape(AsForest(us[i]), m) = Shape(AsForest(us[1]), n)
    BY <1>3
  <2> QED BY <1>5, <2>1, SameShape
<1>8. \A x \in X : {x} \in common
  <2> SUFFICES ASSUME NEW x \in X, NEW i \in DOMAIN us
               PROVE  Shape(AsForest(us[i]), {x}) = Shape(AsForest(us[1]), {x})
    BY <1>3
  <2>1. \A j \in DOMAIN us : Shape(AsForest(us[j]), {x}) = {{x}}
    <3> SUFFICES ASSUME NEW j \in DOMAIN us  PROVE Shape(AsForest(us[j]), {x}) = {{x}}
      OBVIOUS
    <3>1. {x} \in us[j] /\ \A k \in us[j] : k # {}
      BY DEF IsFamily
    <3>2. Shape(AsForest(us[j]), {x}) = {k \in us[j] : k \subseteq {x}}
      BY DEF Shape, AsForest
    <3>3. \A k : k \subseteq {x} /\ k # {} => k = {x}
      OBVIOUS
    <3>4. {k \in us[j] : k \subseteq {x}} = {{x}}
      BY <3>1, <3>3
    <3> QED BY <3>2, <3>4
  <2> QED BY <2>1
<1> HIDE DEF common, S
<1>9. ASSUME NEW s \in S, NEW q \in S, s # q  PROVE s \intersect q = {}
  BY <1>5, <1>6, <1>9 DEF IsFamily
<1>10. S \subseteq common /\ \A s \in common : s \subseteq X
  BY <1>5, <1>6
<1>11. ASSUME NEW x \in X  PROVE \E s \in S : x \in s
  <2> DEFINE C == {n \in common : x \in n}
  <2>1. C \subseteq SUBSET X /\ C # {}
    BY <1>8, <1>10
  <2>2. PICK a \in C : \A m \in C : a \subseteq m => m = a
    <3> HIDE DEF C
    <3> QED BY <2>1, GreatestSet
  <2>3. \A k \in common : ~(a # k /\ a \subseteq k)
    BY <2>2
  <2> QED BY <1>6, <2>2, <2>3
<1>12. UNION S = X
  BY <1>10, <1>11
<1> QED BY <1>7, <1>9, <1>10, <1>12 DEF AreSubtrees, S

(* The labels that stand for them, and what these stand for. *)
Kept(S) == {SmallestOf(s) : s \in S}
Opened(S, B) == UNION {s \in S : SmallestOf(s) \in B}

(* Nodes of a tree that share no labels, each with its least label. *)
AreApartIn(u, S) ==
  /\ S \subseteq u
  /\ \A s, q \in S : s # q => s \intersect q = {}
  /\ \A s \in S : SmallestOf(s) \in s

(* Each has only its own least label.                                      *)
LEMMA KeptOnce ==
  ASSUME NEW u, NEW S, AreApartIn(u, S)
  PROVE  \A s, q \in S : SmallestOf(q) \in s => q = s
BY DEF AreApartIn

(* The blocks opened are a partition of all labels.                        *)
LEMMA OpenedPartition ==
  ASSUME NEW u, NEW S, AreApartIn(u, S), NEW P, IsPartition(P, Kept(S))
  PROVE  /\ IsPartition({Opened(S, B) : B \in P}, UNION S)
         /\ \A B \in P : B \subseteq Opened(S, B)
         /\ \A B, C \in P : B # C => Opened(S, B) \intersect Opened(S, C) = {}
<1> DEFINE E == {Opened(S, B) : B \in P}
<1>1. \A B, C \in P : B # {} /\ B \subseteq Kept(S) /\ (B = C \/ B \intersect C = {})
  BY DEF IsPartition
<1>2. ASSUME NEW B \in P, NEW x \in B  PROVE x \in Opened(S, B)
  <2>1. PICK s \in S : x = SmallestOf(s)
    BY <1>1 DEF Kept
  <2> QED BY <2>1 DEF Opened, AreApartIn
<1>3. ASSUME NEW B \in P, NEW C \in P, B # C, NEW x \in Opened(S, B), x \in Opened(S, C)
      PROVE  FALSE
  <2>1. PICK s \in S : SmallestOf(s) \in B /\ x \in s
    BY DEF Opened
  <2>2. PICK q \in S : SmallestOf(q) \in C /\ x \in q
    BY <1>3 DEF Opened
  <2>3. s = q
    BY <2>1, <2>2 DEF AreApartIn
  <2> QED BY <1>1, <1>3, <2>1, <2>2, <2>3
<1>4. \A B, C \in P : B # C => Opened(S, B) \intersect Opened(S, C) = {}
  BY <1>3
<1>5. \A B \in P : B \subseteq Opened(S, B)
  BY <1>2
<1>6. \A D, F \in E : D # {} /\ (D = F \/ D \intersect F = {})
  BY <1>1, <1>4, <1>5
<1>7. ASSUME NEW x \in UNION E  PROVE x \in UNION S
  BY <1>7 DEF Opened
<1>8. ASSUME NEW x \in UNION S  PROVE x \in UNION E
  <2>1. PICK s \in S : x \in s
    BY <1>8
  <2>2. PICK B \in P : SmallestOf(s) \in B
    BY DEF IsPartition, Kept
  <2>3. x \in Opened(S, B)
    BY <2>1, <2>2 DEF Opened
  <2> QED BY <2>3
<1>9. UNION E = UNION S
  BY <1>7, <1>8
<1> HIDE DEF E
<1> QED BY <1>4, <1>5, <1>6, <1>9 DEF IsPartition, E

(* A node inside one of them, and one that is not. *)
LEMMA OpenedInside ==
  ASSUME NEW u, NEW S, AreApartIn(u, S), NEW B, NEW s \in S, NEW m, m \subseteq s
  PROVE  /\ m \intersect Opened(S, B) # {} => SmallestOf(s) \in B
         /\ SmallestOf(s) \in B => m \intersect Opened(S, B) = m
<1>1. ASSUME m \intersect Opened(S, B) # {}  PROVE SmallestOf(s) \in B
  <2>1. PICK x \in m : x \in Opened(S, B)
    BY <1>1
  <2>2. PICK q \in S : SmallestOf(q) \in B /\ x \in q
    BY <2>1 DEF Opened
  <2>3. q = s
    BY <2>1, <2>2 DEF AreApartIn
  <2> QED BY <2>2, <2>3
<1>2. ASSUME SmallestOf(s) \in B  PROVE m \subseteq Opened(S, B)
  BY <1>2 DEF Opened
<1> QED BY <1>1, <1>2

(* A node that is in none has all of each it touches.                      *)
LEMMA OpenedAcross ==
  ASSUME NEW u, IsFamily(u), NEW S, AreApartIn(u, S), NEW B,
         NEW m \in u, \A s \in S : ~(m \subseteq s)
  PROVE  /\ m \intersect Opened(S, B) = Opened(S, m \intersect B)
         /\ \A s \in S : m \intersect s # {} => s \subseteq m
<1>1. \A s \in S : m \intersect s # {} => s \subseteq m
  BY DEF IsFamily, AreApartIn
<1>2. ASSUME NEW x \in m, x \in Opened(S, B)  PROVE x \in Opened(S, m \intersect B)
  <2>1. PICK s \in S : SmallestOf(s) \in B /\ x \in s
    BY <1>2 DEF Opened
  <2>2. SmallestOf(s) \in m
    BY <1>1, <2>1 DEF AreApartIn
  <2> QED BY <2>1, <2>2 DEF Opened
<1>3. ASSUME NEW x \in Opened(S, m \intersect B)  PROVE x \in m /\ x \in Opened(S, B)
  <2>1. PICK s \in S : SmallestOf(s) \in m \intersect B /\ x \in s
    BY DEF Opened
  <2>2. s \subseteq m
    BY <1>1, <2>1 DEF AreApartIn
  <2> QED BY <2>1, <2>2 DEF Opened
<1> QED BY <1>1, <1>2, <1>3

(* The nodes of a block are those of the block before, opened, and those   *)
(* inside the subtrees.                                                    *)
LEMMA OpenedTrace ==
  ASSUME NEW u, IsFamily(u), NEW S, AreApartIn(u, S), NEW B \in SUBSET Kept(S)
  PROVE  Trace(u, Opened(S, B))
           = {Opened(S, z) : z \in Trace(u, B)}
               \union {m \in u : \E s \in S : SmallestOf(s) \in B /\ m \subseteq s}
<1> DEFINE U == Opened(S, B)
           In == {m \in u : \E s \in S : SmallestOf(s) \in B /\ m \subseteq s}
           Over == {Opened(S, z) : z \in Trace(u, B)}
<1>1. ASSUME NEW y \in Trace(u, U)  PROVE y \in Over \union In
  <2>1. PICK m \in u : y = m \intersect U /\ y # {}
    BY InTrace
  <2>2. CASE \E s \in S : m \subseteq s
    <3>1. PICK s \in S : m \subseteq s
      BY <2>2
    <3>2. SmallestOf(s) \in B /\ y = m
      BY <2>1, <3>1, OpenedInside
    <3> QED BY <3>1, <3>2
  <2>3. CASE \A s \in S : ~(m \subseteq s)
    <3>1. y = Opened(S, m \intersect B)
      BY <2>1, <2>3, OpenedAcross
    <3>2. m \intersect B # {}
      BY <2>1, <3>1 DEF Opened
    <3>3. m \intersect B \in Trace(u, B)
      BY <3>2, InTrace
    <3> QED BY <3>1, <3>3
  <2> QED BY <2>2, <2>3
<1>2. ASSUME NEW y \in In  PROVE y \in Trace(u, U)
  <2>1. PICK s \in S : SmallestOf(s) \in B /\ y \subseteq s
    BY <1>2
  <2>2. y \in u /\ y \intersect U = y
    BY <1>2, <2>1, OpenedInside
  <2>3. y # {}
    BY <2>2 DEF IsFamily
  <2> QED BY <2>2, <2>3, InTrace
<1>3. ASSUME NEW y \in Over  PROVE y \in Trace(u, U)
  <2>1. PICK z \in Trace(u, B) : y = Opened(S, z)
    BY <1>3
  <2>2. PICK m \in u : z = m \intersect B /\ z # {}
    BY InTrace
  <2>3. PICK x \in z : TRUE
    BY <2>2
  <2>4. PICK q \in S : x = SmallestOf(q)
    BY <2>2, <2>3 DEF Kept
  <2>5. q \subseteq y /\ SmallestOf(q) \in q
    BY <2>1, <2>3, <2>4 DEF Opened, AreApartIn
  <2>6. CASE \E s \in S : m \subseteq s
    <3>1. PICK s \in S : m \subseteq s
      BY <2>6
    <3>2. \A p \in S : SmallestOf(p) \in z => p = s
      BY <2>2, <3>1, KeptOnce
    <3>3. q = s
      BY <2>3, <2>4, <3>2
    <3>4. y = s
      <4>1. y \subseteq s
        BY <2>1, <3>2 DEF Opened
      <4> QED BY <2>5, <3>3, <4>1
    <3>5. s \in u /\ SmallestOf(s) \in B
      BY <2>2, <2>3, <2>4, <3>3 DEF AreApartIn
    <3>6. s \intersect U = s
      BY <3>5, OpenedInside
    <3> QED BY <2>5, <3>4, <3>5, <3>6, InTrace
  <2>7. CASE \A s \in S : ~(m \subseteq s)
    <3>1. y = m \intersect U
      BY <2>1, <2>2, <2>7, OpenedAcross
    <3> QED BY <2>5, <3>1, InTrace
  <2> QED BY <2>6, <2>7
<1> HIDE DEF U, In, Over
<1>4. Trace(u, U) = Over \union In
  BY <1>1, <1>2, <1>3
<1> QED BY <1>4 DEF U, In, Over

(* A node above two labels kept is above all the block stands for. *)
LEMMA OpenedBelow ==
  ASSUME NEW u, IsFamily(u), NEW S, AreApartIn(u, S), NEW B \in SUBSET Kept(S),
         NEW m \in u, B \subseteq m
  PROVE  Opened(S, B) \subseteq m \/ \E s \in S : Opened(S, B) \subseteq s
<1>1. CASE \E s \in S : m \subseteq s
  <2>1. PICK s \in S : m \subseteq s
    BY <1>1
  <2>2. \A q \in S : SmallestOf(q) \in B => q = s
    BY <2>1, KeptOnce
  <2> QED BY <2>2 DEF Opened
<1>2. CASE \A s \in S : ~(m \subseteq s)
  <2>1. \A s \in S : m \intersect s # {} => s \subseteq m
    BY <1>2, OpenedAcross
  <2>2. \A s \in S : SmallestOf(s) \in B => s \subseteq m
    BY <2>1 DEF AreApartIn
  <2> QED BY <2>2 DEF Opened
<1> QED BY <1>1, <1>2

(* A block that is together is so when it is opened.                       *)
LEMMA OpenedTogether ==
  ASSUME NEW u, IsFamily(u), NEW S, AreApartIn(u, S), NEW B \in SUBSET Kept(S),
         Together(Trace(u, Kept(S)), B)
  PROVE  Together(u, Opened(S, B))
<1>1. PICK w \in Trace(u, Kept(S)) : B \subseteq w
  BY DEF Together
<1>2. PICK m \in u : w = m \intersect Kept(S)
  BY InTrace
<1>3. B \subseteq m
  BY <1>1, <1>2
<1>4. Opened(S, B) \subseteq m \/ \E s \in S : Opened(S, B) \subseteq s
  BY <1>3, OpenedBelow
<1> QED BY <1>4 DEF Together, AreApartIn

(* A node that joins two of the blocks is in no subtree, and what is kept  *)
(* of it joined them before.                                               *)
LEMMA OpenedJoined ==
  ASSUME NEW u, IsFamily(u), NEW S, AreApartIn(u, S), NEW B \in SUBSET Kept(S),
         NEW m \in u, \A s \in S : ~(m \subseteq s), Joins(u, Opened(S, B), m)
  PROVE  Joins(Trace(u, Kept(S)), B, m \intersect Kept(S))
<1> DEFINE K == Kept(S)
           U == Opened(S, B)
<1>1. m \intersect B # {}
  <2>1. m \intersect U = Opened(S, m \intersect B) /\ m \intersect U # {}
    BY OpenedAcross DEF Joins
  <2> QED BY <2>1 DEF Opened
<1>2. m \intersect K \in Trace(u, K) /\ (m \intersect K) \intersect B # {}
  <2>1. m \intersect K # {}
    BY <1>1
  <2> QED BY <1>1, <2>1, InTrace
<1>3. ASSUME NEW w \in Trace(u, K), B \subseteq w  PROVE m \intersect K \subseteq w
  <2>1. PICK k \in u : w = k \intersect K
    BY InTrace
  <2>2. B \subseteq k
    BY <1>3, <2>1
  <2>3. U \subseteq k \/ \E s \in S : U \subseteq s
    BY <2>2, OpenedBelow
  <2>4. ~(\E s \in S : U \subseteq s)
    BY DEF Joins, AreApartIn
  <2>5. m \subseteq k
    BY <2>3, <2>4 DEF Joins
  <2> QED BY <2>1, <2>5
<1> QED BY <1>2, <1>3 DEF Joins

(* An agreement forest of the reduced trees is one of the trees themselves *)
(* when every label stands for its subtree again.                          *)
LEMMA OpenedAgrees ==
  ASSUME NEW us, 1 \in DOMAIN us, \A i \in DOMAIN us : IsFamily(us[i]),
         NEW X, NEW S, AreSubtrees(us, S, X), \A s \in S : SmallestOf(s) \in s,
         NEW P, IsPartition(P, Kept(S)),
         AgreesOn([i \in DOMAIN us |-> Trace(us[i], Kept(S))], P)
  PROVE  /\ IsPartition({Opened(S, B) : B \in P}, X)
         /\ AgreesOn(us, {Opened(S, B) : B \in P})
<1> DEFINE E == {Opened(S, B) : B \in P}
           vs == [i \in DOMAIN us |-> Trace(us[i], Kept(S))]
           In(i, B) == {m \in us[i] : \E s \in S : SmallestOf(s) \in B /\ m \subseteq s}
<1>1. \A i \in DOMAIN us : AreApartIn(us[i], S)
  BY DEF AreSubtrees, AreApartIn
<1>2. /\ IsPartition(E, X)
      /\ \A B, C \in P : B # C => Opened(S, B) \intersect Opened(S, C) = {}
  BY <1>1, OpenedPartition DEF AreSubtrees
<1>3. \A B \in P : B # {} /\ B \in SUBSET Kept(S)
  BY DEF IsPartition
<1>4. /\ \A B \in P : \A i \in DOMAIN us :
           Together(vs[i], B) /\ Trace(vs[i], B) = Trace(vs[1], B)
      /\ \A i \in DOMAIN us : \A B, C \in P : B # C =>
           \A m \in vs[i] : ~(Joins(vs[i], B, m) /\ Joins(vs[i], C, m))
  BY DEF AgreesOn
<1>5. \A i \in DOMAIN us : vs[i] = Trace(us[i], Kept(S))
  OBVIOUS
<1> HIDE DEF vs
<1>6. ASSUME NEW B \in P, NEW i \in DOMAIN us
      PROVE  Together(us[i], Opened(S, B))
  BY <1>1, <1>3, <1>4, <1>5, OpenedTogether
<1>7. ASSUME NEW B \in P, NEW i \in DOMAIN us
      PROVE  Trace(us[i], B) = Trace(us[1], B)
  <2>1. Kept(S) \intersect B = B
    BY <1>3
  <2>2. \A j \in DOMAIN us : Trace(vs[j], B) = Trace(us[j], B)
    BY <1>5, <2>1, TraceTwice
  <2> QED BY <1>4, <2>2
<1>8. ASSUME NEW B \in P, NEW i \in DOMAIN us
      PROVE  In(i, B) = In(1, B)
  BY DEF AreSubtrees
<1>9. ASSUME NEW B \in P, NEW i \in DOMAIN us
      PROVE  Trace(us[i], Opened(S, B)) = Trace(us[1], Opened(S, B))
  <2>1. \A j \in DOMAIN us :
          Trace(us[j], Opened(S, B)) = {Opened(S, z) : z \in Trace(us[j], B)} \union In(j, B)
    BY <1>1, <1>3, OpenedTrace
  <2> HIDE DEF In
  <2> QED BY <1>7, <1>8, <2>1
<1>10. ASSUME NEW i \in DOMAIN us, NEW B \in P, NEW C \in P, B # C, NEW m \in us[i],
              Joins(us[i], Opened(S, B), m), Joins(us[i], Opened(S, C), m)
       PROVE  FALSE
  <2>1. m \intersect Opened(S, B) # {} /\ m \intersect Opened(S, C) # {}
    BY <1>10 DEF Joins
  <2>2. ASSUME NEW s \in S, m \subseteq s  PROVE FALSE
    <3>1. SmallestOf(s) \in B /\ SmallestOf(s) \in C
      BY <1>1, <2>1, <2>2, OpenedInside
    <3> QED BY <1>10, <3>1 DEF IsPartition
  <2>3. /\ Joins(vs[i], B, m \intersect Kept(S))
        /\ Joins(vs[i], C, m \intersect Kept(S))
    BY <1>1, <1>3, <1>5, <1>10, <2>2, OpenedJoined
  <2> QED BY <1>4, <1>10, <2>3 DEF Joins
<1>11. \A D \in E : \A i \in DOMAIN us :
         Together(us[i], D) /\ Trace(us[i], D) = Trace(us[1], D)
  BY <1>6, <1>9
<1>12. ASSUME NEW i \in DOMAIN us, NEW D \in E, NEW F \in E, D # F, NEW m \in us[i]
       PROVE  ~(Joins(us[i], D, m) /\ Joins(us[i], F, m))
  BY <1>10, <1>12
<1> HIDE DEF E
<1>13. AgreesOn(us, E)
  BY <1>11, <1>12 DEF AgreesOn
<1> QED BY <1>2, <1>13 DEF E

-----------------------------------------------------------------------------
(* The solutions of the clusters, taken together.                          *)

Solves(c, P) == IsPartition(P, LabelsOf(c.trees[1])) /\ AgreesOn(c.trees, P)

AreSolutions(c, s) == DOMAIN s = DOMAIN c /\ \A k \in DOMAIN c : Solves(c[k], s[k])

Merged(s) == UNION {s[k] : k \in DOMAIN s}

(* What is merged.                                                         *)
LEMMA InMerged ==
  ASSUME NEW s, NEW B
  PROVE  B \in Merged(s) <=> \E k \in DOMAIN s : B \in s[k]
BY DEF Merged

(* A block with labels of one tree of a forest. *)
LEMMA OneTree ==
  ASSUME NEW F, IsForest(F), NEW u \in F, NEW B, B # {}, B \subseteq LabelsOf(u)
  PROVE  /\ Together(u, B) => Together(UNION F, B)
         /\ Trace(UNION F, B) = Trace(u, B)
         /\ \A m : Joins(UNION F, B, m) => Joins(u, B, m)
<1>1. ASSUME NEW m \in UNION F, m \intersect B # {}  PROVE m \in u
  <2>1. PICK v \in F : m \in v
    OBVIOUS
  <2>2. LabelsOf(v) \intersect LabelsOf(u) # {}
    BY <1>1, <2>1 DEF LabelsOf
  <2> QED BY <2>1, <2>2 DEF IsForest
<1>2. u \subseteq UNION F
  OBVIOUS
<1>3. Trace(UNION F, B) = Trace(u, B)
  <2>1. ASSUME NEW y \in Trace(UNION F, B)  PROVE y \in Trace(u, B)
    <3>1. PICK m \in UNION F : y = m \intersect B /\ y # {}
      BY InTrace
    <3>2. m \in u
      BY <1>1, <3>1
    <3> QED BY <3>1, <3>2, InTrace
  <2>2. ASSUME NEW y \in Trace(u, B)  PROVE y \in Trace(UNION F, B)
    <3>1. PICK m \in u : y = m \intersect B /\ y # {}
      BY InTrace
    <3>2. m \in UNION F
      BY <1>2
    <3> QED BY <3>1, <3>2, InTrace
  <2> QED BY <2>1, <2>2
<1>4. \A m : Joins(UNION F, B, m) => Joins(u, B, m)
  BY <1>1, <1>2 DEF Joins
<1>5. Together(u, B) => Together(UNION F, B)
  BY <1>2 DEF Together
<1> QED BY <1>3, <1>4, <1>5

(* They are an agreement forest of the trees as they were split.           *)
LEMMA MergedAgrees ==
  ASSUME NEW fs, 1 \in DOMAIN fs, \A i \in DOMAIN fs : IsForest(fs[i]),
         NEW c, AreClusters(fs, c), \A k \in DOMAIN c : DOMAIN c[k].trees = DOMAIN fs,
         NEW s, AreSolutions(c, s)
  PROVE  /\ IsPartition(Merged(s), UNION LabelSets(fs[1]))
         /\ AgreesOn([i \in DOMAIN fs |-> UNION fs[i]], Merged(s))
<1> DEFINE us == [i \in DOMAIN fs |-> UNION fs[i]]
           M == Merged(s)
           L(k) == LabelsOf(c[k].trees[1])
<1>1. \A k \in DOMAIN c : IsPartition(s[k], L(k))
  BY DEF AreSolutions, Solves
<1>2. /\ \A k \in DOMAIN c : \A i \in DOMAIN fs :
           c[k].trees[i] \in fs[i] /\ LabelsOf(c[k].trees[i]) = L(k)
      /\ \A u \in fs[1] : \E k \in DOMAIN c : c[k].trees[1] = u
      /\ \A j, k \in DOMAIN c : j # k => L(j) \intersect L(k) = {}
  BY DEF AreClusters
<1>3. \A B : B \in M <=> \E k \in DOMAIN c : B \in s[k]
  BY InMerged DEF AreSolutions
<1> HIDE DEF M, L
<1>4. ASSUME NEW k \in DOMAIN c, NEW B \in s[k]  PROVE B # {} /\ B \subseteq L(k)
  BY <1>1 DEF IsPartition
<1>5. ASSUME NEW B \in M, NEW C \in M, B # C  PROVE B \intersect C = {}
  <2>1. PICK j \in DOMAIN c : B \in s[j]
    BY <1>3
  <2>2. PICK k \in DOMAIN c : C \in s[k]
    BY <1>3
  <2>3. CASE j = k
    BY <1>1, <1>5, <2>1, <2>2, <2>3 DEF IsPartition
  <2>4. CASE j # k
    BY <1>2, <1>4, <2>1, <2>2, <2>4
  <2> QED BY <2>3, <2>4
<1>6. UNION M = UNION LabelSets(fs[1])
  <2>1. ASSUME NEW x \in UNION M  PROVE x \in UNION LabelSets(fs[1])
    <3>1. PICK B \in M : x \in B
      OBVIOUS
    <3>2. PICK k \in DOMAIN c : B \in s[k]
      BY <1>3
    <3>3. x \in L(k)
      BY <1>4, <3>1, <3>2
    <3>4. L(k) \in LabelSets(fs[1])
      BY <1>2 DEF LabelSets
    <3> QED BY <3>3, <3>4
  <2>2. ASSUME NEW x \in UNION LabelSets(fs[1])  PROVE x \in UNION M
    <3>1. PICK u \in fs[1] : x \in LabelsOf(u)
      BY DEF LabelSets
    <3>2. PICK k \in DOMAIN c : c[k].trees[1] = u
      BY <1>2
    <3>3. x \in L(k)
      BY <3>1, <3>2 DEF L
    <3>4. PICK B \in s[k] : x \in B
      BY <1>1, <3>3 DEF IsPartition
    <3>5. B \in M
      BY <1>3
    <3> QED BY <3>4, <3>5
  <2> QED BY <2>1, <2>2
<1>7. \A B \in M : B # {}
  BY <1>3, <1>4
<1>8. IsPartition(M, UNION LabelSets(fs[1]))
  BY <1>5, <1>6, <1>7 DEF IsPartition
<1>9. ASSUME NEW k \in DOMAIN c, NEW B \in s[k], NEW i \in DOMAIN fs
      PROVE  /\ Together(us[i], B) /\ Trace(us[i], B) = Trace(c[k].trees[i], B)
             /\ \A m : Joins(us[i], B, m) => Joins(c[k].trees[i], B, m)
  <2>1. Together(c[k].trees[i], B)
    BY DEF AreSolutions, Solves, AgreesOn
  <2>2. PICK u \in fs[i] : u = c[k].trees[i]
    BY <1>2
  <2>3. B \subseteq LabelsOf(u) /\ B # {} /\ IsForest(fs[i])
    BY <1>2, <1>4, <2>2
  <2>4. us[i] = UNION fs[i]
    OBVIOUS
  <2>5. /\ Together(u, B) => Together(UNION fs[i], B)
        /\ Trace(UNION fs[i], B) = Trace(u, B)
        /\ \A m : Joins(UNION fs[i], B, m) => Joins(u, B, m)
    BY <2>3, OneTree
  <2> HIDE DEF us
  <2> QED BY <2>1, <2>2, <2>4, <2>5
<1>10. ASSUME NEW B \in M, NEW i \in DOMAIN fs
       PROVE  Together(us[i], B) /\ Trace(us[i], B) = Trace(us[1], B)
  <2>1. PICK k \in DOMAIN c : B \in s[k]
    BY <1>3
  <2>2. Trace(c[k].trees[i], B) = Trace(c[k].trees[1], B)
    BY <2>1 DEF AreSolutions, Solves, AgreesOn
  <2> HIDE DEF us
  <2> QED BY <1>9, <2>1, <2>2
<1>11. ASSUME NEW i \in DOMAIN fs, NEW B \in M, NEW C \in M, B # C, NEW m,
              Joins(us[i], B, m), Joins(us[i], C, m)
       PROVE  FALSE
  <2> HIDE DEF us
  <2>1. PICK j \in DOMAIN c : B \in s[j]
    BY <1>3
  <2>2. PICK k \in DOMAIN c : C \in s[k]
    BY <1>3
  <2>3. Joins(c[j].trees[i], B, m) /\ Joins(c[k].trees[i], C, m)
    BY <1>9, <1>11, <2>1, <2>2
  <2>4. CASE j = k
    <3>1. m \in c[j].trees[i]
      BY <2>3 DEF Joins
    <3>2. i \in DOMAIN c[j].trees
      OBVIOUS
    <3>3. AgreesOn(c[j].trees, s[j])
      BY DEF AreSolutions, Solves
    <3> QED BY <1>11, <2>1, <2>2, <2>3, <2>4, <3>1, <3>2, <3>3 DEF AgreesOn
  <2>5. CASE j # k
    <3>1. m \subseteq LabelsOf(c[j].trees[i]) /\ m \subseteq LabelsOf(c[k].trees[i]) /\ m # {}
      BY <2>3 DEF Joins, LabelsOf
    <3>2. LabelsOf(c[j].trees[i]) \intersect LabelsOf(c[k].trees[i]) = {}
      BY <1>2, <2>5
    <3> QED BY <3>1, <3>2
  <2> QED BY <2>4, <2>5
<1>12. DOMAIN us = DOMAIN fs
  OBVIOUS
<1> HIDE DEF us
<1>13. AgreesOn(us, M)
  BY <1>10, <1>11, <1>12 DEF AgreesOn
<1> QED BY <1>8, <1>13 DEF us, M

-----------------------------------------------------------------------------
(* Solutions of the decoupled trees can be coupled again.                  *)

Nodes(fs) == [i \in DOMAIN fs |-> UNION fs[i]]

(* A root that is alone has its terminal alone. *)
CutTogether(P, m, k) ==
  \A j \in 1..k : CutWith(P, ClusterRoot(m, j), ClusterTerminal(m, j))

(* Coupling k points makes P an agreement forest of the trees. *)
Recouples(trees, P, m, k) ==
  IsPartition(CoupleAll(P, m, k), LabelsOf(trees[1])) /\ AgreesOn(trees, CoupleAll(P, m, k))

CanRecouple(trees, fs, m, k) ==
  \A P : IsPartition(P, UNION LabelSets(fs[1])) /\ AgreesOn(Nodes(fs), P) /\ CutTogether(P, m, k)
           => Recouples(trees, P, m, k)

(* Nothing was decoupled. *)
LEMMA WholeRecouples ==
  ASSUME NEW trees, NEW fs, 1 \in DOMAIN trees, fs = [i \in DOMAIN trees |-> {trees[i]}],
         NEW m, trees = [i \in DOMAIN trees |-> trees[i]]
  PROVE  CanRecouple(trees, fs, m, 0)
<1>1. Nodes(fs) = trees
  BY DEF Nodes
<1>2. UNION LabelSets(fs[1]) = LabelsOf(trees[1])
  BY DEF LabelSets
<1> QED BY <1>1, <1>2, CoupleNone DEF CanRecouple, Recouples

(* After k points the node n is decoupled in the forests fs, which gives   *)
(* gs; the labels made for it are new, and no root made before is below.   *)
DecouplesNext(fs, gs, n, m, k) ==
  LET t == ClusterTerminal(m, k + 1)
      r == ClusterRoot(m, k + 1)
  IN  /\ 1 \in DOMAIN fs
      /\ \A i \in DOMAIN fs : IsForest(fs[i]) /\ IsFiniteSet(UNION fs[i])
                              /\ LabelSets(fs[i]) = LabelSets(fs[1]) /\ HasNode(fs[i], n)
      /\ t \notin UNION LabelSets(fs[1]) /\ r \notin UNION LabelSets(fs[1])
      /\ \A j \in 1..k : ClusterRoot(m, j) \notin n
      /\ gs = [i \in DOMAIN fs |-> Decouple(fs[i], n, t, r)]
      /\ UNION LabelSets(gs[1]) = (UNION LabelSets(fs[1])) \union {t, r}

(* One point more. *)
LEMMA DecoupleRecouples ==
  ASSUME NEW trees, NEW m \in Nat, NEW k \in Nat, NEW n, NEW fs, NEW gs,
         DecouplesNext(fs, gs, n, m, k), CanRecouple(trees, fs, m, k)
  PROVE  CanRecouple(trees, gs, m, k + 1)
<1>a. PICK t : t = ClusterTerminal(m, k + 1)
  OBVIOUS
<1>b. PICK r : r = ClusterRoot(m, k + 1)
  OBVIOUS
<1> USE <1>a, <1>b DEF DecouplesNext
<1> DEFINE us == Nodes(fs)
           X == UNION LabelSets(fs[1])
<1>1. t # r
  BY DEF ClusterTerminal, ClusterRoot
<1>2. DOMAIN us = DOMAIN fs /\ \A i \in DOMAIN fs : us[i] = UNION fs[i]
  BY DEF Nodes
<1>3. ASSUME NEW i \in DOMAIN us
      PROVE  IsFamily(us[i]) /\ n \in us[i] /\ AreNew(us[i], t, r)
  <2>1. IsForest(fs[i]) /\ IsFiniteSet(UNION fs[i]) /\ HasNode(fs[i], n)
    BY <1>2
  <2>2. \A v \in us[i] : v \subseteq UNION LabelSets(fs[i])
    BY <1>2 DEF LabelSets, LabelsOf
  <2>3. LabelSets(fs[i]) = LabelSets(fs[1])
    BY <1>2
  <2>4. AreNew(us[i], t, r)
    BY <1>1, <2>2, <2>3 DEF AreNew
  <2> QED BY <1>2, <2>1, <2>4, ForestIsFamily DEF HasNode
<1>4. Nodes(gs) = DecoupledEach(us, n, t, r)
  <2>1. ASSUME NEW i \in DOMAIN fs
        PROVE  UNION gs[i] = DecoupledFamily(us[i], n, t, r)
    <3>1. gs[i] = Decouple(fs[i], n, t, r) /\ IsForest(fs[i]) /\ HasNode(fs[i], n)
      OBVIOUS
    <3>2. us[i] = UNION fs[i]
      BY <1>2
    <3> QED BY <3>1, <3>2, DecoupleIsFamily
  <2> QED BY <1>2, <2>1 DEF Nodes, DecoupledEach
<1> HIDE DEF us
<1>5. UNION LabelSets(gs[1]) = X \union {t, r}
  OBVIOUS
<1>6. t \notin X /\ r \notin X /\ 1 \in DOMAIN us
  BY <1>2
<1> HIDE DEF X
<1> SUFFICES ASSUME NEW P, IsPartition(P, X \union {t, r}), AgreesOn(Nodes(gs), P),
                    CutTogether(P, m, k + 1)
             PROVE  Recouples(trees, P, m, k + 1)
  BY <1>5 DEF CanRecouple
<1> DEFINE Q == Couple(P, t, r)
<1>7. {r} \in P => {t} \in P
  <2>1. k + 1 \in 1..k + 1
    OBVIOUS
  <2> QED BY <2>1 DEF CutTogether, CutWith
<1>8. SolvesDecoupled(us, n, t, r, X, P)
  BY <1>1, <1>3, <1>4, <1>6, <1>7 DEF SolvesDecoupled
<1>9. IsPartition(Q, X) /\ AgreesOn(us, Q)
  BY <1>8, CoupleAgrees
<1>10. ASSUME NEW j \in 1..k
       PROVE  CutWith(Q, ClusterRoot(m, j), ClusterTerminal(m, j))
  <2>1. PICK s : s = ClusterRoot(m, j)
    OBVIOUS
  <2>2. PICK q : q = ClusterTerminal(m, j)
    OBVIOUS
  <2>3. j \in 1..k + 1 /\ s \notin n
    BY <2>1
  <2>4. CutWith(P, s, q)
    BY <2>1, <2>2, <2>3 DEF CutTogether
  <2>5. s # t /\ s # r /\ q # t /\ q # r
    BY <2>1, <2>2 DEF ClusterTerminal, ClusterRoot
  <2>6. CutWith(Couple(P, t, r), s, q)
    BY <1>8, <2>3, <2>4, <2>5, CoupleKeepsCuts
  <2> QED BY <2>1, <2>2, <2>6
<1> HIDE DEF Q
<1>11. Recouples(trees, Q, m, k)
  BY <1>9, <1>10 DEF CanRecouple, CutTogether, us, X
<1>12. CoupleAll(P, m, k + 1) = CoupleAll(Q, m, k)
  BY CoupleLastFirst DEF Q
<1> QED BY <1>11, <1>12 DEF Recouples

(* A root that is alone in its cluster has its terminal alone in another.  *)
RootsTogether(c, s) ==
  \A j, k \in DOMAIN c : \A r \in c[j].roots :
    {r} \in s[j] /\ r - 1 \in c[k].terminals => {r - 1} \in s[k]

(* The clusters c with the labels made for k points. *)
AreSplit(fs, c, roots, terminals, m, k) ==
  /\ 1 \in DOMAIN fs /\ \A i \in DOMAIN fs : IsForest(fs[i])
  /\ AreClusters(fs, c)
  /\ \A q \in DOMAIN c : /\ DOMAIN c[q].trees = DOMAIN fs
                          /\ c[q].roots = roots \intersect LabelsOf(c[q].trees[1])
                          /\ c[q].terminals = terminals \intersect LabelsOf(c[q].trees[1])
  /\ \A j \in 1..k : /\ ClusterRoot(m, j) \in roots
                      /\ ClusterTerminal(m, j) \in terminals
                      /\ ClusterTerminal(m, j) \in UNION LabelSets(fs[1])

(* Solutions of the clusters couple to one of the trees. *)
LEMMA MergedRecouples ==
  ASSUME NEW trees, NEW m \in Nat, NEW k \in Nat, NEW fs, NEW c, NEW roots, NEW terminals,
         AreSplit(fs, c, roots, terminals, m, k), CanRecouple(trees, fs, m, k),
         NEW s, AreSolutions(c, s), RootsTogether(c, s)
  PROVE  Recouples(trees, Merged(s), m, k)
<1> USE DEF AreSplit
<1> DEFINE M == Merged(s)
<1>1. IsPartition(M, UNION LabelSets(fs[1])) /\ AgreesOn(Nodes(fs), M)
  BY MergedAgrees DEF Nodes
<1>2. ASSUME NEW j \in 1..k
      PROVE  CutWith(M, ClusterRoot(m, j), ClusterTerminal(m, j))
  <2>1. PICK r : r = ClusterRoot(m, j)
    OBVIOUS
  <2>2. PICK t : t = ClusterTerminal(m, j)
    OBVIOUS
  <2>3. t = r - 1
    BY <2>1, <2>2 DEF ClusterRoot, ClusterTerminal
  <2>4. ASSUME {r} \in M  PROVE {t} \in M
    <3>1. PICK p \in DOMAIN c : {r} \in s[p]
      BY <2>4, InMerged DEF AreSolutions
    <3>2. r \in LabelsOf(c[p].trees[1])
      BY <3>1 DEF AreSolutions, Solves, IsPartition
    <3>3. r \in c[p].roots
      BY <2>1, <3>2
    <3>4. PICK u \in fs[1] : t \in LabelsOf(u)
      BY <2>2 DEF LabelSets
    <3>5. PICK q \in DOMAIN c : c[q].trees[1] = u
      BY DEF AreClusters
    <3>6. t \in c[q].terminals
      BY <2>2, <3>4, <3>5
    <3>7. {t} \in s[q]
      BY <2>3, <3>1, <3>3, <3>6 DEF RootsTogether
    <3> QED BY <3>7, InMerged DEF AreSolutions
  <2> QED BY <2>1, <2>2, <2>4 DEF CutWith
<1> HIDE DEF M
<1>3. CutTogether(M, m, k)
  BY <1>2 DEF CutTogether
<1> QED BY <1>1, <1>3 DEF CanRecouple, M

(* A single cluster. *)
LEMMA AloneRecouples ==
  ASSUME NEW trees, NEW m, NEW s, AreSolutions(<<WholeInstance(trees)>>, s)
  PROVE  Recouples(trees, Merged(s), m, 0)
<1> DEFINE c == <<WholeInstance(trees)>>
<1>1. DOMAIN c = {1} /\ c[1].trees = trees
  BY DEF WholeInstance
<1>2. DOMAIN s = {1} /\ Solves(c[1], s[1])
  BY <1>1 DEF AreSolutions
<1>3. Merged(s) = s[1]
  BY <1>2 DEF Merged
<1> HIDE DEF c
<1> QED BY <1>1, <1>2, <1>3, CoupleNone DEF Recouples, Solves
=============================================================================
