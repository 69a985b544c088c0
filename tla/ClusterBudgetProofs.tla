------------------------- MODULE ClusterBudgetProofs -------------------------
(***************************************************************************)
(* That the slices of ClusterBudget are fair and add up, for every list of *)
(* weights and every budget.  The sums of the weights are defined by       *)
(* recursion; what is needed of them follows from the least element        *)
(* principle for sets of natural numbers.                                  *)
(***************************************************************************)
EXTENDS ClusterBudget, WellFoundedInduction, TLAPS

(* A set of natural numbers that is not empty has a least element. *)
LEMMA LeastElement ==
  ASSUME NEW S, S \subseteq Nat, S # {}
  PROVE  \E x \in S : \A y \in S : x <= y
<1> DEFINE R == {p \in Nat \X Nat : p[1] < p[2]}
<1>1. IsWellFoundedOn(R, Nat)
  BY NatLessThanWellFounded DEF OpToRel
<1>2. \E x \in S : \A y \in S : ~(<<y, x>> \in R)
  <2> HIDE DEF R
  <2> QED BY <1>1, WFMin
<1>3. \A x, y \in S : ~(<<y, x>> \in R) => x <= y
  <2> TAKE x, y \in S
  <2>1. x \in Nat /\ y \in Nat  OBVIOUS
  <2>2. <<y, x>> \in R <=> y < x  BY <2>1
  <2> QED BY <2>1, <2>2
<1> HIDE DEF R
<1> QED BY <1>2, <1>3

-----------------------------------------------------------------------------
(* The function s obeys the recursion of LastSums up to n. *)
IsSum(s, w, n) ==
  s = [k \in 0..n |-> IF k = 0 THEN 0 ELSE w[Len(w) + 1 - k] + s[k - 1]]

(* There are such sums, by induction on n. *)
LEMMA SumsExist ==
  ASSUME NEW w \in Seq(Nat)
  PROVE  \E s : IsSum(s, w, Len(w))
<1> DEFINE Without == {n \in 0..Len(w) : ~\E s : IsSum(s, w, n)}
<1>1. SUFFICES ASSUME Without # {}  PROVE FALSE
  BY Len(w) \in Nat
<1>2. PICK n \in Without : \A m \in Without : n <= m
  <2>1. Without \subseteq Nat  OBVIOUS
  <2> HIDE DEF Without
  <2> QED BY <1>1, <2>1, LeastElement
<1>3. CASE n = 0
  <2>1. IsSum([k \in 0..0 |-> 0], w, 0)
    BY DEF IsSum
  <2> QED BY <1>2, <1>3, <2>1
<1>4. CASE n # 0
  <2>1. n - 1 \in 0..Len(w) /\ n - 1 \notin Without
    BY <1>2, <1>4
  <2>2. PICK s : IsSum(s, w, n - 1)
    BY <2>1
  <2> DEFINE t == [k \in 0..n |-> IF k = n THEN w[Len(w) + 1 - n] + s[n - 1] ELSE s[k]]
  <2>3. \A k \in 0..n : t[k] = IF k = 0 THEN 0 ELSE w[Len(w) + 1 - k] + t[k - 1]
    <3> TAKE k \in 0..n
    <3>1. CASE k = n
      BY <3>1, <1>2, <1>4
    <3>2. CASE k # n
      <4>1. k \in 0..n - 1  BY <3>2, <1>2
      <4>2. s[k] = IF k = 0 THEN 0 ELSE w[Len(w) + 1 - k] + s[k - 1]
        BY <4>1, <2>2 DEF IsSum
      <4>3. k # 0 => k - 1 \in 0..n /\ k - 1 # n
        BY <4>1, <1>2
      <4> QED BY <4>1, <4>2, <4>3, <3>2
    <3> QED BY <3>1, <3>2
  <2>4. IsSum(t, w, n)
    <3> HIDE DEF t
    <3> t = [k \in 0..n |-> t[k]]  BY DEF t
    <3> QED BY <2>3 DEF IsSum
  <2> QED BY <1>2, <2>4
<1> QED BY <1>3, <1>4

(* LastSums obeys its recursion, and sums of natural numbers are natural. *)
LEMMA LastSumsAreSums ==
  ASSUME NEW w \in Seq(Nat)
  PROVE  /\ LastSums(w) \in [0..Len(w) -> Nat]
         /\ LastSums(w)[0] = 0
         /\ \A k \in 1..Len(w) :
              LastSums(w)[k] = w[Len(w) + 1 - k] + LastSums(w)[k - 1]
<1> DEFINE s == LastSums(w)
<1>1. IsSum(s, w, Len(w))
  BY SumsExist DEF LastSums, IsSum
<1> HIDE DEF s
<1>2. \A k \in 0..Len(w) : s[k] = IF k = 0 THEN 0 ELSE w[Len(w) + 1 - k] + s[k - 1]
  BY <1>1 DEF IsSum
<1> DEFINE Bad == {k \in 0..Len(w) : s[k] \notin Nat}
<1>3. Bad = {}
  <2>1. SUFFICES ASSUME Bad # {}  PROVE FALSE
    OBVIOUS
  <2>2. PICK k \in Bad : \A j \in Bad : k <= j
    <3>1. Bad \subseteq Nat  OBVIOUS
    <3> HIDE DEF Bad
    <3> QED BY <2>1, <3>1, LeastElement
  <2>3. k # 0
    BY <2>2, <1>2
  <2>4. k - 1 \in 0..Len(w) /\ k - 1 \notin Bad
    BY <2>2, <2>3
  <2>5. w[Len(w) + 1 - k] \in Nat
    BY <2>2, <2>3
  <2> QED BY <2>2, <2>3, <2>4, <2>5, <1>2
<1>4. s = [k \in 0..Len(w) |-> s[k]]
  BY <1>1 DEF IsSum
<1>5. s \in [0..Len(w) -> Nat]
  BY <1>3, <1>4
<1> QED BY <1>2, <1>5 DEF s

(* The remaining weight loses the weight of the cluster that is solved. *)
LEMMA RemainingWeights ==
  ASSUME NEW w \in Seq(Nat)
  PROVE  /\ \A k \in 1..Len(w) + 1 : RemainingWeight(w, k) \in Nat
         /\ \A k \in 1..Len(w) :
              RemainingWeight(w, k) = w[k] + RemainingWeight(w, k + 1)
         /\ RemainingWeight(w, Len(w) + 1) = 0
<1> DEFINE s == LastSums(w)
<1>1. /\ s \in [0..Len(w) -> Nat] /\ s[0] = 0
      /\ \A k \in 1..Len(w) : s[k] = w[Len(w) + 1 - k] + s[k - 1]
  BY LastSumsAreSums
<1>2. \A k : RemainingWeight(w, k) = s[Len(w) + 1 - k]
  BY DEF RemainingWeight
<1> HIDE DEF s
<1>3. ASSUME NEW k \in 1..Len(w) + 1
      PROVE  RemainingWeight(w, k) \in Nat
  <2>1. Len(w) + 1 - k \in 0..Len(w)  OBVIOUS
  <2> QED BY ZenonT(60), <2>1, <1>1, <1>2
<1>4. ASSUME NEW k \in 1..Len(w)
      PROVE  RemainingWeight(w, k) = w[k] + RemainingWeight(w, k + 1)
  <2> DEFINE j == Len(w) + 1 - k
  <2>1. j \in 1..Len(w) /\ Len(w) + 1 - j = k /\ j - 1 = Len(w) + 1 - (k + 1)
    OBVIOUS
  <2>2. RemainingWeight(w, k) = s[j] /\ RemainingWeight(w, k + 1) = s[j - 1]
    BY <1>2, <2>1
  <2> HIDE DEF j
  <2>3. s[j] = w[Len(w) + 1 - j] + s[j - 1]
    BY <1>1, <2>1
  <2> QED BY <2>1, <2>2, <2>3
<1>5. RemainingWeight(w, Len(w) + 1) = 0
  <2>1. Len(w) + 1 - (Len(w) + 1) = 0  OBVIOUS
  <2> QED BY <2>1, <1>1, <1>2
<1> QED BY <1>3, <1>4, <1>5

-----------------------------------------------------------------------------
(* What remains of the division by a positive number. *)
LEMMA Division ==
  ASSUME NEW a \in Nat, NEW b \in Nat, b > 0
  PROVE  a \div b \in Nat /\ b * (a \div b) <= a /\ a < b * (a \div b) + b
OBVIOUS

(* An inequality may be multiplied by a natural number, *)
LEMMA Scaled ==
  ASSUME NEW a \in Int, NEW b \in Int, NEW c \in Nat, a <= b
  PROVE  c * a <= c * b
OBVIOUS

(* and divided by one. *)
LEMMA Unscaled ==
  ASSUME NEW a \in Int, NEW b \in Int, NEW c \in Nat, c * a < c * b
  PROVE  a < b
BY Scaled

(* A part of a remainder is at most all of it. *)
LEMMA SliceWithin ==
  ASSUME NEW T \in Nat, NEW R \in Nat, NEW w \in Nat, NEW S \in Nat,
         T > 0, w <= T, T * S <= R * w
  PROVE  S <= R
<1>1. R * w <= R * T
  BY Scaled
<1>2. T * S < T * (R + 1)
  BY <1>1
<1>3. S < R + 1
  BY <1>2, Unscaled
<1> QED BY <1>3

(***************************************************************************)
(* The step from one cluster to the next.  Of the budget B, R is left and  *)
(* l is lost; of the whole weight W, T is left and w of the cluster; S is  *)
(* R * w divided by T, rounded down.  If R and l together are at least the *)
(* share of T, then S and l are the share of w but for one tick, and what  *)
(* is left after S is at least the share of what is left after w.          *)
(***************************************************************************)
LEMMA Shares ==
  ASSUME NEW T \in Nat, NEW R \in Nat, NEW w \in Nat, NEW S \in Nat,
         NEW l \in Nat, NEW W \in Nat, NEW B \in Nat,
         w <= T, T * S <= R * w, R * w < T * S + T, W > 0,
         T * B <= (R + l) * W
  PROVE  /\ w * B < W * (S + l + 1)
         /\ (T - w) * B <= (R - S + l) * W
<1>1. R * w < T * (S + 1) /\ T > 0
  OBVIOUS
<1>2. w * B < W * (S + l + 1)
  <2>1. w * (T * B) <= w * ((R + l) * W)
    BY Scaled
  <2>2. w * l <= T * l
    BY Scaled
  <2>3. w * (R + l) + 1 <= T * (S + l + 1)
    BY <1>1, <2>2
  <2>4. W * (w * (R + l) + 1) <= W * (T * (S + l + 1))
    BY <2>3, Scaled
  <2>5. W * (w * (R + l)) < W * (T * (S + l + 1))
    BY <2>4
  <2>6. /\ T * (w * B) = w * (T * B)
        /\ w * ((R + l) * W) = W * (w * (R + l))
        /\ W * (T * (S + l + 1)) = T * (W * (S + l + 1))
    OBVIOUS
  <2>7. T * (w * B) < T * (W * (S + l + 1))
    BY <2>1, <2>5, <2>6
  <2> QED BY <2>7, Unscaled
<1>3. (T - w) * B <= (R - S + l) * W
  <2>1. R * (T - w) <= T * (R - S)
    OBVIOUS
  <2>2. (T - w) * l <= T * l
    BY Scaled
  <2>3. (T - w) * (R + l) <= T * (R - S + l)
    BY <2>1, <2>2
  <2>4. (T - w) * (T * B) <= (T - w) * ((R + l) * W)
    BY Scaled
  <2>5. W * ((T - w) * (R + l)) <= W * (T * (R - S + l))
    BY <2>3, Scaled
  <2>6. T * ((T - w) * B) <= T * ((R - S + l) * W)
    BY <2>4, <2>5
  <2>7. (R - S + l) * W < (T - w) * B => (R - S + l) * W + 1 <= (T - w) * B
    OBVIOUS
  <2>8. (R - S + l) * W + 1 <= (T - w) * B =>
          T * ((R - S + l) * W + 1) <= T * ((T - w) * B)
    BY Scaled
  <2> QED BY <1>1, <2>6, <2>7, <2>8
<1> QED BY <1>2, <1>3

-----------------------------------------------------------------------------
(* The weight that WholeWeight has left at the cluster k. *)
WeightFrom(k) ==
  IF AllZero THEN Len(weights) + 1 - k ELSE RemainingWeight(weights, k)

SomeWeights == weights \in Seq(Nat) /\ Len(weights) >= 1

(* The whole is positive and loses the weight of one cluster after another. *)
LEMMA WeightsLeft ==
  ASSUME SomeWeights
  PROVE  /\ WholeWeight \in Nat /\ WholeWeight > 0 /\ WeightFrom(1) = WholeWeight
         /\ WeightFrom(Len(weights) + 1) = 0
         /\ \A k \in 1..Len(weights) + 1 : WeightFrom(k) \in Nat
         /\ \A k \in 1..Len(weights) :
              /\ WeightOf(k) \in Nat
              /\ WeightFrom(k) = WeightOf(k) + WeightFrom(k + 1)
<1> DEFINE n == Len(weights)
           r(k) == RemainingWeight(weights, k)
<1>1. n \in Nat /\ n >= 1 /\ \A k \in 1..n : weights[k] \in Nat
  BY DEF SomeWeights
<1>2. /\ \A k \in 1..n + 1 : r(k) \in Nat
      /\ \A k \in 1..n : r(k) = weights[k] + r(k + 1)
      /\ r(n + 1) = 0
  BY RemainingWeights DEF SomeWeights
<1>3. AllZero <=> r(1) = 0
  BY DEF AllZero
<1>4. \A k \in 1..n + 1 : WeightFrom(k) = IF AllZero THEN n + 1 - k ELSE r(k)
  BY DEF WeightFrom
<1>5. WholeWeight = IF AllZero THEN n ELSE r(1)
  BY DEF WholeWeight
<1>6. \A k \in 1..n : WeightOf(k) = IF AllZero THEN 1 ELSE weights[k]
  BY DEF WeightOf
<1> HIDE DEF n, r
<1>7. 1 \in 1..n + 1 /\ n + 1 \in 1..n + 1
  BY <1>1
<1>8. r(1) \in Nat
  BY <1>2, <1>7
<1>9. \A k \in 1..n : k \in 1..n + 1 /\ k + 1 \in 1..n + 1
  BY <1>1
<1>10. WholeWeight \in Nat /\ WholeWeight > 0 /\ WeightFrom(1) = WholeWeight
  BY <1>1, <1>3, <1>4, <1>5, <1>7, <1>8
<1>11. WeightFrom(n + 1) = 0
  BY <1>1, <1>2, <1>4, <1>7
<1>12. \A k \in 1..n + 1 : WeightFrom(k) \in Nat
  BY <1>1, <1>2, <1>4
<1>13. \A k \in 1..n : /\ WeightOf(k) \in Nat
                        /\ WeightFrom(k) = WeightOf(k) + WeightFrom(k + 1)
  BY <1>1, <1>2, <1>4, <1>6, <1>9
<1> QED BY <1>10, <1>11, <1>12, <1>13 DEF n

(* What a slice is: by weight while there is weight left, else by count. *)
LEMMA SliceFacts ==
  ASSUME SomeWeights, end \in Nat,
         NEW k \in 1..Len(weights), NEW t \in Nat
  PROVE  LET S == Slice(k, t)  R == end - t  T == WeightFrom(k)  w == WeightOf(k)
         IN  /\ S \in Nat
             /\ R <= 0 => S = 0
             /\ R > 0 => S <= R /\ (k = Len(weights) => S = R)
             /\ R > 0 /\ T > 0 => T * S <= R * w /\ R * w < T * S + T
<1> DEFINE n == Len(weights)
           r == RemainingWeight(weights, k)
           R == end - t
           T == WeightFrom(k)
           w == WeightOf(k)
<1>1. n \in Nat /\ k \in 1..n /\ n + 1 - k \in Nat /\ n + 1 - k > 0
      /\ k \in 1..n + 1 /\ k + 1 \in 1..n + 1
  BY DEF SomeWeights
<1>2. weights[k] \in Nat
  BY DEF SomeWeights
<1>3. /\ w \in Nat /\ T \in Nat /\ WeightFrom(k + 1) \in Nat
      /\ T = w + WeightFrom(k + 1) /\ WeightFrom(n + 1) = 0
  BY <1>1, WeightsLeft
<1>4. r \in Nat
  BY <1>1, RemainingWeights DEF SomeWeights
<1>5. Slice(k, t) = IF t >= end THEN 0
                    ELSE IF r > 0 THEN (R * weights[k]) \div r
                         ELSE R \div (n + 1 - k)
  BY <1>1 DEF Slice
<1>6. ~AllZero => T = r /\ w = weights[k]
  BY DEF WeightFrom, WeightOf
<1>7. AllZero => T = n + 1 - k /\ w = 1
  BY DEF WeightFrom, WeightOf
<1>8. AllZero => r = 0
  <2>1. SUFFICES ASSUME AllZero  PROVE r = 0
    OBVIOUS
  <2> DEFINE f(i) == RemainingWeight(weights, i)
             Heavy == {i \in 1..n : f(i) # 0}
  <2>2. f(1) = 0
    BY <2>1 DEF AllZero
  <2>3. /\ \A i \in 1..n + 1 : f(i) \in Nat
        /\ \A i \in 1..n : f(i) = weights[i] + f(i + 1)
    BY RemainingWeights DEF SomeWeights
  <2>4. \A i \in 1..n : weights[i] \in Nat
    BY DEF SomeWeights
  <2> HIDE DEF f
  <2>5. Heavy = {}
    <3>1. SUFFICES ASSUME Heavy # {}  PROVE FALSE
      OBVIOUS
    <3>2. PICK i \in Heavy : \A j \in Heavy : i <= j
      <4>1. Heavy \subseteq Nat  BY <1>1
      <4> HIDE DEF Heavy
      <4> QED BY <3>1, <4>1, LeastElement
    <3>3. i \in 1..n /\ i # 1 /\ f(i) # 0
      BY <3>2, <2>2
    <3>4. i - 1 \in 1..n /\ i - 1 \notin Heavy /\ i - 1 + 1 = i /\ i \in 1..n + 1
      BY <3>2, <3>3, <1>1
    <3>5. f(i - 1) = 0
      BY <3>4
    <3>6. f(i - 1) = weights[i - 1] + f(i) /\ weights[i - 1] \in Nat /\ f(i) \in Nat
      BY <2>3, <2>4, <3>4
    <3> QED BY <3>3, <3>5, <3>6
  <2> QED BY <2>5, <1>1 DEF f
<1> HIDE DEF n, r, R, T, w
<1>9. R \in Int
  BY DEF R
<1>10. CASE R <= 0
  BY <1>5, <1>10 DEF R, T, w
<1>11. CASE R > 0 /\ T > 0
  <2>1. R \in Nat /\ t < end
    BY <1>9, <1>11 DEF R
  <2>2. R * w \in Nat
    BY <2>1, <1>3
  <2>3. Slice(k, t) = (R * w) \div T
    <3>1. CASE AllZero
      <4>1. R * w = R  BY <3>1, <1>7, <1>9
      <4> QED BY <3>1, <4>1, <1>5, <1>7, <1>8, <2>1
    <3>2. CASE ~AllZero
      BY <3>2, <1>5, <1>6, <1>11, <2>1
    <3> QED BY <3>1, <3>2
  <2> DEFINE S == Slice(k, t)
  <2>4. S \in Nat /\ T * S <= R * w /\ R * w < T * S + T
    BY <2>2, <2>3, <1>3, <1>11, Division
  <2> HIDE DEF S
  <2>5. S <= R
    <3>1. w <= T
      BY <1>3
    <3> QED BY <3>1, <2>1, <2>4, <1>3, <1>11, SliceWithin
  <2>6. ASSUME k = n  PROVE S = R
    <3>1. T = w
      BY <2>6, <1>3
    <3>2. T * R < T * (S + 1)
      BY <3>1, <2>4, <1>3, <2>1
    <3>3. R < S + 1
      BY SMTT(30), <3>2, <1>3, <2>1, <2>4, Unscaled
    <3> QED BY <3>3, <2>5, <2>1, <2>4
  <2> QED BY <1>11, <2>4, <2>5, <2>6 DEF n, R, T, w, S
<1>12. CASE R > 0 /\ ~(T > 0)
  <2>1. R \in Nat /\ t < end /\ r = 0
    BY <1>1, <1>3, <1>4, <1>6, <1>7, <1>9, <1>12 DEF R
  <2>2. Slice(k, t) = R \div (n + 1 - k)
    BY <2>1, <1>5
  <2> DEFINE S == Slice(k, t)
             c == n + 1 - k
  <2>3. S \in Nat /\ c * S <= R /\ R < c * S + c
    BY <2>1, <2>2, <1>1, Division
  <2>4. c \in Nat /\ c >= 1 /\ (k = n => c = 1)
    BY <1>1
  <2> HIDE DEF S, c
  <2>5. S <= c * S
    BY <2>3, <2>4
  <2>6. k = n => S = R
    BY <2>1, <2>3, <2>4
  <2>7. S <= R
    BY <2>1, <2>3, <2>4, <2>5
  <2> QED BY <1>12, <2>3, <2>6, <2>7 DEF n, R, T, w, S
<1> QED BY <1>3, <1>9, <1>10, <1>11, <1>12

-----------------------------------------------------------------------------
TypeInv ==
  /\ weights \in Seq(Nat) /\ end \in Nat /\ now \in Nat /\ lost \in Nat
  /\ index \in 1..Len(weights) + 1 /\ Len(weights) >= 1
  /\ pc \in {"seed", "search", "done"}
  /\ pc \in {"seed", "search"} => index <= Len(weights)

(* The slice is the one of the time at which the search started. *)
SliceGranted == pc = "search" => deadline = DeadlineFor(index, now)

(* What is left, with what was lost, is the share of the clusters left. *)
ShareLeft == WeightFrom(index) * end <= (end - now + lost) * WholeWeight

(* The time used and the time lost are bounded. *)
LossBounded ==
  /\ now <= end + lost
  /\ lost <= (index - 1) * (MaxSeeding + MaxLate)
             + (IF pc = "search" THEN MaxSeeding ELSE 0)

BudgetInv == TypeInv /\ SliceGranted /\ ShareLeft /\ LossBounded

(* The invariant holds at the start. *)
LEMMA BudgetStart == Init => BudgetInv
<1> SUFFICES ASSUME Init  PROVE BudgetInv
  OBVIOUS
<1> USE BudgetAssumption
<1>1. PICK w \in WeightLists : weights = IF w = <<>> THEN <<1>> ELSE w
  BY DEF Init
<1>2. weights \in Seq(Nat) /\ Len(weights) >= 1
  <2>1. CASE w = <<>>
    BY <1>1, <2>1
  <2>2. CASE w # <<>>
    <3>1. w \in Seq(Nat)  OBVIOUS
    <3>2. Len(w) >= 1  BY <3>1, <2>2
    <3> QED BY <3>1, <3>2, <2>2, <1>1
  <2> QED BY <2>1, <2>2
<1>3. end \in Nat /\ now = 0 /\ lost = 0 /\ index = 1 /\ pc = "seed"
  BY DEF Init
<1>4. TypeInv
  BY <1>2, <1>3 DEF TypeInv
<1>5. SliceGranted
  BY <1>3 DEF SliceGranted
<1>6. ShareLeft
  <2>1. WholeWeight \in Nat /\ WeightFrom(index) = WholeWeight
    BY <1>2, <1>3, WeightsLeft DEF SomeWeights
  <2> QED BY <2>1, <1>3 DEF ShareLeft
<1>7. LossBounded
  BY <1>3 DEF LossBounded
<1> QED BY <1>4, <1>5, <1>6, <1>7 DEF BudgetInv

(* What the invariant says of a search that runs. *)
LEMMA SearchFacts ==
  ASSUME BudgetInv, pc = "search"
  PROVE  LET S == deadline - now  w == WeightOf(index)
         IN  /\ S \in Nat /\ deadline \in Nat
             /\ end - now <= 0 => S = 0
             /\ end - now > 0 => S <= end - now /\ (index = Len(weights) => S = end - now)
             /\ w * end < WholeWeight * (S + lost + 1)
             /\ WeightFrom(index + 1) * end <= (end - now - S + lost) * WholeWeight
<1> DEFINE S == Slice(index, now)
           R == end - now
           T == WeightFrom(index)
           w == WeightOf(index)
           W == WholeWeight
<1>1. /\ SomeWeights /\ end \in Nat /\ now \in Nat /\ lost \in Nat
      /\ index \in 1..Len(weights)
  BY DEF BudgetInv, TypeInv, SomeWeights
<1>2. deadline = now + S
  BY DEF BudgetInv, SliceGranted, DeadlineFor
<1>3. /\ S \in Nat
      /\ R <= 0 => S = 0
      /\ R > 0 => S <= R /\ (index = Len(weights) => S = R)
      /\ R > 0 /\ T > 0 => T * S <= R * w /\ R * w < T * S + T
  BY <1>1, SliceFacts
<1>4. index \in 1..Len(weights) + 1
  BY <1>1
<1>5. W \in Nat /\ W > 0 /\ T \in Nat /\ w \in Nat
      /\ WeightFrom(index + 1) = T - w /\ w <= T
  <2>1. index + 1 \in 1..Len(weights) + 1
    BY <1>1 DEF SomeWeights
  <2>2. /\ W \in Nat /\ W > 0 /\ T \in Nat /\ WeightFrom(index + 1) \in Nat
        /\ w \in Nat /\ T = w + WeightFrom(index + 1)
    BY <1>1, <1>4, <2>1, WeightsLeft
  <2> HIDE DEF W, T, w
  <2> QED BY <2>2
<1>6. T * end <= (R + lost) * W
  BY DEF BudgetInv, ShareLeft
<1> HIDE DEF S, R, T, w, W
<1>7. R \in Int
  BY <1>1 DEF R
<1>8. w * end < W * (S + lost + 1) /\ (T - w) * end <= (R - S + lost) * W
  <2>1. CASE R <= 0
    <3>1. S = 0
      BY <2>1, <1>3
    <3>2. W * (R + lost) <= W * lost
      BY <2>1, <1>1, <1>5, <1>7, Scaled
    <3>3. T * end <= W * lost
      BY <3>2, <1>1, <1>5, <1>6, <1>7
    <3>4. end * w <= end * T /\ end * (T - w) <= end * T
      BY <1>1, <1>5, Scaled
    <3>5. W * (0 + lost + 1) = W * lost + W
      BY <1>1, <1>5
    <3>6. w * end = end * w /\ T * end = end * T /\ (T - w) * end = end * (T - w)
      BY <1>1, <1>5
    <3>7. end * w \in Int /\ end * T \in Int /\ W * lost \in Int /\ end * (T - w) \in Int
      BY <1>1, <1>5
    <3>8. w * end < W * (S + lost + 1)
      BY <3>1, <3>3, <3>4, <3>5, <3>6, <3>7, <1>5
    <3>9. (T - w) * end <= (R - S + lost) * W
      <4>1. R - S + lost = R + lost
        BY <3>1, <1>7, <1>1
      <4>2. (R + lost) * W \in Int
        BY <1>1, <1>5, <1>7
      <4> QED BY <4>1, <4>2, <3>4, <3>6, <3>7, <1>6
    <3> QED BY <3>8, <3>9
  <2>2. CASE R > 0 /\ T > 0
    <3>1. R \in Nat
      BY <2>2, <1>7
    <3> QED BY <3>1, <2>2, <1>1, <1>3, <1>5, <1>6, Shares
  <2>3. CASE R > 0 /\ ~(T > 0)
    <3>1. w = 0 /\ T = 0 /\ R \in Nat /\ S <= R
      BY <2>3, <1>3, <1>5, <1>7
    <3>2. R - S + lost \in Nat /\ S + lost + 1 \in Nat /\ S + lost + 1 > 0
      BY <3>1, <1>1, <1>3
    <3>3. (R - S + lost) * W \in Nat /\ W * (S + lost + 1) > 0
      BY <3>2, <1>5
    <3> QED BY <3>1, <3>3, <1>1, <1>5
  <2> QED BY <2>1, <2>2, <2>3, <1>5, <1>7
<1>9. deadline - now = S /\ deadline \in Nat
  BY <1>1, <1>2, <1>3
<1> QED BY <1>3, <1>5, <1>8, <1>9 DEF R, T, w, W

(* A step that changes nothing keeps the invariant. *)
LEMMA BudgetStutters == BudgetInv /\ UNCHANGED vars => BudgetInv'
BY DEF BudgetInv, TypeInv, SliceGranted, DeadlineFor, Slice, ShareLeft,
       WeightFrom, WholeWeight, AllZero, LossBounded, vars

(* The time for the seed is lost, and the slice is granted after it. *)
LEMMA GrantKeepsInv == BudgetInv /\ Grant => BudgetInv'
<1> SUFFICES ASSUME BudgetInv, Grant  PROVE BudgetInv'
  OBVIOUS
<1> USE BudgetAssumption
<1>1. PICK d \in 0..MaxSeeding : now' = now + d /\ lost' = lost + d
  BY DEF Grant
<1>2. /\ pc = "seed" /\ pc' = "search" /\ deadline' = DeadlineFor(index, now')
      /\ weights' = weights /\ end' = end /\ index' = index
  BY DEF Grant
<1>3. TypeInv
  BY DEF BudgetInv
<1>4. TypeInv'
  BY <1>1, <1>2, <1>3 DEF TypeInv
<1>5. SliceGranted'
  BY <1>2 DEF SliceGranted, DeadlineFor, Slice
<1>6. ShareLeft'
  <2>1. end' - now' + lost' = end - now + lost
    BY <1>1, <1>2, <1>3 DEF TypeInv
  <2>2. WeightFrom(index)' = WeightFrom(index) /\ WholeWeight' = WholeWeight
    BY <1>2 DEF WeightFrom, WholeWeight, AllZero
  <2> QED BY <1>2, <2>1, <2>2 DEF BudgetInv, ShareLeft
<1>7. LossBounded'
  BY <1>1, <1>2, <1>3 DEF BudgetInv, LossBounded, TypeInv
<1> QED BY <1>4, <1>5, <1>6, <1>7 DEF BudgetInv

(* What a search does not use of its slice is left to the others. *)
LEMMA SearchKeepsInv == BudgetInv /\ Search => BudgetInv'
<1> SUFFICES ASSUME BudgetInv, Search  PROVE BudgetInv'
  OBVIOUS
<1> USE BudgetAssumption
<1>1. PICK t \in now..deadline + MaxLate :
        now' = t /\ lost' = lost + (IF t > deadline THEN t - deadline ELSE 0)
  BY DEF Search
<1>2. /\ pc = "search" /\ index' = index + 1
      /\ pc' = IF index = Len(weights) THEN "done" ELSE "seed"
      /\ weights' = weights /\ end' = end /\ deadline' = deadline
  BY DEF Search
<1>3. /\ weights \in Seq(Nat) /\ end \in Nat /\ now \in Nat /\ lost \in Nat
      /\ index \in 1..Len(weights) /\ Len(weights) \in Nat
  BY <1>2 DEF BudgetInv, TypeInv
<1> DEFINE S == deadline - now
<1>4. /\ S \in Nat /\ deadline \in Nat
      /\ end - now <= 0 => S = 0
      /\ end - now > 0 => S <= end - now
      /\ WeightFrom(index + 1) * end <= (end - now - S + lost) * WholeWeight
  BY <1>2, SearchFacts
<1>5. WholeWeight \in Nat
  BY <1>3, WeightsLeft DEF SomeWeights
<1>6. t \in Nat /\ lost' \in Nat /\ end - now - S + lost <= end - t + lost'
  BY <1>1, <1>3, <1>4
<1>7. TypeInv'
  BY SMTT(30), <1>1, <1>2, <1>3, <1>6 DEF TypeInv
<1>8. SliceGranted'
  BY <1>2 DEF SliceGranted
<1>9. ShareLeft'
  <2>1. WeightFrom(index)' = WeightFrom(index + 1) /\ WholeWeight' = WholeWeight
    BY <1>2 DEF WeightFrom, WholeWeight, AllZero
  <2>2. WeightFrom(index + 1) \in Nat
    <3>1. index + 1 \in 1..Len(weights) + 1  BY <1>3
    <3> QED BY <1>3, <3>1, WeightsLeft DEF SomeWeights
  <2> DEFINE W == WholeWeight
             a == end - now - S + lost
             b == end - t + lost'
  <2>3. a \in Int /\ b \in Int /\ a <= b
    <3>1. a \in Int  BY <1>3, <1>4
    <3>2. b \in Int  BY <1>3, <1>6
    <3>3. a <= b  BY <1>6
    <3> QED BY <3>1, <3>2, <3>3
  <2> HIDE DEF a, b
  <2>4. a * W <= b * W
    <3>1. W * a <= W * b
      BY <2>3, <1>5, Scaled
    <3> QED BY <3>1, <2>3, <1>5
  <2>5. WeightFrom(index + 1) * end <= a * W
    BY <1>4 DEF a
  <2>6. WeightFrom(index + 1) * end \in Int /\ a * W \in Int /\ b * W \in Int
    BY <2>2, <2>3, <1>3, <1>5
  <2>7. WeightFrom(index + 1) * end <= b * W
    BY <2>4, <2>5, <2>6
  <2>8. b = (end - now + lost)'
    BY <1>1, <1>2 DEF b
  <2> QED BY <2>1, <2>7, <2>8, <1>2 DEF ShareLeft
<1>10. LossBounded'
  <2>1. now' <= end' + lost'
    BY <1>1, <1>2, <1>3, <1>4 DEF BudgetInv, LossBounded
  <2>2. lost <= (index - 1) * (MaxSeeding + MaxLate) + MaxSeeding
    BY <1>2 DEF BudgetInv, LossBounded
  <2>3. lost' <= lost + MaxLate
    BY <1>1, <1>3, <1>4
  <2>4. (index + 1 - 1) * (MaxSeeding + MaxLate)
          = (index - 1) * (MaxSeeding + MaxLate) + (MaxSeeding + MaxLate)
    BY <1>3
  <2>5. (index - 1) * (MaxSeeding + MaxLate) \in Int
    BY <1>3
  <2>6. lost' <= (index + 1 - 1) * (MaxSeeding + MaxLate)
    BY <2>2, <2>3, <2>4, <2>5, <1>3, <1>6
  <2>7. (IF pc' = "search" THEN MaxSeeding ELSE 0) = 0
    BY <1>2
  <2> DEFINE product == (index' - 1) * (MaxSeeding + MaxLate)
  <2>8. product = (index + 1 - 1) * (MaxSeeding + MaxLate) /\ product \in Int
    BY <1>2, <1>3
  <2> HIDE DEF product
  <2>9. lost' <= product + (IF pc' = "search" THEN MaxSeeding ELSE 0)
    <3>1. lost' <= product + 0
      BY <2>6, <2>8
    <3> QED BY <3>1, <2>7
  <2> QED BY <2>1, <2>9 DEF LossBounded, product
<1> QED BY <1>7, <1>8, <1>9, <1>10 DEF BudgetInv

(* The invariant holds in every state of every behaviour. *)
LEMMA BudgetInvariant == Spec => []BudgetInv
<1>1. Init => BudgetInv
  BY BudgetStart
<1>2. BudgetInv /\ [Next]_vars => BudgetInv'
  BY GrantKeepsInv, SearchKeepsInv, BudgetStutters DEF Next
<1> QED BY <1>1, <1>2, PTL DEF Spec

-----------------------------------------------------------------------------
(* A cluster is granted its share of the whole budget, for every list of   *)
(* weights, whatever the clusters before it did (ClusterBudget.cpp).        *)
THEOREM ClustersGetTheirShare == Spec => []NobodyStarves
<1>1. BudgetInv => NobodyStarves
  <2> SUFFICES ASSUME BudgetInv, pc = "search"
               PROVE  WholeWeight * (deadline - now + lost + 1) > WeightOf(index) * end
    BY DEF NobodyStarves
  <2>1. WeightOf(index) * end < WholeWeight * (deadline - now + lost + 1)
    BY SearchFacts
  <2>2. WeightOf(index) \in Nat /\ WholeWeight \in Nat
        /\ lost \in Nat /\ deadline - now \in Nat /\ end \in Nat
    <3>1. SomeWeights /\ index \in 1..Len(weights) /\ lost \in Nat /\ end \in Nat
      BY DEF BudgetInv, TypeInv, SomeWeights
    <3> QED BY <3>1, WeightsLeft, SearchFacts
  <2>3. WeightOf(index) * end \in Nat
        /\ WholeWeight * (deadline - now + lost + 1) \in Nat
    BY <2>2
  <2> QED BY <2>1, <2>3
<1> QED BY <1>1, BudgetInvariant, PTL

(* The loop over the clusters overruns the budget only by what seeding and *)
(* the late reaction of each cluster cost (startSolver.cpp).                *)
THEOREM LoopEndsInTime == Spec => []EndsInTime
<1>1. BudgetInv => EndsInTime
  <2> SUFFICES ASSUME BudgetInv  PROVE EndsInTime
    OBVIOUS
  <2>1. index \in Nat /\ lost \in Nat /\ MaxSeeding \in Nat /\ MaxLate \in Nat
    BY BudgetAssumption DEF BudgetInv, TypeInv
  <2>2. (index - 1) * (MaxSeeding + MaxLate) \in Int
    BY <2>1
  <2> QED BY <2>1, <2>2 DEF BudgetInv, LossBounded, EndsInTime
<1> QED BY <1>1, BudgetInvariant, PTL

(* The last cluster gets all the time left; no deadline is in the past or  *)
(* beyond the budget (ClusterBudget.cpp).                                   *)
THEOREM AllTimeIsGranted == Spec => []NoTimeIsWasted
<1>1. BudgetInv => NoTimeIsWasted
  <2> SUFFICES ASSUME BudgetInv, pc = "search"
               PROVE  /\ now <= deadline
                      /\ IF now >= end THEN deadline = now
                         ELSE deadline <= end /\ (index = Len(weights) => deadline = end)
    BY DEF NoTimeIsWasted
  <2>1. now \in Nat /\ end \in Nat
    BY DEF BudgetInv, TypeInv
  <2>2. /\ deadline - now \in Nat /\ deadline \in Nat
        /\ end - now <= 0 => deadline - now = 0
        /\ end - now > 0 => /\ deadline - now <= end - now
                            /\ index = Len(weights) => deadline - now = end - now
    BY SearchFacts
  <2> QED BY <2>1, <2>2
<1> QED BY <1>1, BudgetInvariant, PTL
=============================================================================
