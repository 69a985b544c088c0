---------------------------- MODULE ClusterBudget ----------------------------
(***************************************************************************)
(* How the heuristic track divides its time between the clusters:          *)
(* src/src/Solver/Cluster/ClusterBudget.cpp, in the loop over the clusters *)
(* of src/src/startSolver.cpp.  A cluster is seeded again if a terminal of *)
(* it was cut since its approximation was computed; then it is granted a   *)
(* slice of the time that is left, by its weight among the clusters not    *)
(* solved yet, and searched.  A search that is done earlier leaves its     *)
(* time to the others; it notices the end of its slice a little late       *)
(* (theorem SearchStopsPromptly of BranchingSolverProofs).                 *)
(*                                                                         *)
(* Time is counted in ticks of the clock, from 0, and a slice is rounded   *)
(* down to a tick as duration_cast does.  Weights are natural numbers:     *)
(* leaves and components.                                                  *)
(***************************************************************************)
EXTENDS Integers, Sequences

CONSTANTS
  WeightLists,  \* the weights given to the constructor
  Budgets,      \* totalSeconds
  MaxSeeding,   \* how long a cluster may take to be seeded again
  MaxLate       \* how late a search may notice its deadline

ASSUME BudgetAssumption ==
  /\ WeightLists \subseteq Seq(Nat) /\ Budgets \subseteq Nat
  /\ MaxSeeding \in Nat /\ MaxLate \in Nat

VARIABLES
  weights,      \* weights_
  end,          \* end_
  index,        \* clusterIndex, from 1
  now,          \* steady_clock::now()
  deadline,     \* of the search that runs
  pc,           \* "seed", "search" or "done"
  lost          \* auxiliary: time spent on seeding and after deadlines

vars == <<weights, end, index, now, deadline, pc, lost>>

-----------------------------------------------------------------------------
(* The sums of the last 0, 1, ... weights. *)
LastSums(w) ==
  LET sum[k \in 0..Len(w)] == IF k = 0 THEN 0 ELSE w[Len(w) + 1 - k] + sum[k - 1]
  IN  sum

(* remainingWeight: of the clusters from k to the last. *)
RemainingWeight(w, k) == LastSums(w)[Len(w) + 1 - k]

(* Slips: all clusters are counted, or those after k; of the whole budget. *)
SliceOfAll(k, t) ==
  IF t >= end THEN 0
  ELSE IF k > Len(weights) THEN end - t
  ELSE IF RemainingWeight(weights, 1) > 0
       THEN ((end - t) * weights[k]) \div RemainingWeight(weights, 1)
       ELSE (end - t) \div (Len(weights) + 1 - k)

SliceOfTotal(k, t) ==
  IF t >= end THEN 0
  ELSE IF k > Len(weights) THEN end - t
  ELSE IF RemainingWeight(weights, k) > 0
       THEN (end * weights[k]) \div RemainingWeight(weights, k)
       ELSE (end - t) \div (Len(weights) + 1 - k)

(* What deadlineFor adds to the time t. *)
Slice(k, t) ==
  IF t >= end THEN 0
  ELSE IF k > Len(weights) THEN end - t
  ELSE IF RemainingWeight(weights, k) > 0
       THEN ((end - t) * weights[k]) \div RemainingWeight(weights, k)
       ELSE (end - t) \div (Len(weights) + 1 - k)

DeadlineFor(k, t) == t + Slice(k, t)
-----------------------------------------------------------------------------
(* An empty instance is treated as a single cluster. *)
Init ==
  /\ \E w \in WeightLists : weights = IF w = <<>> THEN <<1>> ELSE w
  /\ end \in Budgets
  /\ index = 1 /\ now = 0 /\ deadline = 0
  /\ pc = "seed" /\ lost = 0

(* The seed of the cluster, if it is computed again, and its slice. *)
Grant ==
  /\ pc = "seed"
  /\ \E d \in 0..MaxSeeding : now' = now + d /\ lost' = lost + d
  /\ deadline' = DeadlineFor(index, now')
  /\ pc' = "search"
  /\ UNCHANGED <<weights, end, index>>

(* The search is done before its deadline, or it notices that it passed. *)
Search ==
  /\ pc = "search"
  /\ \E t \in now..deadline + MaxLate :
       /\ now' = t
       /\ lost' = lost + (IF t > deadline THEN t - deadline ELSE 0)
  /\ index' = index + 1
  /\ pc' = IF index = Len(weights) THEN "done" ELSE "seed"
  /\ UNCHANGED <<weights, end, deadline>>

Next == Grant \/ Search

Spec == Init /\ [][Next]_vars
-----------------------------------------------------------------------------
(* A share of the whole budget, by weight; if there are only zeros, equal. *)
AllZero == RemainingWeight(weights, 1) = 0
WeightOf(k) == IF AllZero THEN 1 ELSE weights[k]
WholeWeight == IF AllZero THEN Len(weights) ELSE RemainingWeight(weights, 1)

(***************************************************************************)
(* No cluster starves: whatever the clusters before it did with their      *)
(* time, a cluster is granted its share of the whole budget, less what was *)
(* lost on seeding and after deadlines, and less one tick ("so a single    *)
(* hard cluster cannot consume the whole run and starve the rest").        *)
(***************************************************************************)
NobodyStarves ==
  pc = "search" =>
    WholeWeight * (deadline - now + lost + 1) > WeightOf(index) * end

(***************************************************************************)
(* The loop ends in time: all clusters together overrun the budget by what *)
(* the seeding and the late reaction of each cost and by nothing else.     *)
(***************************************************************************)
EndsInTime ==
  now <= end + lost /\ lost <= (index - 1) * (MaxSeeding + MaxLate) + MaxSeeding

(***************************************************************************)
(* No time is left over: the last cluster may use all of it, whatever its  *)
(* weight, and a deadline is neither in the past nor beyond the budget.    *)
(***************************************************************************)
NoTimeIsWasted ==
  pc = "search" =>
    /\ now <= deadline
    /\ IF now >= end THEN deadline = now
       ELSE deadline <= end /\ (index = Len(weights) => deadline = end)
=============================================================================
