--------------------------- MODULE BranchingSolver ---------------------------
(***************************************************************************)
(* The search loop of src/src/Solver/BranchingSolver.cpp.  Rules are       *)
(* applied to the instance, one at a time, until a rule ends the branch;   *)
(* then they are unapplied up to the last branching rule that has branches *)
(* left.  The best branch is kept as a copy and applied again at the end.  *)
(* Meanwhile a signal may arrive, the deadline may pass, and the thread    *)
(* that computes lower bounds may raise the certified threshold.           *)
(*                                                                         *)
(* The rules are a parameter: MafRules gives those of the program,         *)
(* MCBranchingSolver small search trees.  Weights are doubled, so that the *)
(* half a cluster root is worth is an integer.                             *)
(***************************************************************************)
EXTENDS Integers, Sequences

CONSTANTS
  Instances,             \* the instances to solve
  Configurations(_),     \* how an instance may be solved
  FirstApplicable(_, _, _, _),  \* the rules that activeRules may yield: of a
                         \*   configuration for an instance, an incumbent
                         \*   weight and a size limit
  MaxBranch(_),          \* the number of branches of a rule; 1 if it is none
  Apply(_, _, _),        \* what AbstractRule::apply may do to an instance:
                         \*   the outcomes of a rule in one of its branches
  Weight(_),             \* Context::weightFunction of the first forest
  Optimum(_),            \* the least weight of a solution of an instance
  Seeds(_, _),           \* the branches seedSolution may be given before an
                         \*   instance is solved as configured, <<>> if none
  Thresholds,            \* the values certifiedThreshold may take
  Unbounded,             \* the weight of no solution: infinity
  ClockCheckStride       \* kClockCheckStride

ASSUME SolverAssumption == ClockCheckStride \in Nat

VARIABLES
  config,          \* the configuration, and whether setDeadline was called
  original,        \* the instance as given
  instance,        \* the instance, with the applied rules applied
  appliedRules,    \* the rules of the current branch and the instance before
  applyNext,       \* the queue of suggested rules
  solutionBranch,  \* the best branch found
  best,            \* Context::bestSolutionWeight
  maxSize,         \* Context::maxSolutionSize
  pc,              \* "head", "apply", "rollback", "replay" or "done"
  replayed,        \* how much of solutionBranch is applied again
  result,          \* what solve() returns
  timeoutFlag,     \* set by the signal handler
  clock,           \* whether the deadline has passed
  deadlinePassed, clockCheckCountdown,
  threshold,       \* Context::certifiedThreshold
  stopped,         \* auxiliary: why the search stopped
  afterSignal,     \* auxiliary: the rules applied with a solution at hand
  afterDeadline    \*   since SIGTERM, and since the deadline

search == <<instance, appliedRules, applyNext>>
incumbent == <<solutionBranch, best>>
timing == <<deadlinePassed, clockCheckCountdown>>
lateness == <<afterSignal, afterDeadline>>
environment == <<timeoutFlag, clock, threshold>>
vars == <<config, original, search, incumbent, maxSize, pc, replayed, result, timing,
          environment, stopped, lateness>>

(* A rule as it is queued: the branch is the number of branches entered. *)
Entry(rule, branch) == [rule |-> rule, branch |-> branch]

(***************************************************************************)
(* seedSolution stores a branch that was rolled back off the instance.     *)
(***************************************************************************)
Init ==
  /\ original \in Instances
  /\ config \in Configurations(original)
  /\ instance = original
  /\ appliedRules = <<>> /\ applyNext = <<>>
  /\ \E seed \in Seeds(config, original) :
       /\ solutionBranch = seed.branch
       /\ best = IF seed.branch = <<>> THEN Unbounded ELSE seed.weight
  /\ maxSize = 1
  /\ pc = "head" /\ replayed = 0 /\ result = FALSE
  /\ timeoutFlag = FALSE /\ clock = FALSE
  /\ deadlinePassed = FALSE /\ clockCheckCountdown = 0
  /\ threshold = -1
  /\ stopped = "no" /\ afterSignal = 0 /\ afterDeadline = 0

-----------------------------------------------------------------------------
HasSolution == solutionBranch # <<>>

(* A slip: the signal is looked at only when the clock is read. *)
KnownAtNextRead == deadlinePassed \/ (timeoutFlag /\ clockCheckCountdown = 0)

(* timeExpired, before the clock: the signal is honoured on every call. *)
KnownExpired == timeoutFlag \/ deadlinePassed

(* timeExpired: its verdict, and the throttled read of the clock. *)
TimeExpired ==
  \/ KnownExpired
  \/ config.deadline /\ clockCheckCountdown = 0 /\ clock

ReadClock ==
  IF KnownExpired \/ ~config.deadline
  THEN UNCHANGED timing
  ELSE IF clockCheckCountdown = 0
       THEN /\ clockCheckCountdown' = ClockCheckStride
            /\ deadlinePassed' = clock
       ELSE /\ clockCheckCountdown' = clockCheckCountdown - 1
            /\ UNCHANGED deadlinePassed

(* Without a solution the search goes on, whatever the time. A slip: it stops. *)
OutOfTimeAnyway == TimeExpired

OutOfTime == TimeExpired /\ HasSolution

(* A slip: the cuts are compared with a threshold of components. *)
CertifiedCuts == config.certifiedEarlyExit /\ HasSolution /\ best - 2 <= threshold

Certified == config.certifiedEarlyExit /\ HasSolution /\ best <= threshold

(* A slip: the rules are dropped, not unapplied. *)
UnwindByClearing ==
  /\ appliedRules' = <<>> /\ applyNext' = <<>>
  /\ UNCHANGED instance

(* unwindAppliedRules *)
Unwind ==
  /\ instance' = IF appliedRules = <<>> THEN instance ELSE appliedRules[1].before
  /\ appliedRules' = <<>>
  /\ applyNext' = <<>>

(* calculationFinished: bounded search starts over with a larger limit. *)
Finish(why) ==
  IF config.boundedDepthSearch
  THEN /\ maxSize' = maxSize + 1
       /\ pc' = "head"
       /\ UNCHANGED stopped
  ELSE /\ pc' = "replay"
       /\ stopped' = why
       /\ UNCHANGED maxSize

(* The top of the loop: stop, or go on with the next rule. *)
Stop ==
  /\ pc = "head"
  /\ OutOfTime \/ Certified
  /\ ReadClock
  /\ Unwind
  /\ pc' = "replay"
  /\ stopped' = IF TimeExpired THEN "time" ELSE "certified"
  /\ UNCHANGED <<config, original, incumbent, maxSize, replayed, result, environment, lateness>>

GoOn ==
  /\ pc = "head"
  /\ ~OutOfTime /\ ~Certified
  /\ ReadClock
  /\ pc' = "apply"
  /\ UNCHANGED <<config, original, search, incumbent, maxSize, replayed, result,
                 environment, stopped, lateness>>

(* The rule to apply: the front of the queue, or the first applicable one. *)
NextEntries ==
  IF applyNext # <<>>
  THEN {Head(applyNext)}
  ELSE {Entry(r, 0) : r \in FirstApplicable(config, instance, best, maxSize)}

(* With a solution at hand, the search should have stopped. *)
StopSignalled == HasSolution /\ timeoutFlag
StopDue == HasSolution /\ config.deadline /\ clock

(* e is applied with the outcome o: for a branching rule, its next branch. *)
ApplyEntry(e, o) ==
  /\ instance' = o.instance
  /\ appliedRules' = Append(appliedRules,
       [rule |-> e.rule, branch |-> e.branch + 1, before |-> instance])
  /\ applyNext' = (IF applyNext = <<>> THEN <<>> ELSE Tail(applyNext))
                    \o [k \in DOMAIN o.suggestion |-> Entry(o.suggestion[k], 0)]
  /\ afterSignal' = afterSignal + (IF StopSignalled THEN 1 ELSE 0)
  /\ afterDeadline' = afterDeadline + (IF StopDue THEN 1 ELSE 0)

(* Slips: any candidate as good is taken; a clone starts at its first branch. *)
TakeEqualCandidate ==
  IF Weight(instance') <= best
  THEN /\ best' = Weight(instance')
       /\ solutionBranch' = [k \in DOMAIN appliedRules' |->
            Entry(appliedRules'[k].rule, appliedRules'[k].branch)]
  ELSE UNCHANGED incumbent

CopyFirstBranches ==
  IF Weight(instance') < best
  THEN /\ best' = Weight(instance')
       /\ solutionBranch' = [k \in DOMAIN appliedRules' |->
            Entry(appliedRules'[k].rule, 1)]
  ELSE UNCHANGED incumbent

(* checkSolutionCandidate, for the instance and rules after the last one. *)
CheckSolutionCandidate ==
  IF Weight(instance') < best
  THEN /\ best' = Weight(instance')
       /\ solutionBranch' = [k \in DOMAIN appliedRules' |->
            Entry(appliedRules'[k].rule, appliedRules'[k].branch)]
  ELSE UNCHANGED incumbent

Continue(o) ==
  /\ o.code \in {"Continue", "ContinueWithRuleSuggestion"}
  /\ pc' = "head"
  /\ UNCHANGED <<incumbent, result, stopped, maxSize>>

Candidate(o) ==
  /\ o.code = "EndBranchWithSolutionCandidate"
  /\ IF config.boundedDepthSearch
     THEN pc' = "done" /\ result' = TRUE /\ UNCHANGED incumbent
     ELSE pc' = "rollback" /\ CheckSolutionCandidate /\ UNCHANGED result
  /\ UNCHANGED <<stopped, maxSize>>

CutBranch(o) ==
  /\ o.code = "CutBranch"
  /\ pc' = "rollback"
  /\ UNCHANGED <<incumbent, result, stopped, maxSize>>

(* The applied rules are not unwound. *)
ImidateReturn(o) ==
  /\ o.code = "ImidateReturn"
  /\ Finish("return")
  /\ UNCHANGED <<incumbent, result>>

ApplyRule ==
  /\ pc = "apply"
  /\ \E e \in NextEntries : \E o \in Apply(instance, e.rule, e.branch + 1) :
       /\ ApplyEntry(e, o)
       /\ \/ Continue(o)
          \/ Candidate(o)
          \/ CutBranch(o)
          \/ ImidateReturn(o)
  /\ UNCHANGED <<config, original, replayed, timing, environment>>

-----------------------------------------------------------------------------
(* rollBackBranch *)

(* A slip: the last branch is never entered. *)
OpenButLast == {k \in DOMAIN appliedRules :
                  appliedRules[k].branch + 1 < MaxBranch(appliedRules[k].rule)}

(* The applied branching rules that still have a branch to explore. *)
Open == {k \in DOMAIN appliedRules :
           appliedRules[k].branch < MaxBranch(appliedRules[k].rule)}

(* A slip: the branching rule is unapplied but stays among the applied. *)
ReopenKeepingRule(k) ==
  /\ instance' = appliedRules[k].before
  /\ appliedRules' = SubSeq(appliedRules, 1, k)
  /\ applyNext' = <<Entry(appliedRules[k].rule, appliedRules[k].branch)>>

Reopen(k) ==
  /\ instance' = appliedRules[k].before
  /\ appliedRules' = SubSeq(appliedRules, 1, k - 1)
  /\ applyNext' = <<Entry(appliedRules[k].rule, appliedRules[k].branch)>>

(* The branching rule is queued, to be applied again in its next branch. *)
EnterNextBranch ==
  /\ pc = "rollback"
  /\ ~OutOfTime
  /\ \E k \in Open : (\A j \in Open : j <= k) /\ Reopen(k)
  /\ ReadClock
  /\ pc' = "head"
  /\ UNCHANGED <<config, original, incumbent, maxSize, replayed, result, environment,
                 stopped, lateness>>

RollBackAll ==
  /\ pc = "rollback"
  /\ OutOfTime \/ Open = {}
  /\ ReadClock
  /\ Unwind
  /\ Finish(IF OutOfTime THEN "time" ELSE "explored")
  /\ UNCHANGED <<config, original, incumbent, replayed, result, environment, lateness>>

-----------------------------------------------------------------------------
(* The solution branch is applied again; return codes are ignored. *)
Replay ==
  /\ pc = "replay" /\ replayed < Len(solutionBranch)
  /\ LET e == solutionBranch[replayed + 1]
     IN  \E o \in Apply(instance, e.rule, e.branch) :
           /\ instance' = o.instance
           /\ appliedRules' = Append(appliedRules,
                [rule |-> e.rule, branch |-> e.branch, before |-> instance])
  /\ replayed' = replayed + 1
  /\ UNCHANGED <<config, original, applyNext, incumbent, maxSize, pc, result, timing,
                 environment, stopped, lateness>>

Return ==
  /\ pc = "replay" /\ replayed = Len(solutionBranch)
  /\ pc' = "done"
  /\ result' = HasSolution
  /\ UNCHANGED <<config, original, search, incumbent, maxSize, replayed, timing,
                 environment, stopped, lateness>>

Solve ==
  \/ Stop \/ GoOn \/ ApplyRule \/ EnterNextBranch \/ RollBackAll
  \/ Replay \/ Return

-----------------------------------------------------------------------------
(* The signal handler, the clock and the thread of the lower bounds. *)

solver == <<config, original, search, incumbent, maxSize, pc, replayed, result, timing,
            stopped, lateness>>

Sigterm ==
  /\ ~timeoutFlag /\ pc # "done"
  /\ timeoutFlag' = TRUE
  /\ UNCHANGED <<solver, clock, threshold>>

DeadlinePasses ==
  /\ config.deadline /\ ~clock /\ pc # "done"
  /\ clock' = TRUE
  /\ UNCHANGED <<solver, timeoutFlag, threshold>>

RaiseThreshold ==
  /\ config.certifiedEarlyExit /\ pc # "done"
  /\ \E t \in Thresholds : t > threshold /\ threshold' = t
  /\ UNCHANGED <<solver, timeoutFlag, clock>>

Next == Solve \/ Sigterm \/ DeadlinePasses \/ RaiseThreshold

(* The search is one thread that nothing blocks. *)
Spec == Init /\ [][Next]_vars /\ WF_vars(Solve)

-----------------------------------------------------------------------------
IsSeq(s) == s \in Seq({s[k] : k \in DOMAIN s})

TypeOK ==
  /\ {config.boundedDepthSearch, config.certifiedEarlyExit, config.deadline} \subseteq BOOLEAN
  /\ IsSeq(appliedRules) /\ IsSeq(applyNext) /\ IsSeq(solutionBranch)
  /\ pc \in {"head", "apply", "rollback", "replay", "done"}
  /\ maxSize \in Nat \ {0}
  /\ replayed \in 0..Len(solutionBranch)
  /\ clockCheckCountdown \in 0..ClockCheckStride
  /\ {result, timeoutFlag, clock, deadlinePassed} \subseteq BOOLEAN
  /\ stopped \in {"no", "time", "certified", "explored", "return"}
  /\ afterSignal \in Nat /\ afterDeadline \in Nat

(* Applying rule k of the branch to the instance before it may give j. *)
Leads(k, j) ==
  \E o \in Apply(appliedRules[k].before, appliedRules[k].rule, appliedRules[k].branch) :
     o.instance = j

(***************************************************************************)
(* The applied rules lead from the original instance to the present one.   *)
(* A rule popped without being unapplied, or unapplied and kept, would     *)
(* break it, and unapplyReductions would then undo the wrong rules.        *)
(***************************************************************************)
StackIsPath ==
  IF appliedRules = <<>>
  THEN instance = original
  ELSE /\ appliedRules[1].before = original
       /\ \A k \in 1..Len(appliedRules) - 1 : Leads(k, appliedRules[k+1].before)
       /\ Leads(Len(appliedRules), instance)

(***************************************************************************)
(* The replay of the best branch begins on the original instance: however  *)
(* the search was left -- signal, deadline, certificate, nothing left to   *)
(* explore -- the branch in progress is off the instance ("the instance    *)
(* must be back to its pristine state first, or the replay corrupts the    *)
(* tree").  DebugAssertFalseRule's ImidateReturn is the exception.         *)
(***************************************************************************)
ReplayIsPristine ==
  pc = "replay" /\ replayed = 0 /\ stopped # "return" =>
    instance = original /\ appliedRules = <<>>

(***************************************************************************)
(* A rule that does not end its branch early does the same to the instance *)
(* whenever it is applied to it in that branch, the order in which the hash *)
(* set of SingleVertexTreePropagationRule yields its labels included: the  *)
(* replay, which ignores return codes, relies on it.                       *)
(***************************************************************************)
RulesRepeat ==
  pc = "apply" => \A e \in NextEntries :
    \E outcomes \in {Apply(instance, e.rule, e.branch + 1)} :
      \A o \in outcomes : o.code \notin {"CutBranch", "ImidateReturn"} =>
        \A p \in outcomes : p.instance = o.instance

Continues(o) == o.code \in {"Continue", "ContinueWithRuleSuggestion"}
IsCandidate(o) == o.code = "EndBranchWithSolutionCandidate"

(* A solution of weight w is no use: not better, or above the size limit. *)
OutOfReach(w) == IF config.boundedDepthSearch THEN w > 2 * maxSize ELSE w >= best

(* No solution is made up: what comes of the instance is no better than it  *)
(* allows and, in a bounded search, of whole components within the limit.   *)
NoBetter(o) ==
  /\ Continues(o) => Optimum(o.instance) >= Optimum(instance)
  /\ IsCandidate(o) => Weight(o.instance) >= Optimum(instance)
  /\ config.boundedDepthSearch =>
       /\ o.code # "ImidateReturn"
       /\ IsCandidate(o) => \E k \in 1..maxSize : Weight(o.instance) = 2 * k

(* The best solution of the instance is still to come, or found, or no use. *)
KeepsOptimum(o) ==
  \/ Continues(o) /\ Optimum(o.instance) = Optimum(instance)
  \/ IsCandidate(o) /\ Weight(o.instance) = Optimum(instance)
  \/ o.code = "CutBranch" /\ OutOfReach(Optimum(instance))

(***************************************************************************)
(* The branches of a rule, together, lose no solution that is of use: one  *)
(* of them keeps the best there is, and none claims a better one.          *)
(***************************************************************************)
RulesLoseNothing ==
  pc = "apply" => \A e \in NextEntries :
    /\ \A o \in Apply(instance, e.rule, e.branch + 1) : NoBetter(o)
    /\ e.branch = 0 /\ Optimum(instance) < Unbounded =>
         \E b \in 1..MaxBranch(e.rule) :
           \A o \in Apply(instance, e.rule, b) : KeepsOptimum(o)

HasEntries(b) == \A k \in DOMAIN b : b[k] = Entry(b[k].rule, b[k].branch)

(* Applied to i, the rules of branch give the instances of path. *)
Reproduces(branch, i, path) ==
  /\ path[1] = i
  /\ \A k \in DOMAIN branch :
       \A o \in Apply(path[k], branch[k].rule, branch[k].branch) : o.instance = path[k + 1]

(* One of the paths that may come of it. *)
SomePath(branch, i) ==
  LET path[k \in 1..Len(branch) + 1] ==
        IF k = 1 THEN i
        ELSE (CHOOSE o \in Apply(path[k - 1], branch[k - 1].rule, branch[k - 1].branch) :
                TRUE).instance
  IN  path

(* A branch with its weight or, where a cluster root is alone, a little more. *)
Fits(seed, i, path) ==
  seed.branch # <<>> =>
    /\ HasEntries(seed.branch)
    /\ Reproduces(seed.branch, i, path)
    /\ Weight(path[Len(seed.branch) + 1]) \in Optimum(i)..seed.weight

(***************************************************************************)
(* A seed can be replayed on the instance it is given for, and ends with a *)
(* solution that is no worse than recorded: the search prunes by that      *)
(* record from its first rule on (seedFromApproximation, seedSolution).    *)
(***************************************************************************)
SeedReplays ==
  pc = "head" /\ appliedRules = <<>> /\ applyNext = <<>> =>
    Fits([branch |-> solutionBranch, weight |-> best], original,
         SomePath(solutionBranch, original))

(***************************************************************************)
(* What solve() leaves behind is the incumbent: the branch in progress is  *)
(* gone, the rules applied are those of the best branch, each in the       *)
(* branch it was copied with, and they give a solution of the weight that  *)
(* was recorded.                                                           *)
(***************************************************************************)
ReturnsTheIncumbent ==
  pc = "done" /\ stopped \notin {"no", "return"} =>
    /\ result = HasSolution
    /\ Len(appliedRules) = Len(solutionBranch)
    /\ \A k \in 1..Len(solutionBranch) :
          solutionBranch[k] = Entry(appliedRules[k].rule, appliedRules[k].branch)
    /\ result => Weight(instance) = best

(***************************************************************************)
(* A search that was not interrupted ends with an optimal solution, bounded*)
(* or not: pruning by the incumbent, resuming a branching rule in its next *)
(* branch and dropping the queued suggestions lose nothing.                *)
(***************************************************************************)
ExactWhenExplored ==
  pc = "done" /\ stopped \in {"explored", "no"} =>
    result /\ Weight(instance) = Optimum(original)

(***************************************************************************)
(* An early exit on the lower-bound track returns a solution within the    *)
(* certified threshold, however late the threshold was raised.             *)
(***************************************************************************)
CertifiedIsValid ==
  pc = "done" /\ stopped = "certified" => result /\ Weight(instance) <= threshold

(***************************************************************************)
(* Once there is a solution, the search applies at most one more rule      *)
(* after SIGTERM, whether or not it has a deadline too ("SIGTERM is        *)
(* honoured on every call"), and at most ClockCheckStride + 1 after the    *)
(* deadline, of which it learns only when it reads the clock (timeExpired).*)
(***************************************************************************)
StopsPromptly == afterSignal <= 1 /\ afterDeadline <= ClockCheckStride + 1

(* The incumbent is never given up for a worse one. *)
IncumbentOnlyImproves ==
  [][best' <= best /\ (solutionBranch' # solutionBranch => best' < best)]_vars

(***************************************************************************)
(* solve() returns, with a solution if the search was not aborted: a       *)
(* signal or a deadline before the first candidate does not stop it.       *)
(***************************************************************************)
Answers == <>(pc = "done" /\ (stopped # "return" => result))
=============================================================================
