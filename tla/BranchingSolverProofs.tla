----------------------- MODULE BranchingSolverProofs -----------------------
(***************************************************************************)
(* What the search loop keeps whatever the rules do: the rules applied lead*)
(* from the original instance to the present one, they are off it before   *)
(* the best branch is replayed, the search stops as soon as it may after a *)
(* signal or a deadline, and the incumbent only improves.                  *)
(*                                                                         *)
(* What the search leaves behind: the incumbent, applied again in full, of *)
(* the weight that was recorded for it.  It rests on two facts about the   *)
(* rules and the seeds that TLC checks for those of the program: a rule    *)
(* does the same when it is applied again (RulesRepeat), and a seed is a   *)
(* branch of the instance it is given for (Fits).                          *)
(***************************************************************************)
EXTENDS BranchingSolver, SequenceTheorems, TLAPS

(* What the proofs need of the types. *)
Shape ==
  /\ IsSeq(appliedRules)
  /\ replayed \in Nat
  /\ pc \in {"head", "apply", "rollback", "replay", "done"}

(* After SIGTERM only the rule chosen already is applied; after the deadline *)
(* also one for every turn that does not read the clock.                    *)
Chosen == IF pc = "apply" THEN 1 ELSE 0
Unread ==
  IF config.deadline /\ ~timeoutFlag /\ ~deadlinePassed THEN clockCheckCountdown ELSE 0

SignalIsBounded ==
  /\ afterSignal \in Nat
  /\ afterSignal + Chosen <= 1
  /\ afterSignal > 0 => StopSignalled

DeadlineIsBounded ==
  /\ afterDeadline \in Nat /\ clockCheckCountdown \in 0..ClockCheckStride
  /\ afterDeadline + Chosen + Unread <= ClockCheckStride + 1
  /\ afterDeadline > 0 => StopDue

-----------------------------------------------------------------------------
(* A sequence is one over the set of its own elements. *)
LEMMA SeqRange ==
  ASSUME NEW S, NEW s \in Seq(S)
  PROVE  IsSeq(s)
  <1>1. /\ DOMAIN s = 1..Len(s) /\ Len(s) \in Nat
        /\ s = [k \in 1..Len(s) |-> s[k]]
    OBVIOUS
  <1>2. \A k \in 1..Len(s) : s[k] \in {s[j] : j \in DOMAIN s}
    BY <1>1
  <1>3. [k \in 1..Len(s) |-> s[k]] \in Seq({s[j] : j \in DOMAIN s})
    BY <1>1, <1>2
  <1> QED BY <1>1, <1>3 DEF IsSeq

LEMMA EmptyIsSeq == IsSeq(<<>>)
  BY DEF IsSeq

(* What a push does to the stack. *)
LEMMA AppendSeq ==
  ASSUME NEW s, NEW e, IsSeq(s)
  PROVE  /\ IsSeq(Append(s, e))
         /\ Len(s) \in Nat /\ Len(Append(s, e)) = Len(s) + 1
         /\ DOMAIN Append(s, e) = 1..(Len(s) + 1)
         /\ \A k \in 1..Len(s) : Append(s, e)[k] = s[k]
         /\ Append(s, e)[Len(s) + 1] = e
  <1> DEFINE S == {s[k] : k \in DOMAIN s} \union {e}
  <1>1. s \in Seq(S) /\ e \in S
    BY DEF IsSeq
  <1>2. Append(s, e) \in Seq(S)
    BY <1>1
  <1>3. IsSeq(Append(s, e))
    BY <1>2, SeqRange
  <1> HIDE DEF S
  <1> QED BY <1>1, <1>2, <1>3

(* What cutting the stack short before position k does. *)
LEMMA PrefixSeq ==
  ASSUME NEW s, IsSeq(s), NEW k \in DOMAIN s
  PROVE  /\ IsSeq(SubSeq(s, 1, k - 1))
         /\ Len(SubSeq(s, 1, k - 1)) = k - 1
         /\ k \in 1..Len(s) /\ Len(s) \in Nat
         /\ \A j \in 1..(k - 1) : SubSeq(s, 1, k - 1)[j] = s[j]
  <1> DEFINE S == {s[j] : j \in DOMAIN s}
  <1>1. s \in Seq(S)
    BY DEF IsSeq
  <1> HIDE DEF S
  <1>2. k \in 1..Len(s) /\ Len(s) \in Nat
    BY <1>1
  <1>3. SubSeq(s, 1, k - 1) \in Seq(S)
    BY <1>1, <1>2
  <1>4. IsSeq(SubSeq(s, 1, k - 1))
    BY <1>3, SeqRange
  <1> QED BY <1>1, <1>2, <1>3, <1>4

-----------------------------------------------------------------------------
(* The stack of applied rules is only ever pushed, cut short or emptied.    *)
Pushed ==
  \E rule, branch :
    /\ appliedRules' = Append(appliedRules,
         [rule |-> rule, branch |-> branch, before |-> instance])
    /\ \E o \in Apply(instance, rule, branch) : instance' = o.instance

CutShort ==
  \E k \in DOMAIN appliedRules :
    /\ appliedRules' = SubSeq(appliedRules, 1, k - 1)
    /\ instance' = appliedRules[k].before

(* Unwinding the whole stack gives the original instance back. *)
LEMMA UnwindIsPristine ==
  ASSUME IsSeq(appliedRules), StackIsPath, Unwind
  PROVE  instance' = original /\ appliedRules' = <<>>
  BY DEF StackIsPath, Unwind

(* Every step of the search pushes a rule, cuts the stack short, unwinds    *)
(* it or leaves it and the instance alone.                                  *)
LEMMA StackStep ==
  ASSUME Shape, StackIsPath, [Next]_vars
  PROVE  /\ original' = original
         /\ \/ Pushed
            \/ CutShort
            \/ Unwind
            \/ UNCHANGED <<instance, appliedRules>>
  <1>1. CASE Stop
    BY <1>1 DEF Stop
  <1>2. CASE GoOn
    BY <1>2 DEF GoOn, search
  <1>3. CASE ApplyRule
    <2>1. PICK e \in NextEntries : \E o \in Apply(instance, e.rule, e.branch + 1) :
                                      ApplyEntry(e, o)
      BY <1>3 DEF ApplyRule
    <2>2. Pushed
      BY <2>1 DEF ApplyEntry, Pushed
    <2> QED BY <1>3, <2>2 DEF ApplyRule
  <1>4. CASE EnterNextBranch
    <2>1. PICK k \in Open : Reopen(k)
      BY <1>4 DEF EnterNextBranch
    <2>2. CutShort
      BY <2>1 DEF Open, Reopen, CutShort
    <2> QED BY <1>4, <2>2 DEF EnterNextBranch
  <1>5. CASE RollBackAll
    BY <1>5 DEF RollBackAll
  <1>6. CASE Replay
    <2>1. Pushed
      BY <1>6 DEF Replay, Pushed
    <2> QED BY <1>6, <2>1 DEF Replay
  <1>7. CASE Return
    BY <1>7 DEF Return, search
  <1>8. CASE Sigterm \/ DeadlinePasses \/ RaiseThreshold
    BY <1>8 DEF Sigterm, DeadlinePasses, RaiseThreshold, solver, search
  <1>9. CASE UNCHANGED vars
    BY <1>9 DEF vars, search
  <1> QED
    BY <1>1, <1>2, <1>3, <1>4, <1>5, <1>6, <1>7, <1>8, <1>9 DEF Next, Solve

(* Applying a rule extends the path from the original instance. *)
LEMMA PushKeepsPath ==
  ASSUME IsSeq(appliedRules), StackIsPath, Pushed, original' = original
  PROVE  IsSeq(appliedRules') /\ StackIsPath'
  <1>1. PICK rule, branch :
          /\ appliedRules' = Append(appliedRules,
               [rule |-> rule, branch |-> branch, before |-> instance])
          /\ \E o \in Apply(instance, rule, branch) : instance' = o.instance
    BY DEF Pushed
  <1> DEFINE n == Len(appliedRules)
             e == [rule |-> rule, branch |-> branch, before |-> instance]
  <1>2. /\ IsSeq(appliedRules')
        /\ n \in Nat /\ Len(appliedRules') = n + 1
        /\ \A k \in 1..n : appliedRules'[k] = appliedRules[k]
        /\ appliedRules'[n + 1] = e
    BY <1>1, AppendSeq
  <1>3. appliedRules' # <<>>
    BY <1>2
  <1>4. Leads(Len(appliedRules), instance)'
    <2>1. \E o \in Apply(e.before, e.rule, e.branch) : o.instance = instance'
      BY <1>1
    <2> HIDE DEF e
    <2>2. \E o \in Apply(appliedRules'[n + 1].before, appliedRules'[n + 1].rule,
                         appliedRules'[n + 1].branch) : o.instance = instance'
      BY <1>2, <2>1
    <2> QED BY <1>2, <2>2 DEF Leads
  <1>5. CASE appliedRules = <<>>
    <2>1. n = 0
      BY <1>5
    <2>2. n + 1 = 1 /\ appliedRules'[1].before = original
      BY <1>2, <1>5, <2>1 DEF StackIsPath
    <2>3. \A k \in 1..Len(appliedRules') - 1 : FALSE
      BY <1>2, <2>1
    <2> QED BY <1>2, <1>3, <1>4, <2>2, <2>3 DEF StackIsPath
  <1>6. CASE appliedRules # <<>>
    <2>1. n >= 1
      BY <1>2, <1>6 DEF IsSeq
    <2>2. appliedRules'[1].before = original
      BY <1>2, <1>6, <2>1 DEF StackIsPath
    <2>3. ASSUME NEW k \in 1..n
          PROVE  Leads(k, appliedRules[k+1].before)'
      <3>1. CASE k < n
        <4>1. Leads(k, appliedRules[k+1].before)
          BY <1>2, <1>6, <3>1 DEF StackIsPath
        <4> QED BY <1>2, <3>1, <4>1 DEF Leads
      <3>2. CASE k = n
        <4>1. Leads(n, instance)
          BY <1>6 DEF StackIsPath
        <4> QED BY <1>2, <3>2, <4>1 DEF Leads
      <3> QED BY <1>2, <3>1, <3>2
    <2>4. Len(appliedRules') - 1 = n
      BY <1>2
    <2> QED BY <1>2, <1>3, <1>4, <2>2, <2>3, <2>4 DEF StackIsPath
  <1> QED BY <1>2, <1>5, <1>6

(* Resuming a branching rule returns to the instance before it. *)
LEMMA CutKeepsPath ==
  ASSUME IsSeq(appliedRules), StackIsPath, CutShort, original' = original
  PROVE  IsSeq(appliedRules') /\ StackIsPath'
  <1>1. PICK k \in DOMAIN appliedRules :
          /\ appliedRules' = SubSeq(appliedRules, 1, k - 1)
          /\ instance' = appliedRules[k].before
    BY DEF CutShort
  <1>2. /\ IsSeq(appliedRules')
        /\ Len(appliedRules') = k - 1
        /\ k \in 1..Len(appliedRules) /\ Len(appliedRules) \in Nat
        /\ \A j \in 1..(k - 1) : appliedRules'[j] = appliedRules[j]
    BY <1>1, PrefixSeq
  <1>3. appliedRules # <<>>
    BY <1>2
  <1>4. /\ appliedRules[1].before = original
        /\ \A j \in 1..Len(appliedRules) - 1 : Leads(j, appliedRules[j+1].before)
    BY <1>3 DEF StackIsPath
  <1>5. CASE k = 1
    <2>1. appliedRules' = <<>>
      BY <1>2, <1>5 DEF IsSeq
    <2> QED BY <1>1, <1>2, <1>4, <1>5, <2>1 DEF StackIsPath
  <1>6. CASE k > 1
    <2>1. appliedRules' # <<>>
      BY <1>2, <1>6
    <2>2. appliedRules'[1].before = original
      BY <1>2, <1>4, <1>6
    <2>3. ASSUME NEW j \in 1..(k - 2)
          PROVE  Leads(j, appliedRules[j+1].before)'
      <3>1. Leads(j, appliedRules[j+1].before)
        BY <1>2, <1>4
      <3>2. appliedRules'[j] = appliedRules[j] /\ appliedRules'[j+1] = appliedRules[j+1]
        BY <1>2
      <3> QED BY <3>1, <3>2 DEF Leads
    <2>4. Leads(k - 1, instance)'
      <3>1. Leads(k - 1, appliedRules[k].before)
        <4>1. k - 1 \in 1..Len(appliedRules) - 1 /\ (k - 1) + 1 = k
          BY <1>2, <1>6
        <4> QED BY <1>4, <4>1
      <3>2. appliedRules'[k - 1] = appliedRules[k - 1]
        BY <1>2, <1>6
      <3> QED BY <1>1, <3>1, <3>2 DEF Leads
    <2> QED BY <1>2, <2>1, <2>2, <2>3, <2>4 DEF StackIsPath
  <1> QED BY <1>2, <1>5, <1>6

-----------------------------------------------------------------------------
PathInv == Shape /\ StackIsPath /\ ReplayIsPristine

(* The search begins with no rule applied. *)
LEMMA PathInit == Init => PathInv
  BY EmptyIsSeq DEF Init, PathInv, Shape, StackIsPath, ReplayIsPristine

LEMMA ShapeStep ==
  ASSUME Shape, [Next]_vars
  PROVE  replayed' \in Nat /\ pc' \in {"head", "apply", "rollback", "replay", "done"}
  <1> USE DEF Shape
  <1>1. CASE Stop
    BY <1>1 DEF Stop
  <1>2. CASE GoOn
    BY <1>2 DEF GoOn
  <1>3. CASE ApplyRule
    BY <1>3 DEF ApplyRule, Continue, Candidate, CutBranch, ImidateReturn, Finish
  <1>4. CASE EnterNextBranch
    BY <1>4 DEF EnterNextBranch
  <1>5. CASE RollBackAll
    BY <1>5 DEF RollBackAll, Finish
  <1>6. CASE Replay
    BY <1>6 DEF Replay
  <1>7. CASE Return
    BY <1>7 DEF Return
  <1>8. CASE Sigterm \/ DeadlinePasses \/ RaiseThreshold
    BY <1>8 DEF Sigterm, DeadlinePasses, RaiseThreshold, solver
  <1>9. CASE UNCHANGED vars
    BY <1>9 DEF vars
  <1> QED
    BY <1>1, <1>2, <1>3, <1>4, <1>5, <1>6, <1>7, <1>8, <1>9 DEF Next, Solve

(* Every way into the replay unwinds first, but for the abort. *)
LEMMA PristineStep ==
  ASSUME PathInv, [Next]_vars
  PROVE  ReplayIsPristine'
  <1> USE DEF PathInv, ReplayIsPristine
  <1>1. CASE Stop
    <2>1. instance' = original /\ appliedRules' = <<>>
      BY <1>1, UnwindIsPristine DEF Stop, Shape
    <2> QED BY <1>1, <2>1 DEF Stop
  <1>2. CASE GoOn
    BY <1>2 DEF GoOn
  <1>3. CASE ApplyRule
    BY <1>3 DEF ApplyRule, Continue, Candidate, CutBranch, ImidateReturn, Finish
  <1>4. CASE EnterNextBranch
    BY <1>4 DEF EnterNextBranch
  <1>5. CASE RollBackAll
    <2>1. instance' = original /\ appliedRules' = <<>>
      BY <1>5, UnwindIsPristine DEF RollBackAll, Shape
    <2> QED BY <1>5, <2>1 DEF RollBackAll
  <1>6. CASE Replay
    <2>1. replayed' # 0
      BY <1>6 DEF Replay, Shape
    <2> QED BY <2>1
  <1>7. CASE Return
    BY <1>7 DEF Return
  <1>8. CASE Sigterm \/ DeadlinePasses \/ RaiseThreshold
    BY <1>8 DEF Sigterm, DeadlinePasses, RaiseThreshold, solver, search
  <1>9. CASE UNCHANGED vars
    BY <1>9 DEF vars, search
  <1> QED
    BY <1>1, <1>2, <1>3, <1>4, <1>5, <1>6, <1>7, <1>8, <1>9 DEF Next, Solve

(* The path invariant is inductive. *)
LEMMA PathStep ==
  ASSUME PathInv, [Next]_vars
  PROVE  PathInv'
  <1>1. IsSeq(appliedRules) /\ StackIsPath
    BY DEF PathInv, Shape
  <1>2. /\ original' = original
        /\ Pushed \/ CutShort \/ Unwind \/ UNCHANGED <<instance, appliedRules>>
    BY StackStep DEF PathInv
  <1>3. IsSeq(appliedRules') /\ StackIsPath'
    <2>1. CASE Pushed
      BY <1>1, <1>2, <2>1, PushKeepsPath
    <2>2. CASE CutShort
      BY <1>1, <1>2, <2>2, CutKeepsPath
    <2>3. CASE Unwind
      BY <1>1, <1>2, <2>3, UnwindIsPristine, EmptyIsSeq DEF StackIsPath
    <2>4. CASE UNCHANGED <<instance, appliedRules>>
      BY <1>1, <1>2, <2>4 DEF IsSeq, StackIsPath, Leads
    <2> QED BY <1>2, <2>1, <2>2, <2>3, <2>4
  <1> QED BY <1>3, ShapeStep, PristineStep DEF PathInv, Shape

(***************************************************************************)
(* However rules are suggested, applied, unapplied and resumed, and        *)
(* wherever the search is stopped, the applied rules lead from the instance*)
(* that solve() was given to the present one (rollBackBranch,              *)
(* unwindAppliedRules, unapplyReductions).                                 *)
(***************************************************************************)
THEOREM AppliedRulesLeadHere == Spec => []StackIsPath
  <1>1. PathInv /\ [Next]_vars => PathInv'
    BY PathStep
  <1>2. PathInv => StackIsPath
    BY DEF PathInv
  <1> QED BY PathInit, <1>1, <1>2, PTL DEF Spec

(***************************************************************************)
(* The best branch is applied again to the instance it was found for,      *)
(* unless the search was aborted by a rule (the replay in solve()).        *)
(***************************************************************************)
THEOREM ReplaysOnTheOriginal == Spec => []ReplayIsPristine
  <1>1. PathInv /\ [Next]_vars => PathInv'
    BY PathStep
  <1>2. PathInv => ReplayIsPristine
    BY DEF PathInv
  <1> QED BY PathInit, <1>1, <1>2, PTL DEF Spec

-----------------------------------------------------------------------------
(* The counts alone are not inductive: a rule may have been chosen, and the *)
(* clock may go unread for some turns.                                      *)
LateInv == Shape /\ SignalIsBounded /\ DeadlineIsBounded

(* A candidate taken is a branch with a rule in it: HasSolution holds from  *)
(* then on.                                                                 *)
LEMMA CandidateIsSolution ==
  ASSUME Shape, NEW e, NEW o, ApplyEntry(e, o), CheckSolutionCandidate
  PROVE  HasSolution => HasSolution'
  <1>1. /\ Len(appliedRules) \in Nat
        /\ DOMAIN appliedRules' = 1..(Len(appliedRules) + 1)
    BY AppendSeq DEF Shape, ApplyEntry
  <1>2. 1 \in DOMAIN appliedRules'
    BY <1>1
  <1>3. CASE Weight(instance') < best
    <2>1. 1 \in DOMAIN solutionBranch'
      BY <1>2, <1>3 DEF CheckSolutionCandidate
    <2>2. DOMAIN <<>> = {}
      OBVIOUS
    <2> QED BY <2>1, <2>2 DEF HasSolution
  <1>4. CASE ~(Weight(instance') < best)
    BY <1>4 DEF CheckSolutionCandidate, HasSolution, incumbent
  <1> QED BY <1>3, <1>4

(* A solution, once found, is never forgotten. *)
LEMMA SolutionIsKept ==
  ASSUME Shape, [Next]_vars
  PROVE  HasSolution => HasSolution'
  <1>1. CASE ApplyRule
    <2>1. PICK e \in NextEntries : \E o \in Apply(instance, e.rule, e.branch + 1) :
            /\ ApplyEntry(e, o)
            /\ Continue(o) \/ Candidate(o) \/ CutBranch(o) \/ ImidateReturn(o)
      BY <1>1 DEF ApplyRule
    <2>2. PICK o \in Apply(instance, e.rule, e.branch + 1) :
            /\ ApplyEntry(e, o)
            /\ Continue(o) \/ Candidate(o) \/ CutBranch(o) \/ ImidateReturn(o)
      BY <2>1
    <2>3. CASE CheckSolutionCandidate
      BY <2>2, <2>3, CandidateIsSolution
    <2>4. CASE UNCHANGED incumbent
      BY <2>4 DEF HasSolution, incumbent
    <2> QED BY <2>2, <2>3, <2>4 DEF Continue, Candidate, CutBranch, ImidateReturn
  <1>2. CASE ~ApplyRule
    <2>1. UNCHANGED incumbent
      BY <1>2 DEF Next, Solve, Stop, GoOn, EnterNextBranch, RollBackAll, Replay, Return,
                  Sigterm, DeadlinePasses, RaiseThreshold, solver, vars
    <2> QED BY <2>1 DEF HasSolution, incumbent
  <1> QED BY <1>1, <1>2

LEMMA LateInit == Init => LateInv
  BY EmptyIsSeq, SolverAssumption
  DEF Init, LateInv, Shape, SignalIsBounded, DeadlineIsBounded, Chosen, Unread

(* Once the search should have stopped, so it remains. *)
LEMMA StaysLate ==
  ASSUME Shape, [Next]_vars
  PROVE  /\ StopSignalled => StopSignalled'
         /\ StopDue => StopDue'
  <1>1. HasSolution => HasSolution'
    BY SolutionIsKept
  <1>2. /\ config' = config
        /\ timeoutFlag => timeoutFlag'
        /\ clock => clock'
    BY DEF Next, Solve, Stop, GoOn, ApplyRule, EnterNextBranch, RollBackAll, Replay, Return,
           Sigterm, DeadlinePasses, RaiseThreshold, solver, environment, vars
  <1> QED BY <1>1, <1>2 DEF StopSignalled, StopDue

(* A rule is applied from "apply", where the others do not lead but GoOn. *)
LEMMA AppliedRule ==
  ASSUME ApplyRule
  PROVE  /\ pc = "apply" /\ pc' # "apply"
         /\ config' = config /\ UNCHANGED timing /\ UNCHANGED environment
         /\ afterSignal' = afterSignal + (IF StopSignalled THEN 1 ELSE 0)
         /\ afterDeadline' = afterDeadline + (IF StopDue THEN 1 ELSE 0)
  <1>1. PICK e \in NextEntries : \E o \in Apply(instance, e.rule, e.branch + 1) :
                                    ApplyEntry(e, o)
    BY DEF ApplyRule
  <1>2. pc = "apply" /\ pc' # "apply"
    BY DEF ApplyRule, Continue, Candidate, CutBranch, ImidateReturn, Finish
  <1> QED BY <1>1, <1>2 DEF ApplyRule, ApplyEntry

(* Where the clock may be read no rule is applied, and one is chosen only  *)
(* by GoOn.                                                                *)
LEMMA TurnsOfTheLoop ==
  ASSUME Stop \/ EnterNextBranch \/ RollBackAll \/ GoOn
  PROVE  /\ ReadClock /\ config' = config /\ UNCHANGED environment /\ UNCHANGED lateness
         /\ pc # "apply" /\ (pc' = "apply" => ~OutOfTime)
  BY DEF Stop, EnterNextBranch, RollBackAll, GoOn, Finish

LEMMA RestOfTheSteps ==
  ASSUME \/ Replay \/ Return \/ Sigterm \/ DeadlinePasses \/ RaiseThreshold
         \/ UNCHANGED vars
  PROVE  /\ config' = config /\ UNCHANGED timing /\ UNCHANGED lateness
         /\ pc' = "apply" => pc = "apply"
         /\ timeoutFlag => timeoutFlag'
  BY DEF Replay, Return, Sigterm, DeadlinePasses, RaiseThreshold, solver, environment, vars

(* The signal is honoured on every call: none is chosen after it. *)
LEMMA SignalStep ==
  ASSUME LateInv, [Next]_vars
  PROVE  SignalIsBounded'
  <1>1. StopSignalled => StopSignalled'
    BY StaysLate DEF LateInv
  <1>2. CASE ApplyRule
    <2>1. /\ pc = "apply" /\ pc' # "apply"
          /\ afterSignal' = afterSignal + (IF StopSignalled THEN 1 ELSE 0)
      BY <1>2, AppliedRule
    <2> QED BY <1>1, <2>1 DEF LateInv, SignalIsBounded, Chosen
  <1>3. CASE Stop \/ EnterNextBranch \/ RollBackAll \/ GoOn
    <2>1. afterSignal' = afterSignal /\ pc # "apply" /\ (pc' = "apply" => ~OutOfTime)
      BY <1>3, TurnsOfTheLoop DEF lateness
    <2>2. StopSignalled => OutOfTime
      BY DEF StopSignalled, OutOfTime, TimeExpired, KnownExpired
    <2> QED BY <1>1, <2>1, <2>2 DEF LateInv, SignalIsBounded, Chosen
  <1>4. CASE \/ Replay \/ Return \/ Sigterm \/ DeadlinePasses \/ RaiseThreshold
             \/ UNCHANGED vars
    <2>1. afterSignal' = afterSignal /\ (pc' = "apply" => pc = "apply")
      BY <1>4, RestOfTheSteps DEF lateness
    <2> QED BY <1>1, <2>1 DEF LateInv, SignalIsBounded, Chosen
  <1> QED BY <1>2, <1>3, <1>4 DEF Next, Solve

(* A turn of the loop reads the clock or counts down; a turn that finds    *)
(* the search out of time chooses no rule.                                 *)
LEMMA ReadClockTurns ==
  ASSUME DeadlineIsBounded, ReadClock, config' = config, UNCHANGED environment,
         UNCHANGED lateness, StopDue => StopDue',
         pc # "apply", pc' = "apply" => ~OutOfTime
  PROVE  DeadlineIsBounded'
  <1> USE SolverAssumption
  <1>1. afterDeadline' = afterDeadline
    BY DEF lateness
  <1>2. afterDeadline > 0 => StopDue'
    BY DEF DeadlineIsBounded
  <1>3. CASE KnownExpired \/ ~config.deadline
    <2>1. UNCHANGED timing
      BY <1>3 DEF ReadClock
    <2>2. afterDeadline > 0 => OutOfTime
      BY <1>3 DEF DeadlineIsBounded, StopDue, OutOfTime, TimeExpired
    <2>3. afterDeadline + Chosen' <= ClockCheckStride + 1
      BY <2>2 DEF DeadlineIsBounded, Chosen, Unread
    <2>4. Unread' = 0
      BY <1>3, <2>1 DEF Unread, KnownExpired, timing, environment
    <2> QED BY <1>1, <1>2, <2>1, <2>3, <2>4 DEF DeadlineIsBounded, Chosen, timing
  <1>4. CASE ~KnownExpired /\ config.deadline /\ clockCheckCountdown = 0
    <2>1. clockCheckCountdown' = ClockCheckStride /\ deadlinePassed' = clock
      BY <1>4 DEF ReadClock
    <2>2. CASE clock
      <3>1. afterDeadline > 0 => OutOfTime
        BY <1>4, <2>2 DEF DeadlineIsBounded, StopDue, OutOfTime, TimeExpired
      <3>2. afterDeadline + Chosen' <= ClockCheckStride + 1
        BY <3>1 DEF DeadlineIsBounded, Chosen, Unread
      <3>3. Unread' = 0
        BY <2>1, <2>2 DEF Unread
      <3> QED BY <1>1, <1>2, <2>1, <3>2, <3>3 DEF DeadlineIsBounded, Chosen
    <2>3. CASE ~clock
      <3>1. afterDeadline = 0
        BY <2>3 DEF DeadlineIsBounded, StopDue
      <3> QED BY <1>1, <1>2, <2>1, <3>1 DEF DeadlineIsBounded, Chosen, Unread
    <2> QED BY <2>2, <2>3
  <1>5. CASE ~KnownExpired /\ config.deadline /\ clockCheckCountdown # 0
    <2>1. clockCheckCountdown' = clockCheckCountdown - 1 /\ UNCHANGED deadlinePassed
      BY <1>5 DEF ReadClock
    <2> QED BY <1>1, <1>2, <1>5, <2>1
            DEF DeadlineIsBounded, Chosen, Unread, KnownExpired, environment
  <1> QED BY <1>3, <1>4, <1>5

LEMMA DeadlineStep ==
  ASSUME LateInv, [Next]_vars
  PROVE  DeadlineIsBounded'
  <1>1. StopDue => StopDue'
    BY StaysLate DEF LateInv
  <1>2. CASE ApplyRule
    <2>1. /\ pc = "apply" /\ pc' # "apply"
          /\ config' = config /\ UNCHANGED timing /\ UNCHANGED environment
          /\ afterDeadline' = afterDeadline + (IF StopDue THEN 1 ELSE 0)
      BY <1>2, AppliedRule
    <2> QED BY <1>1, <2>1, SolverAssumption
            DEF LateInv, DeadlineIsBounded, Chosen, Unread, timing, environment
  <1>3. CASE Stop \/ EnterNextBranch \/ RollBackAll \/ GoOn
    BY <1>1, <1>3, TurnsOfTheLoop, ReadClockTurns DEF LateInv
  <1>4. CASE \/ Replay \/ Return \/ Sigterm \/ DeadlinePasses \/ RaiseThreshold
             \/ UNCHANGED vars
    <2>1. /\ config' = config /\ UNCHANGED timing /\ UNCHANGED lateness
          /\ pc' = "apply" => pc = "apply"
          /\ timeoutFlag => timeoutFlag'
      BY <1>4, RestOfTheSteps
    <2> QED BY <1>1, <2>1, SolverAssumption
            DEF LateInv, DeadlineIsBounded, Chosen, Unread, timing, lateness
  <1> QED BY <1>2, <1>3, <1>4 DEF Next, Solve

(* The bounds on what may still be applied are inductive. *)
LEMMA LateStep ==
  ASSUME LateInv, IsSeq(appliedRules'), [Next]_vars
  PROVE  LateInv'
  <1>1. Shape'
    BY ShapeStep DEF LateInv, Shape
  <1> QED BY <1>1, SignalStep, DeadlineStep DEF LateInv

(***************************************************************************)
(* Once there is a solution, the search applies no more than the rule it   *)
(* has chosen after SIGTERM, with a deadline or without, and no more than  *)
(* ClockCheckStride + 1 after the deadline, for every stride and whatever  *)
(* the rules do (timeExpired, solve).                                      *)
(***************************************************************************)
THEOREM SearchStopsPromptly == Spec => []StopsPromptly
  <1> DEFINE IInv == PathInv /\ LateInv
  <1>1. Init => IInv
    BY PathInit, LateInit
  <1>2. IInv /\ [Next]_vars => IInv'
    <2> SUFFICES ASSUME IInv, [Next]_vars PROVE IInv'
      OBVIOUS
    <2>1. PathInv'
      BY PathStep
    <2>2. IsSeq(appliedRules')
      BY <2>1 DEF PathInv, Shape
    <2> QED BY <2>1, <2>2, LateStep
  <1>3. IInv => StopsPromptly
    BY SolverAssumption
    DEF LateInv, SignalIsBounded, DeadlineIsBounded, Chosen, Unread, StopsPromptly
  <1> QED BY <1>1, <1>2, <1>3, PTL DEF Spec

(***************************************************************************)
(* The incumbent is replaced by better ones only, if weights are numbers   *)
(* (checkSolutionCandidate, seedSolution).                                 *)
(***************************************************************************)
THEOREM IncumbentImproves ==
  ASSUME \A i : Weight(i) \in Nat,
         Unbounded \in Nat,
         \A i \in Instances : \A c \in Configurations(i) : \A seed \in Seeds(c, i) :
              seed.weight \in Nat
  PROVE  Spec => IncumbentOnlyImproves
  <1> DEFINE IsWeight == best \in Nat
  <1>1. Init => IsWeight
    BY DEF Init
  <1>2. IsWeight /\ [Next]_vars =>
          /\ IsWeight'
          /\ [best' <= best /\ (solutionBranch' # solutionBranch => best' < best)]_vars
    <2> SUFFICES ASSUME IsWeight, [Next]_vars
                 PROVE  /\ IsWeight'
                        /\ best' <= best
                        /\ solutionBranch' # solutionBranch => best' < best
      OBVIOUS
    <2>1. CASE UNCHANGED incumbent
      BY <2>1 DEF incumbent
    <2>2. CASE CheckSolutionCandidate
      <3>1. Weight(instance') \in Nat
        OBVIOUS
      <3> QED BY <2>1, <2>2, <3>1 DEF CheckSolutionCandidate
    <2>3. UNCHANGED incumbent \/ CheckSolutionCandidate
      BY DEF Next, Solve, Stop, GoOn, ApplyRule, Continue, Candidate, CutBranch, ImidateReturn,
             EnterNextBranch, RollBackAll, Replay, Return, Sigterm, DeadlinePasses,
             RaiseThreshold, solver, vars
    <2> QED BY <2>1, <2>2, <2>3
  <1> QED BY <1>1, <1>2, PTL DEF Spec, IncumbentOnlyImproves

-----------------------------------------------------------------------------
(* Replaying the incumbent. *)

IsBranch(b) == IsSeq(b) /\ HasEntries(b)

WeightsAreNumbers ==
  /\ \A i : Weight(i) \in Nat /\ Optimum(i) \in Nat
  /\ Unbounded \in Nat
  /\ \A i \in Instances : \A c \in Configurations(i) : \A seed \in Seeds(c, i) :
       seed.weight \in Nat

SeedsFit ==
  \A i \in Instances : \A c \in Configurations(i) : \A seed \in Seeds(c, i) :
    IsSeq(seed.branch) /\ \E path : Fits(seed, i, path)

(* No seed is recorded with more than its weight. *)
SeedsAreExact ==
  \A i \in Instances : \A c \in Configurations(i) : \A seed \in Seeds(c, i) :
    seed.branch # <<>> =>
      \A path : Fits(seed, i, path) => Weight(path[Len(seed.branch) + 1]) = seed.weight

-----------------------------------------------------------------------------
(* The instance after rule k of the stack. *)
After(k) == IF k = Len(appliedRules) THEN instance ELSE appliedRules[k + 1].before

(* The first n rules of the stack do the same when they are applied again. *)
Repeats(n) ==
  \A k \in 1..n :
    \A o \in Apply(appliedRules[k].before, appliedRules[k].rule, appliedRules[k].branch) :
       o.instance = After(k)

(* path is what the solution branch does to the original instance: it ends  *)
(* with a weight of at least w, a lower bound for every solution.           *)
Solved(w, path) ==
  /\ Reproduces(solutionBranch, original, path)
  /\ Weight(path[Len(solutionBranch) + 1]) \in w..best
  /\ SeedsAreExact => Weight(path[Len(solutionBranch) + 1]) = best

(* A search for an optimal solution can be replayed up to its last rule. *)
StackRepeats ==
  ~config.boundedDepthSearch =>
    /\ pc \in {"head", "apply"} => Repeats(Len(appliedRules))
    /\ pc = "rollback" => Repeats(Len(appliedRules) - 1)

IncumbentRepeats(w) ==
  /\ best \in Nat
  /\ HasSolution => IsBranch(solutionBranch) /\ \E path : Solved(w, path)
  /\ ~HasSolution => best = Unbounded

Searching == pc \in {"head", "apply", "rollback"} => stopped = "no" /\ replayed = 0

(* The rules replayed are the first of the solution branch. *)
Replaying(w) ==
  pc \in {"replay", "done"} /\ stopped \notin {"no", "return"} =>
    /\ Len(appliedRules) = replayed
    /\ replayed <= Len(solutionBranch)
    /\ \A k \in 1..replayed :
         solutionBranch[k] = Entry(appliedRules[k].rule, appliedRules[k].branch)
    /\ HasSolution => \E path : Solved(w, path) /\ instance = path[replayed + 1]
    /\ pc = "done" => replayed = Len(solutionBranch) /\ result = HasSolution

-----------------------------------------------------------------------------
(* A stack s that leads to j, and does so when it is applied again. *)
RepeatsTo(s, j) ==
  \A k \in 1..Len(s) : \A o \in Apply(s[k].before, s[k].rule, s[k].branch) :
     o.instance = IF k = Len(s) THEN j ELSE s[k + 1].before

Copy(s) == [k \in DOMAIN s |-> Entry(s[k].rule, s[k].branch)]

(* Copied, it is a branch that can be replayed. *)
LEMMA CopyReproduces ==
  ASSUME NEW s, IsSeq(s), s # <<>>, NEW j, RepeatsTo(s, j), NEW b, b = Copy(s)
  PROVE  /\ IsBranch(b) /\ b # <<>>
         /\ \E path : Reproduces(b, s[1].before, path) /\ path[Len(b) + 1] = j
  <1>1. PICK n \in Nat \ {0} : n = Len(s) /\ DOMAIN s = 1..n
    BY DEF IsSeq
  <1> DEFINE path == [k \in 1..(n + 1) |-> IF k = n + 1 THEN j ELSE s[k].before]
  <1>2. b = [k \in 1..n |-> Entry(s[k].rule, s[k].branch)]
    BY <1>1 DEF Copy
  <1>3. Len(b) = n /\ DOMAIN b = 1..n /\ \E S : b \in Seq(S)
    <2> DEFINE S == {Entry(s[k].rule, s[k].branch) : k \in 1..n}
    <2>1. \A k \in 1..n : Entry(s[k].rule, s[k].branch) \in S
      OBVIOUS
    <2> HIDE DEF S
    <2>2. b \in [1..n -> S]
      BY <1>2, <2>1
    <2>3. b \in Seq(S) /\ Len(b) = n
      BY <2>2
    <2> QED BY <2>2, <2>3
  <1>4. IsBranch(b) /\ b # <<>>
    <2>1. IsSeq(b)
      BY <1>3, SeqRange
    <2>2. \A k \in 1..n : b[k] = Entry(b[k].rule, b[k].branch)
      BY <1>2 DEF Entry
    <2> QED BY <1>3, <2>1, <2>2 DEF IsBranch, HasEntries
  <1>5. path[1] = s[1].before /\ path[n + 1] = j
    <2>1. 1 \in 1..(n + 1) /\ n + 1 \in 1..(n + 1) /\ 1 # n + 1
      OBVIOUS
    <2> QED BY <2>1
  <1>6. ASSUME NEW k \in DOMAIN b, NEW o \in Apply(path[k], b[k].rule, b[k].branch)
        PROVE  o.instance = path[k + 1]
    <2>1. k \in 1..n
      BY <1>3
    <2>2. k \in 1..(n + 1) /\ k + 1 \in 1..(n + 1) /\ k # n + 1 /\ (k + 1 = n + 1 <=> k = n)
      BY <2>1
    <2>3. path[k] = s[k].before /\ path[k + 1] = IF k = n THEN j ELSE s[k + 1].before
      BY <2>2
    <2>4. b[k].rule = s[k].rule /\ b[k].branch = s[k].branch
      BY <1>2, <2>1 DEF Entry
    <2> HIDE DEF path
    <2> QED BY <1>1, <1>6, <2>1, <2>3, <2>4 DEF RepeatsTo
  <1> HIDE DEF path
  <1> QED BY <1>3, <1>4, <1>5, <1>6 DEF Reproduces

(* Pushing a rule that repeats. *)
LEMMA PushRepeats ==
  ASSUME IsSeq(appliedRules), NEW e, NEW o \in Apply(instance, e.rule, e.branch + 1),
         ApplyEntry(e, o), Repeats(Len(appliedRules))
  PROVE  /\ IsSeq(appliedRules') /\ appliedRules' # <<>>
         /\ Repeats(Len(appliedRules) - 1)'
         /\ (\A p \in Apply(instance, e.rule, e.branch + 1) : p.instance = o.instance)
              => Repeats(Len(appliedRules))'
  <1>0. PICK n \in Nat : n = Len(appliedRules)
    BY AppendSeq
  <1> DEFINE top == [rule |-> e.rule, branch |-> e.branch + 1, before |-> instance]
  <1>1. instance' = o.instance /\ appliedRules' = Append(appliedRules, top)
    BY DEF ApplyEntry
  <1>2. /\ IsSeq(appliedRules')
        /\ Len(appliedRules') = n + 1
        /\ \A k \in 1..n : appliedRules'[k] = appliedRules[k]
        /\ appliedRules'[n + 1] = top
    BY <1>0, <1>1, AppendSeq
  <1>3. top.before = instance /\ top.rule = e.rule /\ top.branch = e.branch + 1
    OBVIOUS
  <1> HIDE DEF top
  <1>4. ASSUME NEW k \in 1..n
        PROVE  After(k)' = After(k)
    <2>1. k # n + 1 /\ k + 1 \in 1..(n + 1)
      BY <1>2
    <2>2. After(k)' = appliedRules'[k + 1].before
      BY <1>2, <2>1 DEF After
    <2>3. CASE k = n
      BY <1>0, <1>2, <1>3, <2>2, <2>3 DEF After
    <2>4. CASE k # n
      <3>1. k + 1 \in 1..n
        BY <2>4
      <3> QED BY <1>0, <1>2, <2>2, <2>4, <3>1 DEF After
    <2> QED BY <2>3, <2>4
  <1>5. \A k \in 1..n : \A p \in Apply(appliedRules'[k].before, appliedRules'[k].rule,
                                       appliedRules'[k].branch) :
          p.instance = After(k)'
    BY <1>0, <1>2, <1>4 DEF Repeats
  <1>6. (Len(appliedRules) - 1)' = n
    BY <1>2
  <1>7. Repeats(Len(appliedRules) - 1)'
    BY <1>5, <1>6 DEF Repeats
  <1>8. ASSUME \A p \in Apply(instance, e.rule, e.branch + 1) : p.instance = o.instance
        PROVE  Repeats(Len(appliedRules))'
    <2>1. After(n + 1)' = o.instance
      <3>1. n + 1 = Len(appliedRules')
        BY <1>2
      <3> QED BY <1>1, <3>1 DEF After
    <2>2. \A p \in Apply(appliedRules'[n + 1].before, appliedRules'[n + 1].rule,
                         appliedRules'[n + 1].branch) :
            p.instance = After(n + 1)'
      BY <1>2, <1>3, <1>8, <2>1
    <2>3. \A k \in 1..Len(appliedRules') : k \in 1..n \/ k = n + 1
      BY <1>2
    <2>4. \A k \in 1..Len(appliedRules') :
            \A p \in Apply(appliedRules'[k].before, appliedRules'[k].rule,
                           appliedRules'[k].branch) : p.instance = After(k)'
      <3> SUFFICES ASSUME NEW k \in 1..Len(appliedRules')
                   PROVE  \A p \in Apply(appliedRules'[k].before, appliedRules'[k].rule,
                                         appliedRules'[k].branch) : p.instance = After(k)'
        OBVIOUS
      <3>1. CASE k \in 1..n
        BY <1>5, <3>1
      <3>2. CASE k = n + 1
        BY <2>2, <3>2
      <3> QED BY <2>3, <3>1, <3>2
    <2> QED BY <2>4 DEF Repeats
  <1>9. appliedRules' # <<>>
    BY <1>2
  <1> QED BY <1>2, <1>7, <1>8, <1>9

(* Cutting the stack short leaves rules that repeat. *)
LEMMA ReopenRepeats ==
  ASSUME IsSeq(appliedRules), NEW k \in DOMAIN appliedRules, Reopen(k),
         Repeats(Len(appliedRules) - 1)
  PROVE  Repeats(Len(appliedRules))'
  <1>1. appliedRules' = SubSeq(appliedRules, 1, k - 1) /\ instance' = appliedRules[k].before
    BY DEF Reopen
  <1>2. /\ Len(appliedRules') = k - 1
        /\ k \in 1..Len(appliedRules) /\ Len(appliedRules) \in Nat
        /\ \A j \in 1..(k - 1) : appliedRules'[j] = appliedRules[j]
    BY <1>1, PrefixSeq
  <1>3. ASSUME NEW j \in 1..(k - 1)
        PROVE  j \in 1..(Len(appliedRules) - 1) /\ After(j)' = After(j)
    <2>1. j \in 1..(Len(appliedRules) - 1) /\ j # Len(appliedRules)
      BY <1>2
    <2>2. CASE j = k - 1
      <3>1. j + 1 = k
        BY <1>2, <2>2
      <3> QED BY <1>1, <1>2, <2>1, <2>2, <3>1 DEF After
    <2>3. CASE j # k - 1
      <3>1. j + 1 \in 1..(k - 1)
        BY <1>2, <2>3
      <3> QED BY <1>2, <2>1, <2>3, <3>1 DEF After
    <2> QED BY <2>1, <2>2, <2>3
  <1> QED BY <1>2, <1>3 DEF Repeats

-----------------------------------------------------------------------------
(* What the steps that only read or stop leave alone. *)
LEMMA SearchingStep ==
  ASSUME Shape, Searching, [Next]_vars
  PROVE  Searching' /\ (pc' = "replay" => pc = "replay" \/ stopped' # "no")
  <1> USE DEF Searching, Shape
  <1>1. CASE Stop
    BY <1>1 DEF Stop
  <1>2. CASE GoOn
    BY <1>2 DEF GoOn
  <1>3. CASE ApplyRule
    BY <1>3 DEF ApplyRule, Continue, Candidate, CutBranch, ImidateReturn, Finish
  <1>4. CASE EnterNextBranch
    BY <1>4 DEF EnterNextBranch
  <1>5. CASE RollBackAll
    BY <1>5 DEF RollBackAll, Finish
  <1>6. CASE Replay
    BY <1>6 DEF Replay
  <1>7. CASE Return
    BY <1>7 DEF Return
  <1>8. CASE Sigterm \/ DeadlinePasses \/ RaiseThreshold
    BY <1>8 DEF Sigterm, DeadlinePasses, RaiseThreshold, solver
  <1>9. CASE UNCHANGED vars
    BY <1>9 DEF vars
  <1> QED
    BY <1>1, <1>2, <1>3, <1>4, <1>5, <1>6, <1>7, <1>8, <1>9 DEF Next, Solve

(* The rule applied, with what it gave. *)
LEMMA AppliedEntry ==
  ASSUME ApplyRule
  PROVE  \E e \in NextEntries : \E o \in Apply(instance, e.rule, e.branch + 1) :
           /\ ApplyEntry(e, o)
           /\ Continue(o) \/ Candidate(o) \/ CutBranch(o) \/ ImidateReturn(o)
  BY DEF ApplyRule

(* The stack can be replayed up to its last rule, whatever was done to it. *)
LEMMA StackRepeatsStep ==
  ASSUME PathInv, StackRepeats, RulesRepeat, [Next]_vars
  PROVE  StackRepeats'
  <1>0. IsSeq(appliedRules) /\ StackIsPath
    BY DEF PathInv, Shape
  <1>1. ASSUME appliedRules' = <<>>
        PROVE  StackRepeats'
    BY <1>1 DEF StackRepeats, Repeats
  <1>2. CASE Stop \/ RollBackAll
    BY <1>0, <1>1, <1>2, UnwindIsPristine DEF Stop, RollBackAll
  <1>3. CASE GoOn
    BY <1>3 DEF GoOn, search, StackRepeats, Repeats, After
  <1>4. CASE ApplyRule
    <2>0. PICK e \in NextEntries : \E o \in Apply(instance, e.rule, e.branch + 1) :
            /\ ApplyEntry(e, o)
            /\ Continue(o) \/ Candidate(o) \/ CutBranch(o) \/ ImidateReturn(o)
      BY <1>4, AppliedEntry
    <2>1. PICK o \in Apply(instance, e.rule, e.branch + 1) :
            /\ ApplyEntry(e, o)
            /\ Continue(o) \/ Candidate(o) \/ CutBranch(o) \/ ImidateReturn(o)
      BY <2>0
    <2>2. pc = "apply" /\ config' = config
      BY <1>4 DEF ApplyRule
    <2> SUFFICES ASSUME ~config.boundedDepthSearch PROVE StackRepeats'
      BY <2>2 DEF StackRepeats
    <2>3. Repeats(Len(appliedRules))
      BY <2>2 DEF StackRepeats
    <2>4. /\ Repeats(Len(appliedRules) - 1)'
          /\ (\A p \in Apply(instance, e.rule, e.branch + 1) : p.instance = o.instance)
               => Repeats(Len(appliedRules))'
      BY <1>0, <2>1, <2>3, PushRepeats
    <2>5. CASE Continue(o)
      <3>1. \A p \in Apply(instance, e.rule, e.branch + 1) : p.instance = o.instance
        BY <2>2, <2>5 DEF RulesRepeat, Continue
      <3> QED BY <2>4, <2>5, <3>1 DEF StackRepeats, Continue
    <2>6. CASE ~Continue(o)
      <3>1. pc' \in {"rollback", "replay"}
        BY <2>1, <2>6 DEF Candidate, CutBranch, ImidateReturn, Finish
      <3> QED BY <2>4, <3>1 DEF StackRepeats
    <2> QED BY <2>5, <2>6
  <1>5. CASE EnterNextBranch
    <2>1. PICK k \in Open : Reopen(k)
      BY <1>5 DEF EnterNextBranch
    <2>2. k \in DOMAIN appliedRules
      BY <2>1 DEF Open
    <2>3. pc = "rollback" /\ pc' = "head" /\ config' = config
      BY <1>5 DEF EnterNextBranch
    <2>4. ~config.boundedDepthSearch => Repeats(Len(appliedRules))'
      BY <1>0, <2>1, <2>2, <2>3, ReopenRepeats DEF StackRepeats
    <2> QED BY <2>3, <2>4 DEF StackRepeats
  <1>6. CASE Replay \/ Return
    BY <1>6 DEF Replay, Return, StackRepeats
  <1>7. CASE Sigterm \/ DeadlinePasses \/ RaiseThreshold \/ UNCHANGED vars
    BY <1>7 DEF Sigterm, DeadlinePasses, RaiseThreshold, solver, search, vars,
                StackRepeats, Repeats, After
  <1> QED BY <1>2, <1>3, <1>4, <1>5, <1>6, <1>7 DEF Next, Solve

(* A candidate that is taken can be replayed from the original instance. *)
LEMMA CandidateRepeats ==
  ASSUME WeightsAreNumbers, PathInv, StackRepeats, RulesRepeat, NEW w \in Nat,
         IncumbentRepeats(w), pc = "apply", ~config.boundedDepthSearch,
         original' = original,
         NEW e \in NextEntries, NEW o \in Apply(instance, e.rule, e.branch + 1),
         ApplyEntry(e, o), o.code = "EndBranchWithSolutionCandidate",
         CheckSolutionCandidate, w <= Weight(o.instance)
  PROVE  IncumbentRepeats(w)'
  <1>1. CASE ~(Weight(instance') < best)
    <2>1. UNCHANGED incumbent
      BY <1>1 DEF CheckSolutionCandidate
    <2> QED BY <2>1 DEF incumbent, IncumbentRepeats, HasSolution, Solved, IsBranch
  <1>2. CASE Weight(instance') < best
    <2>1. /\ best' = Weight(instance')
          /\ solutionBranch' = [k \in DOMAIN appliedRules' |->
               Entry(appliedRules'[k].rule, appliedRules'[k].branch)]
      BY <1>2 DEF CheckSolutionCandidate
    <2>2. IsSeq(appliedRules) /\ Repeats(Len(appliedRules)) /\ StackIsPath
      BY DEF PathInv, Shape, StackRepeats
    <2>3. \A p \in Apply(instance, e.rule, e.branch + 1) : p.instance = o.instance
      BY DEF RulesRepeat
    <2>4. IsSeq(appliedRules') /\ appliedRules' # <<>> /\ Repeats(Len(appliedRules))'
      BY <2>2, <2>3, PushRepeats
    <2>5. Pushed
      BY DEF ApplyEntry, Pushed
    <2>6. appliedRules'[1].before = original
      BY <2>2, <2>4, <2>5, PushKeepsPath DEF StackIsPath
    <2>7. RepeatsTo(appliedRules', instance')
      BY <2>4 DEF Repeats, After, RepeatsTo
    <2>8. /\ IsBranch(solutionBranch') /\ solutionBranch' # <<>>
          /\ \E path : /\ Reproduces(solutionBranch', appliedRules'[1].before, path)
                       /\ path[Len(solutionBranch') + 1] = instance'
      <3>1. solutionBranch' = Copy(appliedRules')
        BY <2>1 DEF Copy
      <3> QED BY <2>4, <2>7, <3>1, CopyReproduces
    <2>9. PICK path : /\ Reproduces(solutionBranch', original', path)
                      /\ path[Len(solutionBranch') + 1] = instance'
      BY <2>6, <2>8
    <2>10. Weight(instance') \in Nat /\ instance' = o.instance
      BY DEF WeightsAreNumbers, ApplyEntry
    <2>11. Weight(path[Len(solutionBranch') + 1]) = best' /\ best' \in Nat /\ w <= best'
      BY <2>1, <2>9, <2>10
    <2>12. Solved(w, path)'
      BY <2>9, <2>11 DEF Solved
    <2> QED BY <2>8, <2>11, <2>12 DEF IncumbentRepeats, HasSolution
  <1> QED BY <1>1, <1>2

(* Every incumbent can be replayed, if no candidate is lighter than w. *)
LEMMA IncumbentStep ==
  ASSUME WeightsAreNumbers, PathInv, StackRepeats, RulesRepeat, NEW w \in Nat,
         IncumbentRepeats(w), [Next]_vars,
         pc = "apply" => \A e \in NextEntries : \A o \in Apply(instance, e.rule, e.branch + 1) :
           o.code = "EndBranchWithSolutionCandidate" => w <= Weight(o.instance)
  PROVE  IncumbentRepeats(w)'
  <1>1. original' = original
    BY StackStep DEF PathInv
  <1>2. ASSUME UNCHANGED incumbent
        PROVE  IncumbentRepeats(w)'
    BY <1>1, <1>2 DEF incumbent, IncumbentRepeats, HasSolution, Solved, IsBranch
  <1>3. CASE ApplyRule
    <2>0. PICK e \in NextEntries : \E o \in Apply(instance, e.rule, e.branch + 1) :
            /\ ApplyEntry(e, o)
            /\ Continue(o) \/ Candidate(o) \/ CutBranch(o) \/ ImidateReturn(o)
      BY <1>3, AppliedEntry
    <2>1. PICK o \in Apply(instance, e.rule, e.branch + 1) :
            /\ ApplyEntry(e, o)
            /\ Continue(o) \/ Candidate(o) \/ CutBranch(o) \/ ImidateReturn(o)
      BY <2>0
    <2>2. pc = "apply"
      BY <1>3 DEF ApplyRule
    <2>3. CASE Candidate(o) /\ ~config.boundedDepthSearch
      <3>1. o.code = "EndBranchWithSolutionCandidate" /\ CheckSolutionCandidate
        BY <2>3 DEF Candidate
      <3> QED BY <1>1, <2>1, <2>2, <2>3, <3>1, CandidateRepeats
    <2>4. CASE ~(Candidate(o) /\ ~config.boundedDepthSearch)
      <3>1. UNCHANGED incumbent
        BY <2>1, <2>4 DEF Continue, Candidate, CutBranch, ImidateReturn
      <3> QED BY <1>2, <3>1
    <2> QED BY <2>3, <2>4
  <1>4. CASE ~ApplyRule
    <2>1. UNCHANGED incumbent
      BY <1>4 DEF Next, Solve, Stop, GoOn, EnterNextBranch, RollBackAll, Replay, Return,
                  Sigterm, DeadlinePasses, RaiseThreshold, solver, vars
    <2> QED BY <1>2, <2>1
  <1> QED BY <1>3, <1>4

-----------------------------------------------------------------------------
(* The replay begins where the path of the incumbent does. *)
LEMMA ReplayBegins ==
  ASSUME NEW w, PathInv, Searching, IncumbentRepeats(w), Unwind, UNCHANGED incumbent,
         pc \in {"head", "rollback"}, replayed' = replayed, original' = original,
         pc' = "replay"
  PROVE  Replaying(w)'
  <1>1. instance' = original /\ appliedRules' = <<>> /\ replayed' = 0
    BY UnwindIsPristine DEF PathInv, Shape, Searching
  <1>2. HasSolution' = HasSolution /\ (HasSolution => Len(solutionBranch) \in Nat)
    BY DEF incumbent, HasSolution, IncumbentRepeats, IsBranch, IsSeq
  <1>3. Len(solutionBranch') \in Nat
    BY <1>2 DEF incumbent, HasSolution
  <1>4. Len(appliedRules') = 0 /\ replayed' <= Len(solutionBranch')
    BY <1>1, <1>3
  <1>5. ASSUME HasSolution'
        PROVE  \E path : Solved(w, path)' /\ instance' = path[replayed' + 1]
    <2>1. PICK path : Solved(w, path)
      BY <1>2, <1>5 DEF IncumbentRepeats
    <2>2. Solved(w, path)' /\ path[1] = original
      BY <2>1 DEF Solved, Reproduces, incumbent
    <2> QED BY <1>1, <2>2
  <1> QED BY <1>1, <1>4, <1>5 DEF Replaying

(* One more rule of the solution branch is applied. *)
LEMMA ReplayGoesOn ==
  ASSUME NEW w, PathInv, IncumbentRepeats(w), Replaying(w), Replay
  PROVE  Replaying(w)'
  <1> SUFFICES ASSUME stopped \notin {"no", "return"} PROVE Replaying(w)'
    BY DEF Replay, Replaying
  <1> DEFINE e == solutionBranch[replayed + 1]
  <1>1. PICK o \in Apply(instance, e.rule, e.branch) :
          /\ instance' = o.instance
          /\ appliedRules' = Append(appliedRules,
               [rule |-> e.rule, branch |-> e.branch, before |-> instance])
    BY DEF Replay
  <1>2. /\ pc = "replay" /\ pc' = "replay" /\ replayed < Len(solutionBranch)
        /\ replayed' = replayed + 1 /\ UNCHANGED <<incumbent, original, stopped>>
    BY DEF Replay
  <1>3. HasSolution /\ HasSolution' /\ replayed \in Nat
    BY <1>2 DEF PathInv, Shape, HasSolution, incumbent
  <1>4. IsBranch(solutionBranch) /\ Len(solutionBranch) \in Nat
        /\ DOMAIN solutionBranch = 1..Len(solutionBranch)
    BY <1>3 DEF IncumbentRepeats, IsBranch, IsSeq
  <1>5. replayed + 1 \in DOMAIN solutionBranch
    BY <1>2, <1>3, <1>4
  <1>6. PICK path : Solved(w, path) /\ instance = path[replayed + 1]
    BY <1>2, <1>3 DEF Replaying
  <1>7. instance' = path[(replayed + 1) + 1]
    BY <1>1, <1>5, <1>6 DEF Solved, Reproduces
  <1>8. PICK top : /\ top.rule = e.rule /\ top.branch = e.branch
                   /\ appliedRules' = Append(appliedRules, top)
    BY <1>1
  <1>9. Len(appliedRules) = replayed
        /\ \A k \in 1..replayed :
             solutionBranch[k] = Entry(appliedRules[k].rule, appliedRules[k].branch)
    BY <1>2 DEF Replaying
  <1>10. /\ Len(appliedRules') = replayed + 1
         /\ \A k \in 1..replayed : appliedRules'[k] = appliedRules[k]
         /\ appliedRules'[replayed + 1] = top
    BY <1>8, <1>9, AppendSeq DEF PathInv, Shape
  <1>11. solutionBranch[replayed + 1] = Entry(e.rule, e.branch)
    BY <1>4, <1>5 DEF IsBranch, HasEntries
  <1>12. ASSUME NEW k \in 1..(replayed + 1)
         PROVE  solutionBranch[k] = Entry(appliedRules'[k].rule, appliedRules'[k].branch)
    <2> HIDE DEF e
    <2>1. CASE k = replayed + 1
      BY <1>8, <1>10, <1>11, <2>1
    <2>2. CASE k # replayed + 1
      <3>1. k \in 1..replayed
        BY <1>3, <2>2
      <3> QED BY <1>9, <1>10, <3>1
    <2> QED BY <2>1, <2>2
  <1>13. Solved(w, path)'
    BY <1>2, <1>6 DEF Solved, incumbent
  <1>14. replayed' <= Len(solutionBranch') /\ solutionBranch' = solutionBranch
    BY <1>2, <1>3, <1>4 DEF incumbent
  <1>15. \A k \in 1..replayed' :
           solutionBranch'[k] = Entry(appliedRules'[k].rule, appliedRules'[k].branch)
    BY <1>2, <1>12, <1>14
  <1> HIDE DEF e
  <1>16. \E q : Solved(w, q)' /\ instance' = q[replayed' + 1]
    BY <1>2, <1>7, <1>13
  <1> QED BY <1>2, <1>10, <1>14, <1>15, <1>16 DEF Replaying

(* The replay keeps to the path of the incumbent, to its end. *)
LEMMA ReplayingStep ==
  ASSUME NEW w, PathInv, Searching, IncumbentRepeats(w), Replaying(w), [Next]_vars
  PROVE  Replaying(w)'
  <1>1. original' = original
    BY StackStep DEF PathInv
  <1>2. CASE Stop
    <2>1. /\ Unwind /\ UNCHANGED incumbent /\ replayed' = replayed
          /\ pc = "head" /\ pc' = "replay"
      BY <1>2 DEF Stop
    <2> QED BY <1>1, <2>1, ReplayBegins
  <1>3. CASE RollBackAll
    <2>1. /\ Unwind /\ UNCHANGED incumbent /\ replayed' = replayed
          /\ pc = "rollback" /\ pc' \in {"head", "replay"}
      BY <1>3 DEF RollBackAll, Finish
    <2>2. CASE pc' = "replay"
      BY <1>1, <2>1, <2>2, ReplayBegins
    <2> QED BY <2>1, <2>2 DEF Replaying
  <1>4. CASE GoOn \/ EnterNextBranch
    BY <1>4 DEF GoOn, EnterNextBranch, Replaying
  <1>5. CASE ApplyRule
    <2>1. pc' \in {"head", "rollback"} \/ stopped' \in {"no", "return"}
      BY <1>5 DEF ApplyRule, Continue, Candidate, CutBranch, ImidateReturn, Finish, Searching
    <2> QED BY <2>1 DEF Replaying
  <1>6. CASE Replay
    BY <1>6, ReplayGoesOn
  <1>7. CASE Return
    <2>1. UNCHANGED <<original, instance, appliedRules, solutionBranch, best, replayed, stopped>>
          /\ pc = "replay" /\ pc' = "done" /\ replayed = Len(solutionBranch)
          /\ result' = HasSolution
      BY <1>7 DEF Return, search, incumbent
    <2>2. HasSolution' = HasSolution /\ \A path : Solved(w, path)' <=> Solved(w, path)
      BY <2>1 DEF HasSolution, Solved
    <2> QED BY <2>1, <2>2 DEF Replaying
  <1>8. CASE Sigterm \/ DeadlinePasses \/ RaiseThreshold \/ UNCHANGED vars
    <2>1. UNCHANGED <<original, instance, appliedRules, solutionBranch, best, replayed, stopped,
                      pc, result>>
      BY <1>8 DEF Sigterm, DeadlinePasses, RaiseThreshold, vars, solver, search, incumbent
    <2>2. HasSolution' = HasSolution /\ \A path : Solved(w, path)' <=> Solved(w, path)
      BY <2>1 DEF HasSolution, Solved
    <2> QED BY <2>1, <2>2 DEF Replaying
  <1> QED BY <1>2, <1>3, <1>4, <1>5, <1>6, <1>7, <1>8 DEF Next, Solve

-----------------------------------------------------------------------------
ReplayInv(w) ==
  PathInv /\ StackRepeats /\ Searching /\ IncumbentRepeats(w) /\ Replaying(w)

LEMMA ReplayInit ==
  ASSUME WeightsAreNumbers, SeedsFit, Init, NEW w \in Nat, w <= Optimum(original)
  PROVE  ReplayInv(w)
  <1>1. /\ appliedRules = <<>> /\ pc = "head" /\ replayed = 0 /\ stopped = "no"
        /\ original \in Instances /\ config \in Configurations(original)
    BY DEF Init
  <1>2. PICK seed \in Seeds(config, original) :
          /\ solutionBranch = seed.branch
          /\ best = IF seed.branch = <<>> THEN Unbounded ELSE seed.weight
    BY DEF Init
  <1>3. best \in Nat /\ (~HasSolution => best = Unbounded)
    BY <1>1, <1>2 DEF WeightsAreNumbers, HasSolution
  <1>4. ASSUME HasSolution
        PROVE  IsBranch(solutionBranch) /\ \E path : Solved(w, path)
    <2>1. IsSeq(seed.branch) /\ \E path : Fits(seed, original, path)
      BY <1>1 DEF SeedsFit
    <2>10. PICK path : Fits(seed, original, path)
      BY <2>1
    <2>2. seed.branch # <<>> /\ best = seed.weight
      BY <1>2, <1>4 DEF HasSolution
    <2>3. /\ IsBranch(solutionBranch) /\ Reproduces(solutionBranch, original, path)
          /\ Weight(path[Len(solutionBranch) + 1]) \in Optimum(original)..best
      BY <1>2, <2>1, <2>10, <2>2 DEF Fits, IsBranch
    <2>4. Weight(path[Len(solutionBranch) + 1]) \in w..best
      BY <1>3, <2>3 DEF WeightsAreNumbers
    <2>5. SeedsAreExact => Weight(path[Len(solutionBranch) + 1]) = best
      BY <1>1, <1>2, <2>10, <2>2 DEF SeedsAreExact
    <2> QED BY <2>3, <2>4, <2>5 DEF Solved
  <1>5. StackRepeats
    BY <1>1 DEF StackRepeats, Repeats
  <1> QED BY <1>1, <1>3, <1>4, <1>5, PathInit
          DEF ReplayInv, Searching, IncumbentRepeats, Replaying

LEMMA ReplayStep ==
  ASSUME WeightsAreNumbers, NEW w \in Nat, ReplayInv(w), RulesRepeat, [Next]_vars,
         pc = "apply" => \A e \in NextEntries : \A o \in Apply(instance, e.rule, e.branch + 1) :
           o.code = "EndBranchWithSolutionCandidate" => w <= Weight(o.instance)
  PROVE  ReplayInv(w)'
  <1> USE DEF ReplayInv
  <1>1. PathInv'
    BY PathStep
  <1>2. StackRepeats'
    BY StackRepeatsStep
  <1>3. Searching'
    BY SearchingStep DEF PathInv
  <1>4. IncumbentRepeats(w)'
    BY IncumbentStep
  <1>5. Replaying(w)'
    BY ReplayingStep
  <1> QED BY <1>1, <1>2, <1>3, <1>4, <1>5

(* What is left behind, of a search that was not aborted. *)
LEMMA LeftBehind ==
  ASSUME NEW w, ReplayInv(w), pc = "done", stopped \notin {"no", "return"}
  PROVE  /\ result = HasSolution
         /\ Len(appliedRules) = Len(solutionBranch)
         /\ \A k \in 1..Len(solutionBranch) :
              solutionBranch[k] = Entry(appliedRules[k].rule, appliedRules[k].branch)
         /\ result => /\ Weight(instance) \in w..best
                      /\ SeedsAreExact => Weight(instance) = best
  <1>1. /\ Len(appliedRules) = replayed
        /\ \A k \in 1..replayed :
             solutionBranch[k] = Entry(appliedRules[k].rule, appliedRules[k].branch)
        /\ HasSolution => \E path : Solved(w, path) /\ instance = path[replayed + 1]
        /\ replayed = Len(solutionBranch) /\ result = HasSolution
    BY DEF ReplayInv, Replaying
  <1> QED BY <1>1 DEF Solved

(***************************************************************************)
(* solve() leaves the incumbent behind, whatever the search went through   *)
(* and however it was stopped: the rules applied are those of the best     *)
(* branch, and they give a solution of the weight recorded for it.         *)
(***************************************************************************)
THEOREM IncumbentIsReturned ==
  ASSUME WeightsAreNumbers, SeedsFit, SeedsAreExact
  PROVE  Spec /\ []RulesRepeat => []ReturnsTheIncumbent
  <1>1. Init => ReplayInv(0)
    <2>1. Init => 0 <= Optimum(original)
      BY DEF WeightsAreNumbers
    <2> QED BY <2>1, ReplayInit
  <1>2. ReplayInv(0) /\ RulesRepeat /\ [Next]_vars => ReplayInv(0)'
    <2> SUFFICES ASSUME ReplayInv(0), RulesRepeat, [Next]_vars PROVE ReplayInv(0)'
      OBVIOUS
    <2>1. \A i : 0 <= Weight(i)
      BY DEF WeightsAreNumbers
    <2> QED BY <2>1, ReplayStep
  <1>3. ReplayInv(0) => ReturnsTheIncumbent
    BY LeftBehind DEF ReturnsTheIncumbent
  <1> QED BY <1>1, <1>2, <1>3, PTL DEF Spec

(***************************************************************************)
(* An early exit on the lower-bound track returns a solution within the    *)
(* certified threshold, though the threshold may be raised while the best  *)
(* branch is replayed, and a seed recorded with more than its weight.      *)
(***************************************************************************)
THEOREM CertifiedSolutionsAreValid ==
  ASSUME WeightsAreNumbers, SeedsFit, Thresholds \subseteq Int
  PROVE  Spec /\ []RulesRepeat => []CertifiedIsValid
  <1> DEFINE Within == /\ threshold \in Int
                       /\ stopped = "certified" =>
                            HasSolution /\ best <= threshold /\ pc \in {"replay", "done"}
             IInv == ReplayInv(0) /\ Within
  <1>1. Init => IInv
    <2>1. Init => 0 <= Optimum(original)
      BY DEF WeightsAreNumbers
    <2>2. Init => Within
      BY DEF Init
    <2> QED BY <2>1, <2>2, ReplayInit
  <1>2. IInv /\ RulesRepeat /\ [Next]_vars => IInv'
    <2> SUFFICES ASSUME IInv, RulesRepeat, [Next]_vars PROVE IInv'
      OBVIOUS
    <2>1. \A i : 0 <= Weight(i)
      BY DEF WeightsAreNumbers
    <2>2. ReplayInv(0)'
      BY <2>1, ReplayStep
    <2>3. best \in Nat
      BY DEF ReplayInv, IncumbentRepeats
    <2>4. ASSUME Stop PROVE Within'
      BY <2>4 DEF Stop, Certified, OutOfTime, environment, incumbent, HasSolution, TimeExpired
    <2>5. ASSUME RaiseThreshold PROVE Within'
      <3>1. threshold' \in Int /\ threshold' > threshold
        BY <2>5 DEF RaiseThreshold
      <3>2. UNCHANGED <<stopped, pc, solutionBranch, best>>
        BY <2>5 DEF RaiseThreshold, solver, incumbent
      <3> QED BY <2>3, <3>1, <3>2 DEF HasSolution
    <2>6. ASSUME ~Stop, ~RaiseThreshold PROVE Within'
      <3>1. threshold' = threshold
        BY <2>6 DEF Next, Solve, GoOn, ApplyRule, EnterNextBranch, RollBackAll, Replay, Return,
                    Sigterm, DeadlinePasses, vars, environment
      <3>2. stopped' = "certified" =>
              stopped = "certified" /\ UNCHANGED incumbent /\ pc' \in {"replay", "done"}
        BY <2>6 DEF Next, Solve, GoOn, ApplyRule, EnterNextBranch, RollBackAll, Replay, Return,
                    Sigterm, DeadlinePasses, vars, solver, Continue, Candidate, CutBranch,
                    ImidateReturn, Finish
      <3> QED BY <3>1, <3>2 DEF incumbent, HasSolution
    <2> QED BY <2>2, <2>4, <2>5, <2>6
  <1>3. IInv => CertifiedIsValid
    <2> SUFFICES ASSUME IInv, pc = "done", stopped = "certified"
                 PROVE  result /\ Weight(instance) <= threshold
      BY DEF CertifiedIsValid
    <2>1. result = HasSolution /\ (result => Weight(instance) \in 0..best)
      BY LeftBehind
    <2>2. HasSolution /\ best <= threshold /\ threshold \in Int /\ best \in Nat
      BY DEF ReplayInv, IncumbentRepeats
    <2> QED BY <2>1, <2>2
  <1> QED BY <1>1, <1>2, <1>3, PTL DEF Spec
-----------------------------------------------------------------------------
(***************************************************************************)
(* A search that was not interrupted ends with an optimal solution, bounded*)
(* or not, if no rule loses one that is of use (RulesLoseNothing, which TLC *)
(* checks for the rules of the program).  Until the incumbent is as good as*)
(* the optimum, or the limit is too small for it, an optimal solution is   *)
(* below the present instance, or below a branch of an applied rule that   *)
(* is still to be entered.                                                 *)
(***************************************************************************)

(* A bounded search is only for weights of whole components. *)
SolutionsExist ==
  \A i \in Instances :
    /\ Optimum(i) \in 1..(Unbounded - 1)
    /\ \A c \in Configurations(i) : c.boundedDepthSearch => \E k \in Nat : Optimum(i) = 2 * k

RulesHaveBranches ==
  /\ \A r : MaxBranch(r) \in Nat
  /\ \A i, r, b : \A o \in Apply(i, r, b) : IsSeq(o.suggestion)

-----------------------------------------------------------------------------
(* Branch b of rule r leads from i to a best solution of i. *)
Good(i, r, b) ==
  \A o \in Apply(i, r, b) :
    \/ Continues(o) /\ Optimum(o.instance) = Optimum(i)
    \/ IsCandidate(o) /\ Weight(o.instance) = Optimum(i)

(* One of the branches after the first n does. *)
Ahead(i, r, n) == \E b \in 1..MaxBranch(r) : b > n /\ Good(i, r, b)

Searches == pc \in {"head", "apply", "rollback"}

(* What is still to be searched has a solution of weight w: below the       *)
(* instance, or below a branch of an applied rule that was not entered yet. *)
Below(w) ==
  /\ pc \in {"head", "apply"}
  /\ Optimum(instance) = w
  /\ \/ applyNext = <<>>
     \/ applyNext[1].branch = 0
     \/ Ahead(instance, applyNext[1].rule, applyNext[1].branch)

OnStack(w) ==
  \E k \in DOMAIN appliedRules :
    /\ Optimum(appliedRules[k].before) = w
    /\ Ahead(appliedRules[k].before, appliedRules[k].rule, appliedRules[k].branch)

Covered(w) == OutOfReach(w) \/ Below(w) \/ OnStack(w)

(* A rule is resumed from the front of the queue only. *)
QueueIsFresh ==
  /\ IsSeq(applyNext)
  /\ \A k \in DOMAIN applyNext : applyNext[k].branch \in Nat /\ (k # 1 => applyNext[k].branch = 0)

BranchesAreNumbers ==
  Searches => \A k \in DOMAIN appliedRules : appliedRules[k].branch \in Nat

(* Nothing is better than the original instance allows. *)
NothingBetter(w) ==
  Searches =>
    /\ pc # "rollback" => Optimum(instance) >= w
    /\ \A k \in DOMAIN appliedRules : Optimum(appliedRules[k].before) >= w

(* A bounded search that has run out of time is about to stop. *)
GivenUp == config.boundedDepthSearch /\ pc = "head" /\ OutOfTime

Exploring(w) ==
  Searches =>
    \/ GivenUp
    \/ /\ config.boundedDepthSearch => w > 2 * (maxSize - 1)
       /\ Covered(w)

(* How the search may have ended. *)
Ended(w) ==
  /\ pc = "replay" => stopped # "no"
  /\ stopped = "explored" => pc \in {"replay", "done"} /\ w >= best
  /\ pc = "done" /\ stopped = "no" => result /\ Weight(instance) = w

ExactInv(w) ==
  /\ w = Optimum(original) /\ w \in 1..(Unbounded - 1)
  /\ config.boundedDepthSearch => \E k \in Nat : w = 2 * k
  /\ maxSize \in Nat
  /\ ReplayInv(w)
  /\ QueueIsFresh /\ BranchesAreNumbers
  /\ NothingBetter(w) /\ Exploring(w) /\ Ended(w)

-----------------------------------------------------------------------------
(* What is left of the queue, with suggestions behind it, is all fresh. *)
LEMMA RestIsFresh ==
  ASSUME NEW q, IsSeq(q), \A k \in DOMAIN q : k # 1 => q[k].branch = 0,
         NEW s, IsSeq(s), NEW r,
         r = (IF q = <<>> THEN <<>> ELSE Tail(q)) \o [k \in DOMAIN s |-> Entry(s[k], 0)]
  PROVE  IsSeq(r) /\ \A k \in DOMAIN r : r[k].branch = 0
  <1> DEFINE new == [k \in DOMAIN s |-> Entry(s[k], 0)]
             rest == IF q = <<>> THEN <<>> ELSE Tail(q)
             S == {q[k] : k \in DOMAIN q} \union {Entry(s[k], 0) : k \in DOMAIN s}
  <1>1. PICK n \in Nat : n = Len(q) /\ DOMAIN q = 1..n
    BY DEF IsSeq
  <1>2. PICK m \in Nat : m = Len(s) /\ DOMAIN s = 1..m
    BY DEF IsSeq
  <1>3. new \in Seq(S) /\ Len(new) = m /\ \A k \in 1..m : new[k].branch = 0
    <2>1. \A k \in 1..m : new[k] = Entry(s[k], 0) /\ new[k] \in S
      BY <1>2
    <2>2. new = [k \in 1..m |-> Entry(s[k], 0)]
      BY <1>2
    <2> HIDE DEF new, S
    <2>3. new \in [1..m -> S]
      BY <2>1, <2>2
    <2>4. new \in Seq(S) /\ Len(new) = m
      BY <2>2, <2>3
    <2> QED BY <2>1, <2>4 DEF Entry
  <1>4. rest \in Seq(S) /\ \A k \in 1..Len(rest) : rest[k].branch = 0
    <2>1. CASE q = <<>>
      BY <2>1
    <2>2. CASE q # <<>>
      <3>1. q \in Seq({q[k] : k \in DOMAIN q})
        BY DEF IsSeq
      <3>2. q \in Seq(S) /\ n >= 1
        <4>1. {q[k] : k \in DOMAIN q} \subseteq S
          OBVIOUS
        <4> HIDE DEF S
        <4>2. q \in Seq(S)
          BY <3>1, <4>1, SeqMonotonic
        <4>3. n # 0
          BY <1>1, <2>2, <3>1
        <4> QED BY <4>2, <4>3
      <3> HIDE DEF S
      <3>3. /\ Tail(q) \in Seq(S) /\ Len(Tail(q)) = n - 1
            /\ \A k \in 1..(n - 1) : Tail(q)[k] = q[k + 1]
        BY <1>1, <3>2
      <3>4. \A k \in 1..(n - 1) : k + 1 \in DOMAIN q /\ k + 1 # 1
        BY <1>1
      <3> QED BY <2>2, <3>3, <3>4
    <2> QED BY <2>1, <2>2
  <1>5. r = rest \o new
    OBVIOUS
  <1> HIDE DEF new, rest, S
  <1>6. PICK l \in Nat : l = Len(rest)
    BY <1>4
  <1>7. /\ r \in Seq(S) /\ DOMAIN r = 1..(l + m)
        /\ \A k \in 1..(l + m) : r[k] = IF k <= l THEN rest[k] ELSE new[k - l]
    <2>1. rest \in Seq(S) /\ new \in Seq(S) /\ Len(rest) = l /\ Len(new) = m
      BY <1>3, <1>4, <1>6
    <2>2. r \in Seq(S) /\ Len(r) = l + m
      BY <1>5, <2>1, ConcatProperties
    <2>3. DOMAIN r = 1..(l + m)
      BY <2>2
    <2>4. \A k \in 1..(l + m) : r[k] = IF k <= l THEN rest[k] ELSE new[k - l]
      <3>1. \A k \in 1..(Len(rest) + Len(new)) :
              (rest \o new)[k] = IF k <= Len(rest) THEN rest[k] ELSE new[k - Len(rest)]
        BY <2>1, ConcatProperties
      <3> QED BY <1>5, <2>1, <3>1
    <2> QED BY <2>2, <2>3, <2>4
  <1>8. \A k \in 1..(l + m) : k <= l \/ k - l \in 1..m
    OBVIOUS
  <1>9. IsSeq(r)
    BY <1>7, SeqRange
  <1>10. ASSUME NEW k \in DOMAIN r
         PROVE  r[k].branch = 0
    <2>1. k \in 1..(l + m) /\ k \in Nat
      BY <1>7
    <2>2. CASE k <= l
      <3>1. k \in 1..l
        BY <1>6, <2>1, <2>2
      <3> QED BY <1>4, <1>6, <1>7, <2>1, <2>2, <3>1
    <2>3. CASE ~(k <= l)
      BY <1>3, <1>7, <1>8, <2>1, <2>3
    <2> QED BY <2>2, <2>3
  <1> QED BY <1>9, <1>10

(* The rule to apply: fresh, or resumed from the front of the queue. *)
LEMMA NextIsFresh ==
  ASSUME QueueIsFresh, NEW e \in NextEntries
  PROVE  /\ e.branch \in Nat
         /\ e.branch # 0 => applyNext # <<>> /\ e = applyNext[1]
  <1>1. CASE applyNext = <<>>
    BY <1>1 DEF NextEntries, Entry
  <1>2. CASE applyNext # <<>>
    <2>1. e = applyNext[1] /\ 1 \in DOMAIN applyNext
      BY <1>2 DEF NextEntries, QueueIsFresh, IsSeq
    <2> QED BY <1>2, <2>1 DEF QueueIsFresh
  <1> QED BY <1>1, <1>2

(* After a rule is applied, all that is queued is fresh. *)
LEMMA AppliedQueue ==
  ASSUME RulesHaveBranches, QueueIsFresh, NEW e,
         NEW o \in Apply(instance, e.rule, e.branch + 1), ApplyEntry(e, o)
  PROVE  IsSeq(applyNext') /\ \A k \in DOMAIN applyNext' : applyNext'[k].branch = 0
  <1>1. IsSeq(o.suggestion)
    BY DEF RulesHaveBranches
  <1>2. applyNext' = (IF applyNext = <<>> THEN <<>> ELSE Tail(applyNext))
                       \o [k \in DOMAIN o.suggestion |-> Entry(o.suggestion[k], 0)]
    BY DEF ApplyEntry
  <1>3. IsSeq(applyNext) /\ \A k \in DOMAIN applyNext : k # 1 => applyNext[k].branch = 0
    BY DEF QueueIsFresh
  <1>4. PICK q : q = applyNext
    OBVIOUS
  <1>5. PICK r : r = applyNext'
    OBVIOUS
  <1>6. PICK s : s = o.suggestion
    OBVIOUS
  <1>7. r = (IF q = <<>> THEN <<>> ELSE Tail(q)) \o [k \in DOMAIN s |-> Entry(s[k], 0)]
    BY <1>2, <1>4, <1>5, <1>6
  <1>8. IsSeq(q) /\ IsSeq(s) /\ \A k \in DOMAIN q : k # 1 => q[k].branch = 0
    BY <1>1, <1>3, <1>4, <1>6
  <1>9. IsSeq(r) /\ \A k \in DOMAIN r : r[k].branch = 0
    BY <1>7, <1>8, RestIsFresh
  <1> QED BY <1>5, <1>9

LEMMA QueueStep ==
  ASSUME RulesHaveBranches, PathInv, QueueIsFresh, BranchesAreNumbers, [Next]_vars
  PROVE  QueueIsFresh' /\ BranchesAreNumbers'
  <1>0. IsSeq(appliedRules) /\ StackIsPath
    BY DEF PathInv, Shape
  <1>1. CASE Stop \/ RollBackAll
    <2>1. applyNext' = <<>> /\ appliedRules' = <<>>
      BY <1>1 DEF Stop, RollBackAll, Unwind
    <2> QED BY <2>1, EmptyIsSeq DEF QueueIsFresh, BranchesAreNumbers
  <1>2. CASE ApplyRule
    <2>0. PICK e \in NextEntries : \E o \in Apply(instance, e.rule, e.branch + 1) :
            /\ ApplyEntry(e, o)
            /\ Continue(o) \/ Candidate(o) \/ CutBranch(o) \/ ImidateReturn(o)
      BY <1>2, AppliedEntry
    <2>1. PICK o \in Apply(instance, e.rule, e.branch + 1) : ApplyEntry(e, o)
      BY <2>0
    <2>2. e.branch \in Nat /\ pc = "apply"
      BY <1>2, NextIsFresh DEF ApplyRule
    <2>3. QueueIsFresh'
      BY <2>1, AppliedQueue DEF QueueIsFresh
    <2>4. PICK top : top.branch = e.branch + 1 /\ appliedRules' = Append(appliedRules, top)
      BY <2>1 DEF ApplyEntry
    <2>10. PICK n \in Nat : n = Len(appliedRules)
      BY <1>0, AppendSeq
    <2>5. /\ n = Len(appliedRules) /\ DOMAIN appliedRules' = 1..(n + 1)
          /\ \A k \in 1..n : appliedRules'[k] = appliedRules[k]
          /\ appliedRules'[n + 1] = top
      BY <1>0, <2>4, <2>10, AppendSeq
    <2>6. \A k \in 1..n : appliedRules[k].branch \in Nat
      BY <1>0, <2>2, <2>5 DEF BranchesAreNumbers, Searches, IsSeq
    <2>7. ASSUME NEW k \in 1..(n + 1)
          PROVE  appliedRules'[k].branch \in Nat
      <3>1. CASE k = n + 1
        BY <2>2, <2>4, <2>5, <3>1
      <3>2. CASE k # n + 1
        <4>1. k \in 1..n
          BY <3>2
        <4> QED BY <2>5, <2>6, <4>1
      <3> QED BY <3>1, <3>2
    <2> QED BY <2>3, <2>5, <2>7 DEF BranchesAreNumbers
  <1>3. CASE EnterNextBranch
    <2>1. PICK k \in Open : Reopen(k)
      BY <1>3 DEF EnterNextBranch
    <2>2. k \in DOMAIN appliedRules /\ pc = "rollback"
      BY <1>3, <2>1 DEF Open, EnterNextBranch
    <2>3. PICK q : q = Entry(appliedRules[k].rule, appliedRules[k].branch) /\ applyNext' = <<q>>
      BY <2>1 DEF Reopen
    <2>4. q.branch \in Nat
      BY <2>2, <2>3 DEF Entry, BranchesAreNumbers, Searches
    <2>5. <<q>> \in Seq({q})
      OBVIOUS
    <2>6. IsSeq(applyNext') /\ DOMAIN applyNext' = {1} /\ applyNext'[1] = q
      <3>1. IsSeq(<<q>>)
        BY <2>5, SeqRange
      <3>2. DOMAIN <<q>> = {1} /\ <<q>>[1] = q
        OBVIOUS
      <3> QED BY <2>3, <3>1, <3>2
    <2>7. appliedRules' = SubSeq(appliedRules, 1, k - 1)
      BY <2>1 DEF Reopen
    <2>8. /\ DOMAIN appliedRules' = 1..(k - 1) /\ k \in Nat
          /\ \A j \in 1..(k - 1) : appliedRules'[j] = appliedRules[j] /\ j \in DOMAIN appliedRules
      BY <1>0, <2>2, <2>7, PrefixSeq DEF IsSeq
    <2> QED BY <2>2, <2>4, <2>6, <2>8 DEF QueueIsFresh, BranchesAreNumbers, Searches
  <1>4. CASE GoOn
    BY <1>4 DEF GoOn, search, QueueIsFresh, BranchesAreNumbers, Searches, IsSeq
  <1>5. CASE Replay \/ Return
    BY <1>5 DEF Replay, Return, search, QueueIsFresh, BranchesAreNumbers, Searches, IsSeq
  <1>6. CASE Sigterm \/ DeadlinePasses \/ RaiseThreshold \/ UNCHANGED vars
    BY <1>6 DEF Sigterm, DeadlinePasses, RaiseThreshold, solver, search, vars,
                QueueIsFresh, BranchesAreNumbers, Searches, IsSeq
  <1> QED BY <1>1, <1>2, <1>3, <1>4, <1>5, <1>6 DEF Next, Solve

-----------------------------------------------------------------------------
(* What was ahead on the stack is still ahead when a rule is pushed. *)
LEMMA PushKeepsCover ==
  ASSUME IsSeq(appliedRules), NEW w, OnStack(w), NEW top,
         appliedRules' = Append(appliedRules, top)
  PROVE  OnStack(w)'
  <1>1. PICK k \in DOMAIN appliedRules :
          /\ Optimum(appliedRules[k].before) = w
          /\ Ahead(appliedRules[k].before, appliedRules[k].rule, appliedRules[k].branch)
    BY DEF OnStack
  <1>2. appliedRules'[k] = appliedRules[k] /\ k \in DOMAIN appliedRules'
    BY AppendSeq DEF IsSeq
  <1> QED BY <1>1, <1>2 DEF OnStack

(* A branch of the present rule leads to the solution, if one is of use. *)
LEMMA SomeBranchIsGood ==
  ASSUME NEW w \in Nat, w < Unbounded, QueueIsFresh, RulesLoseNothing, pc = "apply", Below(w),
         NEW e \in NextEntries
  PROVE  OutOfReach(w) \/ Ahead(instance, e.rule, e.branch)
  <1>1. CASE e.branch = 0
    <2>1. PICK b \in 1..MaxBranch(e.rule) :
            \A o \in Apply(instance, e.rule, b) : KeepsOptimum(o)
      BY <1>1 DEF RulesLoseNothing, Below
    <2>2. OutOfReach(w) \/ Good(instance, e.rule, b)
      BY <2>1 DEF KeepsOptimum, Good, Below
    <2>3. b > e.branch
      BY <1>1
    <2> QED BY <2>2, <2>3 DEF Ahead
  <1>2. CASE e.branch # 0
    BY <1>2, NextIsFresh DEF Below
  <1> QED BY <1>1, <1>2

(* Applying a rule loses no solution of use: it is found, or still below    *)
(* the instance, or left to a later branch of the rule.                     *)
LEMMA ApplyKeepsCover ==
  ASSUME WeightsAreNumbers, RulesHaveBranches, NEW w \in Nat, w < Unbounded, best \in Nat,
         IsSeq(appliedRules), QueueIsFresh, RulesLoseNothing, ApplyRule, Covered(w)
  PROVE  pc' \in {"replay", "done"} \/ (Covered(w)' /\ maxSize' = maxSize)
  <1>0. PICK e \in NextEntries : \E o \in Apply(instance, e.rule, e.branch + 1) :
          /\ ApplyEntry(e, o)
          /\ Continue(o) \/ Candidate(o) \/ CutBranch(o) \/ ImidateReturn(o)
    BY AppliedEntry
  <1>1. PICK o \in Apply(instance, e.rule, e.branch + 1) :
          /\ ApplyEntry(e, o)
          /\ Continue(o) \/ Candidate(o) \/ CutBranch(o) \/ ImidateReturn(o)
    BY <1>0
  <1>2. pc = "apply" /\ config' = config
    BY DEF ApplyRule
  <1>3. e.branch \in Nat /\ NoBetter(o)
    BY <1>1, <1>2, NextIsFresh DEF RulesLoseNothing
  <1>4. PICK top : /\ top.rule = e.rule /\ top.branch = e.branch + 1 /\ top.before = instance
                   /\ appliedRules' = Append(appliedRules, top)
    BY <1>1 DEF ApplyEntry
  <1>5. instance' = o.instance /\ Weight(o.instance) \in Nat
    BY <1>1 DEF ApplyEntry, WeightsAreNumbers
  <1> SUFFICES ASSUME pc' \notin {"replay", "done"} PROVE Covered(w)' /\ maxSize' = maxSize
    OBVIOUS
  <1>6. maxSize' = maxSize /\ best' <= best /\ best' \in Nat
    BY <1>1, <1>3, <1>5 DEF Continue, Candidate, CutBranch, ImidateReturn, Finish, NoBetter,
                            CheckSolutionCandidate, incumbent
  <1>7. CASE OutOfReach(w)
    BY <1>2, <1>6, <1>7 DEF OutOfReach, Covered
  <1>8. CASE OnStack(w)
    BY <1>4, <1>6, <1>8, PushKeepsCover DEF Covered
  <1>9. CASE Below(w) /\ ~OutOfReach(w)
    <2>1. PICK b \in 1..MaxBranch(e.rule) : b > e.branch /\ Good(instance, e.rule, b)
      BY <1>2, <1>9, SomeBranchIsGood DEF Ahead
    <2>2. CASE b = e.branch + 1
      <3>1. Optimum(instance) = w
        BY <1>9 DEF Below
      <3>2. CASE Continues(o) /\ Optimum(o.instance) = w
        <4>1. pc' = "head"
          BY <1>1, <3>2 DEF Continues, Continue, Candidate, CutBranch, ImidateReturn
        <4>2. applyNext' = <<>> \/ applyNext'[1].branch = 0
          <5>1. IsSeq(applyNext') /\ \A k \in DOMAIN applyNext' : applyNext'[k].branch = 0
            BY <1>1, AppliedQueue
          <5>2. PICK q : q = applyNext'
            OBVIOUS
          <5>3. q # <<>> => 1 \in DOMAIN q
            BY <5>1, <5>2 DEF IsSeq
          <5> QED BY <5>1, <5>2, <5>3
        <4> QED BY <1>5, <1>6, <3>2, <4>1, <4>2 DEF Below, Covered
      <3>3. CASE IsCandidate(o) /\ Weight(o.instance) = w
        <4>1. ~config.boundedDepthSearch /\ CheckSolutionCandidate
          BY <1>1, <3>3 DEF IsCandidate, Continue, Candidate, CutBranch, ImidateReturn
        <4>2. best' <= w
          BY <1>5, <1>6, <3>3, <4>1 DEF CheckSolutionCandidate, incumbent
        <4> QED BY <1>2, <1>6, <4>1, <4>2 DEF OutOfReach, Covered
      <3> QED BY <2>1, <2>2, <3>1, <3>2, <3>3 DEF Good
    <2>3. CASE b # e.branch + 1
      <3>1. b > e.branch + 1
        BY <1>3, <2>1, <2>3
      <3>2. Ahead(instance, e.rule, e.branch + 1)
        BY <2>1, <3>1 DEF Ahead
      <3>3. /\ appliedRules'[Len(appliedRules) + 1] = top
            /\ Len(appliedRules) + 1 \in DOMAIN appliedRules'
        BY <1>4, AppendSeq
      <3> QED BY <1>4, <1>6, <1>9, <3>2, <3>3 DEF Below, OnStack, Covered
    <2> QED BY <2>2, <2>3
  <1> QED BY <1>6, <1>7, <1>8, <1>9 DEF Covered

(* The last open rule is resumed: what is ahead is there, or before it. *)
LEMMA ReopenKeepsCover ==
  ASSUME RulesHaveBranches, NEW w, IsSeq(appliedRules), BranchesAreNumbers, EnterNextBranch,
         Covered(w)
  PROVE  Covered(w)'
  <1>1. PICK k \in Open : (\A j \in Open : j <= k) /\ Reopen(k)
    BY DEF EnterNextBranch
  <1>2. /\ pc = "rollback" /\ pc' = "head"
        /\ UNCHANGED <<config, maxSize, best>>
    BY DEF EnterNextBranch, incumbent
  <1>3. CASE OutOfReach(w)
    BY <1>2, <1>3 DEF OutOfReach, Covered
  <1>4. CASE OnStack(w)
    <2>1. PICK j \in DOMAIN appliedRules :
            /\ Optimum(appliedRules[j].before) = w
            /\ Ahead(appliedRules[j].before, appliedRules[j].rule, appliedRules[j].branch)
      BY <1>4 DEF OnStack
    <2>2. j \in Open
      <3>1. PICK b \in 1..MaxBranch(appliedRules[j].rule) : b > appliedRules[j].branch
        BY <2>1 DEF Ahead
      <3>2. appliedRules[j].branch \in Nat /\ MaxBranch(appliedRules[j].rule) \in Nat
        BY <1>2 DEF BranchesAreNumbers, Searches, RulesHaveBranches
      <3> QED BY <3>1, <3>2 DEF Open
    <2>3. j <= k /\ k \in DOMAIN appliedRules
      BY <1>1, <2>2 DEF Open
    <2>4. /\ instance' = appliedRules[k].before
          /\ appliedRules' = SubSeq(appliedRules, 1, k - 1)
          /\ applyNext' = <<Entry(appliedRules[k].rule, appliedRules[k].branch)>>
      BY <1>1 DEF Reopen
    <2>5. CASE j = k
      <3>1. applyNext'[1].rule = appliedRules[k].rule /\ applyNext'[1].branch = appliedRules[k].branch
        BY <2>4 DEF Entry
      <3> QED BY <1>2, <2>1, <2>4, <2>5, <3>1 DEF Below, Covered
    <2>6. CASE j # k
      <3>1. j \in DOMAIN appliedRules' /\ appliedRules'[j] = appliedRules[j]
        BY <2>3, <2>4, <2>6, PrefixSeq DEF IsSeq
      <3> QED BY <2>1, <3>1 DEF OnStack, Covered
    <2> QED BY <2>5, <2>6
  <1> QED BY <1>2, <1>3, <1>4 DEF Covered, Below

(* Nothing is left to explore: the solution is of no use. *)
LEMMA NothingLeft ==
  ASSUME RulesHaveBranches, NEW w, BranchesAreNumbers, pc = "rollback", Open = {}, Covered(w)
  PROVE  OutOfReach(w)
  <1> SUFFICES ASSUME OnStack(w) PROVE FALSE
    BY DEF Covered, Below
  <1>1. PICK j \in DOMAIN appliedRules :
          Ahead(appliedRules[j].before, appliedRules[j].rule, appliedRules[j].branch)
    BY DEF OnStack
  <1>2. PICK b \in 1..MaxBranch(appliedRules[j].rule) : b > appliedRules[j].branch
    BY <1>1 DEF Ahead
  <1>3. appliedRules[j].branch \in Nat /\ MaxBranch(appliedRules[j].rule) \in Nat
    BY DEF BranchesAreNumbers, Searches, RulesHaveBranches
  <1> QED BY <1>2, <1>3 DEF Open

-----------------------------------------------------------------------------
(* Nothing better than an optimal solution comes up. *)
LEMMA NothingBetterStep ==
  ASSUME WeightsAreNumbers, NEW w \in Nat, w = Optimum(original), PathInv, NothingBetter(w),
         RulesLoseNothing, [Next]_vars
  PROVE  NothingBetter(w)'
  <1>0. IsSeq(appliedRules) /\ StackIsPath
    BY DEF PathInv, Shape
  <1>1. CASE Stop \/ RollBackAll
    <2>1. instance' = original /\ appliedRules' = <<>>
      BY <1>0, <1>1, UnwindIsPristine DEF Stop, RollBackAll
    <2> QED BY <2>1 DEF NothingBetter, WeightsAreNumbers
  <1>2. CASE ApplyRule
    <2>0. PICK e \in NextEntries : \E o \in Apply(instance, e.rule, e.branch + 1) :
            /\ ApplyEntry(e, o)
            /\ Continue(o) \/ Candidate(o) \/ CutBranch(o) \/ ImidateReturn(o)
      BY <1>2, AppliedEntry
    <2>1. PICK o \in Apply(instance, e.rule, e.branch + 1) :
            /\ ApplyEntry(e, o)
            /\ Continue(o) \/ Candidate(o) \/ CutBranch(o) \/ ImidateReturn(o)
      BY <2>0
    <2>2. pc = "apply" /\ Searches
      BY <1>2 DEF ApplyRule, Searches
    <2>3. NoBetter(o) /\ Optimum(instance) >= w
      BY <2>1, <2>2 DEF RulesLoseNothing, NothingBetter
    <2>4. PICK top : top.before = instance /\ appliedRules' = Append(appliedRules, top)
      BY <2>1 DEF ApplyEntry
    <2>10. PICK n \in Nat : n = Len(appliedRules) /\ DOMAIN appliedRules = 1..n
      BY <1>0 DEF IsSeq
    <2>5. /\ DOMAIN appliedRules' = 1..(n + 1)
          /\ \A k \in 1..n : appliedRules'[k] = appliedRules[k]
          /\ appliedRules'[n + 1] = top
      BY <1>0, <2>4, <2>10, AppendSeq
    <2>6. ASSUME NEW k \in 1..(n + 1)
          PROVE  Optimum(appliedRules'[k].before) >= w
      <3>1. CASE k = n + 1
        BY <2>3, <2>4, <2>5, <3>1
      <3>2. CASE k # n + 1
        <4>1. k \in 1..n
          BY <3>2
        <4> QED BY <2>2, <2>5, <2>10, <4>1 DEF NothingBetter
      <3> QED BY <3>1, <3>2
    <2>7. pc' \in {"head", "apply"} => Continues(o)
      BY <2>1, <2>3 DEF Continue, Candidate, CutBranch, ImidateReturn, Finish, NoBetter, Continues
    <2>8. instance' = o.instance
      BY <2>1 DEF ApplyEntry
    <2>9. pc' \in {"head", "apply"} => Optimum(instance') >= w
      BY <2>3, <2>7, <2>8 DEF NoBetter, WeightsAreNumbers
    <2> QED BY <2>5, <2>6, <2>9 DEF NothingBetter, Searches
  <1>3. CASE EnterNextBranch
    <2>1. PICK k \in Open : Reopen(k)
      BY <1>3 DEF EnterNextBranch
    <2>2. k \in DOMAIN appliedRules /\ pc = "rollback" /\ Searches
      BY <1>3, <2>1 DEF Open, EnterNextBranch, Searches
    <2>3. appliedRules' = SubSeq(appliedRules, 1, k - 1) /\ instance' = appliedRules[k].before
      BY <2>1 DEF Reopen
    <2>4. /\ DOMAIN appliedRules' = 1..(k - 1) /\ k \in Nat
          /\ \A j \in 1..(k - 1) : appliedRules'[j] = appliedRules[j] /\ j \in DOMAIN appliedRules
      BY <1>0, <2>2, <2>3, PrefixSeq DEF IsSeq
    <2> QED BY <2>2, <2>3, <2>4 DEF NothingBetter
  <1>4. CASE GoOn
    BY <1>4 DEF GoOn, search, NothingBetter, Searches
  <1>5. CASE Replay \/ Return
    BY <1>5 DEF Replay, Return, NothingBetter, Searches
  <1>6. CASE Sigterm \/ DeadlinePasses \/ RaiseThreshold \/ UNCHANGED vars
    BY <1>6 DEF Sigterm, DeadlinePasses, RaiseThreshold, solver, search, vars,
                NothingBetter, Searches
  <1> QED BY <1>1, <1>2, <1>3, <1>4, <1>5, <1>6 DEF Next, Solve

(* Where a bounded search runs out of time, it is out of time at the head. *)
LEMMA OutOfTimeStays ==
  ASSUME OutOfTime, config' = config, UNCHANGED incumbent,
         timeoutFlag => timeoutFlag', clock => clock', ReadClock \/ UNCHANGED timing
  PROVE  OutOfTime'
  BY DEF OutOfTime, TimeExpired, KnownExpired, HasSolution, incumbent, ReadClock, timing

LEMMA ExploringStep ==
  ASSUME WeightsAreNumbers, RulesHaveBranches, NEW w, ExactInv(w), RulesLoseNothing, [Next]_vars
  PROVE  Exploring(w)'
  <1>0. /\ IsSeq(appliedRules) /\ StackIsPath /\ best \in Nat /\ maxSize \in Nat
        /\ w \in Nat /\ w < Unbounded /\ w = Optimum(original) /\ Exploring(w)
        /\ QueueIsFresh /\ BranchesAreNumbers
    BY DEF ExactInv, ReplayInv, PathInv, Shape, IncumbentRepeats, WeightsAreNumbers
  <1>1. CASE Stop \/ Replay \/ Return
    BY <1>1 DEF Stop, Replay, Return, Exploring, Searches
  <1>2. CASE GoOn
    <2>1. pc = "head" /\ pc' = "apply" /\ ~OutOfTime
          /\ UNCHANGED <<config, instance, appliedRules, applyNext, best, maxSize>>
      BY <1>2 DEF GoOn, search, incumbent
    <2>2. /\ config.boundedDepthSearch => w > 2 * (maxSize - 1)
          /\ Covered(w)
      BY <1>0, <2>1 DEF Exploring, Searches, GivenUp
    <2>3. Covered(w)'
      BY <2>1, <2>2 DEF Covered, OutOfReach, Below, OnStack
    <2> QED BY <2>1, <2>2, <2>3 DEF Exploring
  <1>3. CASE ApplyRule
    <2>1. pc = "apply" /\ config' = config
      BY <1>3 DEF ApplyRule
    <2>2. /\ config.boundedDepthSearch => w > 2 * (maxSize - 1)
          /\ Covered(w)
      BY <1>0, <2>1 DEF Exploring, Searches, GivenUp
    <2>3. pc' \in {"replay", "done"} \/ (Covered(w)' /\ maxSize' = maxSize)
      BY <1>0, <1>3, <2>2, ApplyKeepsCover
    <2> QED BY <2>1, <2>2, <2>3 DEF Exploring, Searches
  <1>4. CASE EnterNextBranch
    <2>1. pc = "rollback" /\ config' = config /\ maxSize' = maxSize
      BY <1>4 DEF EnterNextBranch
    <2>2. /\ config.boundedDepthSearch => w > 2 * (maxSize - 1)
          /\ Covered(w)
      BY <1>0, <2>1 DEF Exploring, Searches, GivenUp
    <2>3. Covered(w)'
      BY <1>0, <1>4, <2>2, ReopenKeepsCover
    <2> QED BY <2>1, <2>2, <2>3 DEF Exploring
  <1>5. CASE RollBackAll
    <2>1. /\ pc = "rollback" /\ config' = config /\ UNCHANGED incumbent /\ UNCHANGED environment
          /\ ReadClock /\ (OutOfTime \/ Open = {})
      BY <1>5 DEF RollBackAll
    <2>2. instance' = original /\ appliedRules' = <<>> /\ applyNext' = <<>>
      BY <1>0, <1>5, UnwindIsPristine DEF RollBackAll, Unwind
    <2>3. CASE ~config.boundedDepthSearch
      BY <1>5, <2>3 DEF RollBackAll, Finish, Exploring, Searches
    <2>4. CASE config.boundedDepthSearch
      <3>1. maxSize' = maxSize + 1 /\ pc' = "head"
        BY <1>5, <2>4 DEF RollBackAll, Finish
      <3>2. CASE OutOfTime
        <4>1. OutOfTime'
          BY <2>1, <3>2, OutOfTimeStays DEF environment
        <4> QED BY <2>1, <2>4, <3>1, <4>1 DEF Exploring, GivenUp
      <3>3. CASE Open = {}
        <4>1. Covered(w)
          BY <1>0, <2>1 DEF Exploring, Searches, GivenUp
        <4>2. w > 2 * maxSize
          BY <1>0, <2>1, <2>4, <3>3, <4>1, NothingLeft DEF OutOfReach
        <4>3. Below(w)'
          BY <1>0, <2>2, <3>1 DEF Below
        <4>4. w > 2 * (maxSize' - 1)
          BY <1>0, <3>1, <4>2
        <4> QED BY <4>3, <4>4 DEF Exploring, Covered
      <3> QED BY <2>1, <3>2, <3>3
    <2> QED BY <2>3, <2>4
  <1>6. CASE Sigterm \/ DeadlinePasses \/ RaiseThreshold \/ UNCHANGED vars
    <2>1. /\ UNCHANGED <<config, instance, appliedRules, applyNext, best, maxSize, pc>>
          /\ UNCHANGED incumbent /\ UNCHANGED timing
          /\ (timeoutFlag => timeoutFlag') /\ (clock => clock')
      BY <1>6 DEF Sigterm, DeadlinePasses, RaiseThreshold, solver, search, vars, incumbent,
                  environment
    <2>2. GivenUp => GivenUp'
      BY <2>1, OutOfTimeStays DEF GivenUp
    <2>3. Covered(w) => Covered(w)'
      BY <2>1 DEF Covered, OutOfReach, Below, OnStack
    <2> QED BY <1>0, <2>1, <2>2, <2>3 DEF Exploring, Searches
  <1> QED BY <1>1, <1>2, <1>3, <1>4, <1>5, <1>6 DEF Next, Solve

(* A bounded search returns its first candidate: none is smaller. *)
LEMMA BoundedCandidate ==
  ASSUME WeightsAreNumbers, NEW w, ExactInv(w), pc = "apply", config.boundedDepthSearch,
         NEW o, NoBetter(o), IsCandidate(o)
  PROVE  Weight(o.instance) = w
  <1>1. w \in Nat /\ maxSize \in Nat /\ Optimum(instance) >= w /\ Optimum(instance) \in Nat
    BY DEF ExactInv, NothingBetter, Searches, WeightsAreNumbers
  <1>2. w > 2 * (maxSize - 1)
    BY DEF ExactInv, Exploring, Searches, GivenUp
  <1>3. PICK k \in 1..maxSize : Weight(o.instance) = 2 * k
    BY DEF NoBetter
  <1>4. PICK j \in Nat : w = 2 * j
    BY DEF ExactInv
  <1>5. Weight(o.instance) >= Optimum(instance) /\ Weight(o.instance) \in Nat
    BY DEF NoBetter, WeightsAreNumbers
  <1>6. 2 * k >= 2 * j /\ 2 * j > 2 * (maxSize - 1) /\ k <= maxSize /\ k \in Nat
    BY <1>1, <1>2, <1>3, <1>4, <1>5
  <1>7. k = j
    BY <1>1, <1>4, <1>6
  <1> QED BY <1>3, <1>4, <1>7

LEMMA EndedStep ==
  ASSUME WeightsAreNumbers, RulesHaveBranches, NEW w, ExactInv(w), RulesLoseNothing, [Next]_vars
  PROVE  Ended(w)'
  <1>0. Ended(w) /\ Searching /\ Exploring(w) /\ BranchesAreNumbers
    BY DEF ExactInv, ReplayInv
  <1>1. CASE Stop
    BY <1>1 DEF Stop, Ended
  <1>2. CASE GoOn \/ EnterNextBranch
    BY <1>0, <1>2 DEF GoOn, EnterNextBranch, Ended, Searching
  <1>3. CASE ApplyRule
    <2>0. PICK e \in NextEntries : \E o \in Apply(instance, e.rule, e.branch + 1) :
            /\ ApplyEntry(e, o)
            /\ Continue(o) \/ Candidate(o) \/ CutBranch(o) \/ ImidateReturn(o)
      BY <1>3, AppliedEntry
    <2>1. PICK o \in Apply(instance, e.rule, e.branch + 1) :
            /\ ApplyEntry(e, o)
            /\ Continue(o) \/ Candidate(o) \/ CutBranch(o) \/ ImidateReturn(o)
      BY <2>0
    <2>2. pc = "apply" /\ stopped = "no"
      BY <1>0, <1>3 DEF ApplyRule, Searching
    <2>3. NoBetter(o) /\ instance' = o.instance
      BY <2>1, <2>2 DEF RulesLoseNothing, ApplyEntry
    <2>4. CASE Candidate(o) /\ config.boundedDepthSearch
      <3>1. Weight(o.instance) = w
        BY <2>2, <2>3, <2>4, BoundedCandidate DEF Candidate, IsCandidate
      <3> QED BY <2>2, <2>3, <2>4, <3>1 DEF Candidate, Ended
    <2>5. CASE ~(Candidate(o) /\ config.boundedDepthSearch)
      <3>1. \/ pc' \in {"head", "rollback"} /\ stopped' = "no"
            \/ pc' = "replay" /\ stopped' = "return"
        BY <2>1, <2>2, <2>5 DEF Continue, Candidate, CutBranch, ImidateReturn, Finish
      <3> QED BY <3>1 DEF Ended
    <2> QED BY <2>4, <2>5
  <1>4. CASE RollBackAll
    <2>1. pc = "rollback" /\ stopped = "no" /\ UNCHANGED incumbent
      BY <1>0, <1>4 DEF RollBackAll, Searching
    <2>2. CASE config.boundedDepthSearch
      BY <1>4, <2>1, <2>2 DEF RollBackAll, Finish, Ended
    <2>3. CASE ~config.boundedDepthSearch /\ OutOfTime
      BY <1>4, <2>3 DEF RollBackAll, Finish, Ended
    <2>4. CASE ~config.boundedDepthSearch /\ ~OutOfTime
      <3>1. Covered(w) /\ Open = {}
        BY <1>0, <1>4, <2>1, <2>4 DEF RollBackAll, Exploring, Searches, GivenUp
      <3>2. w >= best
        BY <1>0, <2>1, <2>4, <3>1, NothingLeft DEF OutOfReach
      <3> QED BY <1>4, <2>1, <2>4, <3>2 DEF RollBackAll, Finish, Ended, incumbent
    <2> QED BY <2>2, <2>3, <2>4
  <1>5. CASE Replay \/ Return
    BY <1>0, <1>5 DEF Replay, Return, Ended, incumbent
  <1>6. CASE Sigterm \/ DeadlinePasses \/ RaiseThreshold \/ UNCHANGED vars
    BY <1>0, <1>6 DEF Sigterm, DeadlinePasses, RaiseThreshold, solver, search, incumbent, vars,
                      Ended
  <1> QED BY <1>1, <1>2, <1>3, <1>4, <1>5, <1>6 DEF Next, Solve

-----------------------------------------------------------------------------
LEMMA ExactInit ==
  ASSUME WeightsAreNumbers, SeedsFit, SolutionsExist, Init
  PROVE  ExactInv(Optimum(original))
  <1> DEFINE w == Optimum(original)
  <1>1. original \in Instances /\ config \in Configurations(original)
    BY DEF Init
  <1>2. w \in 1..(Unbounded - 1) /\ w \in Nat
        /\ (config.boundedDepthSearch => \E k \in Nat : w = 2 * k)
    BY <1>1 DEF SolutionsExist, WeightsAreNumbers
  <1>3. ReplayInv(w)
    BY <1>2, ReplayInit
  <1>4. /\ pc = "head" /\ stopped = "no" /\ maxSize = 1 /\ instance = original
        /\ appliedRules = <<>> /\ applyNext = <<>>
    BY DEF Init
  <1> HIDE DEF w
  <1>5. QueueIsFresh /\ BranchesAreNumbers
    BY <1>4, EmptyIsSeq DEF QueueIsFresh, BranchesAreNumbers
  <1>6. NothingBetter(w) /\ Below(w)
    BY <1>2, <1>4 DEF w, NothingBetter, Below
  <1>7. Exploring(w) /\ Ended(w)
    BY <1>2, <1>4, <1>6 DEF Exploring, Covered, Ended
  <1> QED BY <1>2, <1>3, <1>4, <1>5, <1>6, <1>7 DEF w, ExactInv

LEMMA ExactStep ==
  ASSUME WeightsAreNumbers, RulesHaveBranches, NEW w, ExactInv(w), RulesRepeat, RulesLoseNothing,
         [Next]_vars
  PROVE  ExactInv(w)'
  <1>1. PathInv /\ w \in Nat /\ w = Optimum(original) /\ NothingBetter(w)
    BY DEF ExactInv, ReplayInv
  <1>2. original' = original
    BY <1>1, StackStep DEF PathInv
  <1>3. config' = config
    BY DEF Next, Solve, Stop, GoOn, ApplyRule, EnterNextBranch, RollBackAll, Replay, Return,
           Sigterm, DeadlinePasses, RaiseThreshold, solver, vars
  <1>4. maxSize' \in Nat
    BY DEF ExactInv, Next, Solve, Stop, GoOn, ApplyRule, EnterNextBranch, RollBackAll, Replay,
           Return, Sigterm, DeadlinePasses, RaiseThreshold, solver, vars, Continue, Candidate,
           CutBranch, ImidateReturn, Finish
  <1>5. pc = "apply" => \A e \in NextEntries : \A o \in Apply(instance, e.rule, e.branch + 1) :
          o.code = "EndBranchWithSolutionCandidate" => w <= Weight(o.instance)
    <2> SUFFICES ASSUME pc = "apply", NEW e \in NextEntries,
                        NEW o \in Apply(instance, e.rule, e.branch + 1),
                        o.code = "EndBranchWithSolutionCandidate"
                 PROVE  w <= Weight(o.instance)
      OBVIOUS
    <2>1. NoBetter(o)
      BY DEF RulesLoseNothing
    <2>2. Weight(o.instance) >= Optimum(instance)
      BY <2>1 DEF NoBetter, IsCandidate
    <2>3. Optimum(instance) >= w
      BY <1>1 DEF NothingBetter, Searches
    <2> QED BY <1>1, <2>2, <2>3 DEF WeightsAreNumbers
  <1>6. ReplayInv(w)'
    BY <1>1, <1>5, ReplayStep DEF ExactInv
  <1>7. QueueIsFresh' /\ BranchesAreNumbers'
    BY <1>1, QueueStep DEF ExactInv
  <1>8. NothingBetter(w)'
    BY <1>1, NothingBetterStep
  <1>9. Exploring(w)' /\ Ended(w)'
    BY ExploringStep, EndedStep
  <1> QED BY <1>2, <1>3, <1>4, <1>6, <1>7, <1>8, <1>9 DEF ExactInv

(***************************************************************************)
(* A search that was not interrupted ends with a solution of the least     *)
(* weight there is, bounded or not: pruning by the incumbent or its seed,  *)
(* rolling back, resuming a rule in its next branch and dropping the queue *)
(* lose nothing that the rules themselves do not lose (solve).             *)
(***************************************************************************)
THEOREM SearchIsExact ==
  ASSUME WeightsAreNumbers, SeedsFit, SolutionsExist, RulesHaveBranches
  PROVE  Spec /\ []RulesRepeat /\ []RulesLoseNothing => []ExactWhenExplored
  <1> DEFINE IInv == \E w : ExactInv(w)
  <1>1. Init => IInv
    BY ExactInit
  <1>2. IInv /\ RulesRepeat /\ RulesLoseNothing /\ [Next]_vars => IInv'
    BY ExactStep
  <1>3. IInv => ExactWhenExplored
    <2> SUFFICES ASSUME NEW w, ExactInv(w), pc = "done", stopped \in {"explored", "no"}
                 PROVE  result /\ Weight(instance) = Optimum(original)
      BY DEF ExactWhenExplored
    <2>1. /\ w = Optimum(original) /\ w \in Nat /\ w < Unbounded /\ Unbounded \in Nat
          /\ ReplayInv(w) /\ Ended(w)
      BY DEF ExactInv, WeightsAreNumbers
    <2>2. CASE stopped = "no"
      BY <2>1, <2>2 DEF Ended
    <2>3. CASE stopped = "explored"
      <3>1. best \in Nat /\ best <= w /\ (~HasSolution => best = Unbounded)
        BY <2>1, <2>3 DEF Ended, ReplayInv, IncumbentRepeats
      <3>2. result = HasSolution /\ (result => Weight(instance) \in w..best)
        BY <2>1, <2>3, LeftBehind
      <3>3. HasSolution
        BY <2>1, <3>1
      <3> QED BY <2>1, <3>1, <3>2, <3>3
    <2> QED BY <2>2, <2>3
  <1> QED BY <1>1, <1>2, <1>3, PTL DEF Spec
=============================================================================
