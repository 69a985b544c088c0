--------------------------- MODULE ThreeApproxDual ---------------------------
(***************************************************************************)
(* computeDual3ApproxLowerBound of                                         *)
(* src/src/Solver/Approximation/ThreeApproxDual.cpp: every turn of its     *)
(* loop takes a cherry of the first forest and cuts off one or both of its *)
(* leaves, or merges them.                                                 *)
(***************************************************************************)
EXTENDS MutableForestView

(* findActiveCherry: the first in the order of the nodes. *)
ActiveCherry == Head(Cherries(t1))

SearchesCherry == Cardinality(active) >= 2 /\ Cherries(t1) # <<>>

(* Line 5: w, alone in its component, is finalised. *)
FinaliseSingleton ==
  /\ SearchesCherry
  /\ \E u \in {ActiveCherry[1]}, v \in {ActiveCherry[2]} :
       /\ AloneInTree(t2, u) \/ AloneInTree(t2, v)
       /\ \E w \in {IF AloneInTree(t2, u) THEN u ELSE v} :
            /\ t1' = Cut(t1, {w})
            /\ t2' = Cut(t2, {w})
            /\ active' = active \ {w}
            /\ dualSum' = dualSum + 1

(* Line 8: a cherry of both. *)
MergeCherry ==
  /\ SearchesCherry
  /\ \E u \in {ActiveCherry[1]}, v \in {ActiveCherry[2]} :
       /\ ~AloneInTree(t2, u) /\ ~AloneInTree(t2, v)
       /\ ActiveSiblings(t2, u, v)
       /\ active' = active \ {u}
  /\ UNCHANGED <<t1, t2, dualSum>>

(* findBlockingW: the pendant between u and v that is met first. *)
Blocking(u, v) ==
  IF ~SameTree(t2, u, v) THEN {}
  ELSE IF BelowLca(t2, u, v) THEN {Pendant(t2, u)}
  ELSE IF BelowLca(t2, v, u) THEN {Pendant(t2, v)} ELSE {}

(* A slip: the cut of the pendant is not charged. *)
ConflictChargeOfPair(blocking) == 2 - 1

(* What the two leaves credit, the pendant and their ancestor charge. *)
ConflictCharge(blocking) == 2 - 1 - Cardinality(blocking)

(* Lines 10 to 13: the leaves do not match. *)
CutCherryOff ==
  /\ SearchesCherry
  /\ \E u \in {ActiveCherry[1]}, v \in {ActiveCherry[2]} :
       /\ ~AloneInTree(t2, u) /\ ~AloneInTree(t2, v)
       /\ ~ActiveSiblings(t2, u, v)
       /\ t2' = [t2 EXCEPT !.cut = @ \union Blocking(u, v) \union {{u}, {v}}]
       /\ t1' = Cut(Cut(t1, {u}), {v})
       /\ active' = active \ {u, v}
       /\ dualSum' = dualSum + ConflictCharge(Blocking(u, v))

AtLeastOne(sum) == IF sum > 1 THEN sum ELSE 1

(* Line 18, and the bound. *)
ThreeApproxBound == AtLeastOne(dualSum + IF Cardinality(active) = 1 THEN 1 ELSE 0)
=============================================================================
