------------------------- MODULE ForestEditingProofs -------------------------
(***************************************************************************)
(* The forests stay X-forests, for every label set, every number of forests*)
(* and every starting forest; and what the edits do to the components of a *)
(* forest: a cut makes one more root, inside the component that is cut;    *)
(* collapsing a subtree and giving it back change none.                    *)
(***************************************************************************)
EXTENDS ForestEditing, LaminarForestProofs

-----------------------------------------------------------------------------
(* The same types as sets of functions, as the provers like them. *)
ForestSet == UNION {[S -> SUBSET Label] : S \in SUBSET Node}

Typed ==
  /\ forest \in [Tree -> ForestSet]
  /\ history \in Seq([Tree -> ForestSet])
  /\ final \in BOOLEAN

LEMMA InstanceIsTyped ==
  ASSUME NEW g
  PROVE  IsInstance(g) <=> g \in [Tree -> ForestSet]
PROOF
  <1>1. \A f : IsForest(f) <=> f \in ForestSet
    BY DEF IsForest, ForestSet
  <1> QED BY <1>1 DEF IsInstance

LEMMA EditTypes ==
  ASSUME NEW f \in ForestSet, NEW n, NEW p, NEW h \in ForestSet
  PROVE  /\ CutEdge(f, n, p) \in ForestSet
         /\ CollapseSubtree(f, n) \in ForestSet
         /\ ExpandSubtree(f, h, n) \in ForestSet
PROOF
  <1>1. PICK S \in SUBSET Node : f \in [S -> SUBSET Label]
    BY DEF ForestSet
  <1>2. CutEdge(f, n, p) \in [S \ {p} -> SUBSET Label]
    BY <1>1 DEF CutEdge
  <1>3. CollapseSubtree(f, n) \in [{k \in S : ~Below(f, k, n)} -> SUBSET Label]
    BY <1>1 DEF CollapseSubtree
  <1>4. PICK T \in SUBSET Node : h \in [T -> SUBSET Label]
    BY DEF ForestSet
  <1>5. ExpandSubtree(f, h, n)
          \in [S \union {k \in T : Below(h, k, n)} -> SUBSET Label]
    BY <1>1, <1>4 DEF ExpandSubtree
  <1>6. S \ {p} \in SUBSET Node /\ {k \in S : ~Below(f, k, n)} \in SUBSET Node
        /\ S \union {k \in T : Below(h, k, n)} \in SUBSET Node
    BY <1>1, <1>4
  <1> QED BY <1>2, <1>3, <1>5, <1>6 DEF ForestSet

(* Popping the undo stack. *)
LEMMA PopProperties ==
  ASSUME NEW S, NEW s \in Seq(S), s # <<>>
  PROVE  /\ Len(s) \in 1..Len(s)
         /\ SubSeq(s, 1, Len(s) - 1) \in Seq(S)
         /\ Len(SubSeq(s, 1, Len(s) - 1)) = Len(s) - 1
         /\ \A k \in 1..(Len(s) - 1) : SubSeq(s, 1, Len(s) - 1)[k] = s[k]
PROOF
  <1>1. Len(s) \in Nat /\ Len(s) # 0
    OBVIOUS
  <1>2. PICK n \in Nat : n = Len(s) - 1
    BY <1>1
  <1>3. SubSeq(s, 1, n) \in Seq(S)
    BY <1>2
  <1>4. Len(SubSeq(s, 1, n)) = n
    BY <1>2
  <1>5. \A k \in 1..n : SubSeq(s, 1, n)[k] = s[k]
    BY <1>2
  <1> QED BY <1>1, <1>2, <1>3, <1>4, <1>5

LEMMA AlwaysTyped == Spec => []Typed
PROOF
  <1>1. Init => Typed
    <2> SUFFICES ASSUME Init PROVE Typed
      OBVIOUS
    <2>1. final \in BOOLEAN
      BY DEF Init
    <2>2. forest \in [Tree -> ForestSet] /\ history \in Seq([Tree -> ForestSet])
      BY StartAssumption, InstanceIsTyped DEF Init
    <2> QED BY <2>1, <2>2 DEF Typed
  <1>2. Typed /\ [Next]_vars => Typed'
    <2> SUFFICES ASSUME Typed, [Next]_vars PROVE Typed'
      OBVIOUS
    <2> USE DEF Typed
    <2>1. ASSUME NEW i \in Tree, NEW n \in DOMAIN forest[i],
                 NEW p \in DOMAIN forest[i], DeleteEdge(i, n, p)
          PROVE  Typed'
      <3>1. CutEdge(forest[i], n, p) \in ForestSet
        BY EditTypes
      <3> QED BY <2>1, <3>1 DEF DeleteEdge
    <2>2. ASSUME NEW i \in Tree, NEW n \in DOMAIN forest[i], Collapse(i, n)
          PROVE  Typed'
      <3>1. CollapseSubtree(forest[i], n) \in ForestSet
        BY EditTypes
      <3> QED BY <2>2, <3>1 DEF Collapse
    <2>3. CASE Undo
      <3>1. Len(history) \in 1..Len(history) /\ history' \in Seq([Tree -> ForestSet])
        BY <2>3, PopProperties DEF Undo
      <3> QED BY <2>3, <3>1 DEF Undo
    <2>4. ASSUME NEW i \in Tree, NEW n \in DOMAIN forest[i],
                 NEW k \in 1..Len(history), Expand(i, n, history[k])
          PROVE  Typed'
      <3>1. ExpandSubtree(forest[i], history[k][i], n) \in ForestSet
        BY SMTT(30), EditTypes
      <3> QED BY <2>4, <3>1 DEF Expand
    <2>5. CASE UNCHANGED vars
      BY <2>5 DEF vars
    <2> QED BY <2>1, <2>2, <2>3, <2>4, <2>5 DEF Next
  <1> QED BY <1>1, <1>2, PTL DEF Spec

(***************************************************************************)
(* The forests and the undo stack keep their types.                        *)
(***************************************************************************)
THEOREM TypeCorrect == Spec => []TypeOK
PROOF
  <1>1. Typed => TypeOK
    <2> SUFFICES ASSUME Typed PROVE TypeOK
      OBVIOUS
    <2>1. final \in BOOLEAN
      BY DEF Typed
    <2>2. IsInstance(forest)
      BY InstanceIsTyped DEF Typed
    <2>3. history \in Seq([Tree -> ForestSet])
      BY DEF Typed
    <2>4. /\ history \in Seq({history[k] : k \in DOMAIN history})
          /\ \A k \in DOMAIN history : history[k] \in [Tree -> ForestSet]
      BY <2>3
    <2> QED BY <2>1, <2>2, <2>4, InstanceIsTyped DEF TypeOK
  <1> QED BY <1>1, AlwaysTyped, PTL

(***************************************************************************)
(* The inductive invariant: the forests kept for undo are X-forests too,   *)
(* or undoing an edit could bring back one that is not.                    *)
(***************************************************************************)
HistoryValid ==
  \A k \in 1..Len(history) : \A i \in Tree : WellFormed(history[k][i], Label)

IInv == Typed /\ ForestsValid /\ HistoryValid

LEMMA AlwaysIInv == Spec => []IInv
PROOF
  <1>1. Init /\ Typed => IInv
    BY StartAssumption DEF Init, IInv, ForestsValid, HistoryValid
  <1>2. IInv /\ Typed' /\ [Next]_vars => IInv'
    <2> SUFFICES ASSUME IInv, Typed', [Next]_vars PROVE IInv'
      OBVIOUS
    <2> USE DEF IInv, Typed
    <2>1. ASSUME history' = Append(history, forest)
          PROVE  HistoryValid'
      BY <2>1 DEF HistoryValid, ForestsValid
    <2>2. ASSUME NEW i \in Tree, NEW n \in DOMAIN forest[i],
                 NEW p \in DOMAIN forest[i], DeleteEdge(i, n, p)
          PROVE  IInv'
      <3>1. WellFormed(CutEdge(forest[i], n, p), Label)
        BY <2>2, CutWellFormed DEF DeleteEdge, ForestsValid
      <3>2. ForestsValid'
        BY <2>2, <3>1 DEF DeleteEdge, ForestsValid
      <3> QED BY <2>1, <2>2, <3>2 DEF DeleteEdge
    <2>3. ASSUME NEW i \in Tree, NEW n \in DOMAIN forest[i], Collapse(i, n)
          PROVE  IInv'
      <3>1. WellFormed(CollapseSubtree(forest[i], n), Label)
        BY CollapseWellFormed DEF ForestsValid
      <3>2. ForestsValid'
        BY <2>3, <3>1 DEF Collapse, ForestsValid
      <3> QED BY <2>1, <2>3, <3>2 DEF Collapse
    <2>4. CASE Undo
      <3>1. Len(history) \in 1..Len(history)
        BY <2>4, PopProperties DEF Undo
      <3>2. ForestsValid'
        BY <2>4, <3>1 DEF Undo, HistoryValid, ForestsValid
      <3>3. /\ Len(history') = Len(history) - 1
            /\ \A k \in 1..(Len(history) - 1) : history'[k] = history[k]
        BY <2>4, PopProperties DEF Undo
      <3>4. \A k \in 1..Len(history') : k \in 1..Len(history) /\ history'[k] = history[k]
        BY <3>1, <3>3
      <3>5. HistoryValid'
        BY <3>4 DEF HistoryValid
      <3> QED BY <3>2, <3>5
    <2>5. ASSUME NEW i \in Tree, NEW n \in DOMAIN forest[i],
                 NEW k \in 1..Len(history), Expand(i, n, history[k])
          PROVE  IInv'
      <3>1. WellFormed(ExpandSubtree(forest[i], history[k][i], n), Label)
        BY <2>5, ExpandWellFormed DEF Expand, ForestsValid, HistoryValid
      <3>2. ForestsValid'
        BY <2>5, <3>1 DEF Expand, ForestsValid
      <3>3. HistoryValid'
        BY <2>5 DEF Expand, HistoryValid
      <3> QED BY <3>2, <3>3
    <2>6. CASE UNCHANGED vars
      BY <2>6 DEF vars, ForestsValid, HistoryValid
    <2> QED BY <2>2, <2>3, <2>4, <2>5, <2>6 DEF Next
  <1> QED BY <1>1, <1>2, AlwaysTyped, PTL DEF Spec

(***************************************************************************)
(* Every reachable instance consists of X-forests, whatever the order of   *)
(* cuts, collapses and undos (Forest::isValid).                            *)
(***************************************************************************)
THEOREM AlwaysValid == Spec => []ForestsValid
PROOF
  <1>1. IInv => ForestsValid
    BY DEF IInv
  <1> QED BY <1>1, AlwaysIInv, PTL

-----------------------------------------------------------------------------
LEMMA CutSplits ==
  ASSUME NEW f, IsFiniteSet(DOMAIN f), Distinct(f), NEW n, NEW p,
         NEW c \in Components(CutEdge(f, n, p))
  PROVE  \E d \in Components(f) : c \subseteq d
  <1> DEFINE g == CutEdge(f, n, p)
  <1>1. PICK r \in Roots(g) : c = g[r]
    BY DEF Components
  <1>2. r \in DOMAIN f /\ g[r] \subseteq f[r]
    <2>1. /\ DOMAIN g = DOMAIN f \ {p}
          /\ \A k \in DOMAIN f \ {p} :
               g[k] = IF Below(f, n, k) THEN f[k] \ f[n] ELSE f[k]
      BY ZenonT(60), CutNodes
    <2> HIDE DEF g
    <2> QED BY <2>1 DEF Roots
  <1>3. PICK q \in Roots(f) : f[r] \subseteq f[q]
    BY <1>2, RootAbove
  <1> QED BY <1>1, <1>2, <1>3 DEF Components

-----------------------------------------------------------------------------
(* Collapsing a subtree changes neither the roots nor their labels. *)
LEMMA CollapseKeepsRoots ==
  ASSUME NEW f, Distinct(f), NEW n \in DOMAIN f
  PROVE  /\ Roots(CollapseSubtree(f, n)) = Roots(f)
         /\ Components(CollapseSubtree(f, n)) = Components(f)
  <1> DEFINE g == CollapseSubtree(f, n)
  <1>1. /\ DOMAIN g = {k \in DOMAIN f : ~Below(f, k, n)}
        /\ \A m \in DOMAIN g : g[m] = f[m]
    BY DEF CollapseSubtree
  <1> HIDE DEF g
  <1>2. ASSUME NEW m \in Roots(f)
        PROVE  m \in Roots(g)
    BY <1>1 DEF Roots, IsRoot, Below
  <1>3. ASSUME NEW m \in Roots(g)
        PROVE  m \in Roots(f)
    <2>1. m \in DOMAIN f /\ ~Below(f, m, n) /\ \A k \in DOMAIN g : ~Below(g, m, k)
      BY <1>1 DEF Roots, IsRoot
    <2> SUFFICES ASSUME NEW k \in DOMAIN f, Below(f, m, k) PROVE FALSE
      BY <2>1 DEF Roots, IsRoot
    <2>2. Below(f, k, n)
      BY <1>1, <2>1 DEF Below, Roots
    <2>3. m = n
      BY <2>1, <2>2 DEF Below
    <2> QED BY <2>2, <2>3 DEF Below, Distinct
  <1>4. Roots(g) = Roots(f) /\ Roots(g) \subseteq DOMAIN g
    BY <1>2, <1>3 DEF Roots
  <1> QED BY <1>1, <1>4 DEF Components, g

(* Giving a collapsed subtree back changes no component. *)
LEMMA ExpandKeepsComponents ==
  ASSUME NEW f, NEW h, Distinct(f), Distinct(h), NEW n \in DOMAIN f, IsTerminal(f, n),
         n \in DOMAIN h, h[n] = f[n]
  PROVE  Components(ExpandSubtree(f, h, n)) = Components(f)
  <1> DEFINE B == {k \in DOMAIN h : Below(h, k, n)} \ DOMAIN f
             g == ExpandSubtree(f, h, n)
  <1>1. /\ DOMAIN g = DOMAIN f \union B
        /\ \A m \in DOMAIN f : g[m] = f[m]
        /\ \A m \in B : g[m] = h[m]
    BY DEF ExpandSubtree
  <1>2. \A k \in B : k # n /\ h[k] \subseteq f[n] /\ h[k] # f[n]
    BY DEF Below, Distinct
  <1> HIDE DEF g, B
  <1>3. ASSUME NEW m \in Roots(f)
        PROVE  m \in Roots(g)
    <2>1. m \in DOMAIN f /\ m \in DOMAIN g /\ g[m] = f[m]
      BY <1>1 DEF Roots
    <2> SUFFICES ASSUME NEW k \in DOMAIN g, Below(g, m, k) PROVE FALSE
      BY <2>1 DEF Roots, IsRoot
    <2>2. k \in B
      BY <1>1, <2>1 DEF Roots, IsRoot, Below
    <2>3. f[m] \subseteq h[k]
      BY <1>1, <2>1, <2>2 DEF Below
    <2>4. m = n
      BY <1>2, <2>1, <2>2, <2>3 DEF IsTerminal, Below
    <2> QED BY <1>2, <2>2, <2>3, <2>4
  <1>4. ASSUME NEW m \in Roots(g)
        PROVE  m \in Roots(f)
    <2>1. m \in DOMAIN g /\ \A k \in DOMAIN g : ~Below(g, m, k)
      BY DEF Roots, IsRoot
    <2>2. m \notin B
      <3> SUFFICES ASSUME m \in B PROVE FALSE
        OBVIOUS
      <3>1. Below(g, m, n) /\ n \in DOMAIN g
        BY <1>1, <1>2 DEF Below
      <3> QED BY <2>1, <3>1
    <2> QED BY <1>1, <2>1, <2>2 DEF Roots, IsRoot, Below
  <1>5. Roots(g) = Roots(f) /\ Roots(f) \subseteq DOMAIN f
    BY <1>3, <1>4 DEF Roots
  <1> QED BY <1>1, <1>5 DEF Components, g

-----------------------------------------------------------------------------
(***************************************************************************)
(* The number of components is a lower bound for the rest of the branch:   *)
(* a cut adds exactly one and splits it off an earlier one, a collapse     *)
(* adds none, and giving the collapses back at the end of the run leaves   *)
(* the components the search counted.                                      *)
(***************************************************************************)
THEOREM AlwaysSplits == Spec => EditsOnlySplit
  <1> DEFINE Splits(i) ==
        /\ Cardinality(Roots(forest'[i])) - Cardinality(Roots(forest[i])) \in {0, 1}
        /\ \A c \in Components(forest'[i]) :
             \E d \in Components(forest[i]) : c \subseteq d
  <1> DEFINE Step ==
        /\ Len(history') > Len(history) => \A i \in Tree : Splits(i)
        /\ final' => \A i \in Tree : Components(forest'[i]) = Components(forest[i])
  <1>1. ASSUME Typed, ForestsValid, HistoryValid, [Next]_vars
        PROVE  [Step]_vars
    <2> SUFFICES ASSUME Next PROVE Step
      BY <1>1
    <2> USE DEF Typed
    <2>1. \A i \in Tree : /\ IsFiniteSet(DOMAIN forest[i])
                          /\ Distinct(forest[i]) /\ Laminar(forest[i]) /\ Binary(forest[i])
      <3> SUFFICES ASSUME NEW i \in Tree
                   PROVE  /\ IsFiniteSet(DOMAIN forest[i])
                          /\ Distinct(forest[i]) /\ Laminar(forest[i]) /\ Binary(forest[i])
        OBVIOUS
      <3>1. forest[i] \in ForestSet
        BY <1>1
      <3>2. PICK S \in SUBSET Node : forest[i] \in [S -> SUBSET Label]
        BY <3>1 DEF ForestSet
      <3> QED BY <1>1, <3>2, NodeAssumption, FS_Subset DEF ForestsValid, WellFormed
    <2>2. ASSUME NEW i \in Tree
          PROVE  /\ Cardinality(Roots(forest[i])) \in Nat
                 /\ \A c \in Components(forest[i]) :
                      \E d \in Components(forest[i]) : c \subseteq d
      <3>1. IsFiniteSet(Roots(forest[i]))
        BY <2>1, FS_Subset DEF Roots
      <3> QED BY <3>1, FS_CardinalityType
    <2>3. \A i \in Tree : forest'[i] = forest[i] => Splits(i)
      <3> SUFFICES ASSUME NEW i \in Tree, forest'[i] = forest[i] PROVE Splits(i)
        OBVIOUS
      <3> QED BY <2>2
    <2>4. ASSUME NEW i \in Tree, NEW n \in DOMAIN forest[i],
                 NEW p \in DOMAIN forest[i], DeleteEdge(i, n, p)
          PROVE  Step
      <3>1. /\ forest'[i] = CutEdge(forest[i], n, p)
            /\ \A j \in Tree : j # i => forest'[j] = forest[j]
            /\ IsParent(forest[i], p, n)
            /\ ~final'
        BY <1>1, <2>4 DEF DeleteEdge
      <3>2. Cardinality(Roots(forest'[i])) = Cardinality(Roots(forest[i])) + 1
        BY <2>1, <3>1, CutAddsARoot
      <3>3. \A c \in Components(forest'[i]) :
              \E d \in Components(forest[i]) : c \subseteq d
        BY <2>1, <3>1, CutSplits
      <3>4. Splits(i)
        BY <2>2, <3>2, <3>3
      <3>5. \A j \in Tree : Splits(j)
        <4> HIDE DEF Splits
        <4> QED BY <2>3, <3>1, <3>4
      <3> QED BY <3>1, <3>5
    <2>5. ASSUME NEW i \in Tree, NEW n \in DOMAIN forest[i], Collapse(i, n)
          PROVE  Step
      <3>1. /\ forest'[i] = CollapseSubtree(forest[i], n)
            /\ \A j \in Tree : j # i => forest'[j] = forest[j]
            /\ ~final'
        BY <1>1, <2>5 DEF Collapse
      <3>2. /\ Roots(forest'[i]) = Roots(forest[i])
            /\ Components(forest'[i]) = Components(forest[i])
        BY <2>1, <3>1, CollapseKeepsRoots
      <3>3. Splits(i)
        BY <2>2, <3>2
      <3>4. \A j \in Tree : Splits(j)
        <4> HIDE DEF Splits
        <4> QED BY <2>3, <3>1, <3>3
      <3> QED BY <3>1, <3>4
    <2>6. CASE Undo
      <3>1. /\ Len(history) \in Nat
            /\ Len(history') = Len(history) - 1
            /\ ~final'
        BY <1>1, <2>6, PopProperties DEF Undo
      <3> QED BY <3>1
    <2>7. ASSUME NEW i \in Tree, NEW n \in DOMAIN forest[i],
                 NEW k \in 1..Len(history), Expand(i, n, history[k])
          PROVE  Step
      <3>1. /\ forest'[i] = ExpandSubtree(forest[i], history[k][i], n)
            /\ \A j \in Tree : j # i => forest'[j] = forest[j]
            /\ history' = history
            /\ n \in DOMAIN history[k][i] /\ history[k][i][n] = forest[i][n]
            /\ IsTerminal(forest[i], n)
        BY <1>1, <2>7 DEF Expand
      <3>2. Distinct(history[k][i])
        BY <1>1 DEF HistoryValid, WellFormed
      <3>3. Components(forest'[i]) = Components(forest[i])
        BY <2>1, <3>1, <3>2, ExpandKeepsComponents
      <3>4. \A j \in Tree : Components(forest'[j]) = Components(forest[j])
        BY <3>1, <3>3
      <3>5. ~(Len(history') > Len(history))
        BY <1>1, <3>1
      <3> QED BY <3>4, <3>5
    <2> QED BY <2>4, <2>5, <2>6, <2>7 DEF Next
  <1>2. Spec => [](Typed /\ ForestsValid /\ HistoryValid)
    BY AlwaysIInv, PTL DEF IInv
  <1> QED BY <1>1, <1>2, PTL DEF Spec, EditsOnlySplit
=============================================================================
