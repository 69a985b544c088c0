------------------------ MODULE LaminarForestProofs ------------------------
(***************************************************************************)
(* Cutting an edge and collapsing a subtree keep an X-forest an X-forest,  *)
(* and expanding a terminal again does; what the cut does to the roots.    *)
(***************************************************************************)
EXTENDS LaminarForest, FiniteSets, FiniteSetTheorems, WellFoundedInduction, TLAPS

-----------------------------------------------------------------------------
(* The cut, node by node. *)
LEMMA CutNodes ==
  ASSUME NEW f, NEW n, NEW p
  PROVE  /\ DOMAIN CutEdge(f, n, p) = DOMAIN f \ {p}
         /\ \A m \in DOMAIN f \ {p} :
              CutEdge(f, n, p)[m] =
                IF Below(f, n, m) THEN f[m] \ f[n] ELSE f[m]
  BY DEF CutEdge

LEMMA CutDistinct ==
  ASSUME NEW f, Distinct(f), Laminar(f), NEW n \in DOMAIN f,
         NEW p \in DOMAIN f, IsParent(f, p, n)
  PROVE  Distinct(CutEdge(f, n, p))
PROOF
  <1> DEFINE g == CutEdge(f, n, p)
  <1>1. /\ DOMAIN g = DOMAIN f \ {p}
        /\ \A m \in DOMAIN f \ {p} :
             g[m] = IF Below(f, n, m) THEN f[m] \ f[n] ELSE f[m]
    BY ZenonT(60), CutNodes
  <1>2. /\ n # p
        /\ f[n] \subseteq f[p]
        /\ \A q \in DOMAIN f : Below(f, n, q) => f[p] \subseteq f[q]
    BY DEF IsParent, Below
  <1>3. PICK x \in f[p] : x \notin f[n]
    BY <1>2 DEF Distinct
  <1>4. \A m \in DOMAIN g : g[m] # {}
    <2> SUFFICES ASSUME NEW m \in DOMAIN g PROVE g[m] # {}
      OBVIOUS
    <2>1. CASE Below(f, n, m)
      BY <2>1, <1>1, <1>2, <1>3
    <2>2. CASE ~Below(f, n, m)
      BY <2>2, <1>1 DEF Distinct
    <2> QED BY <2>1, <2>2
  <1>5. ASSUME NEW m \in DOMAIN g, NEW k \in DOMAIN g,
               Below(f, n, m), ~Below(f, n, k)
        PROVE  g[m] # g[k]
    <2>1. m \in DOMAIN f /\ k \in DOMAIN f /\ m # p /\ k # p
      BY <1>1
    <2>2. g[m] = f[m] \ f[n] /\ g[k] = f[k]
      BY <1>1, <1>5, <2>1
    <2>3. f[p] \subseteq f[m] /\ f[n] \subseteq f[m]
      BY <1>2, <1>5, <2>1
    <2>4. PICK y \in f[m] : y \notin f[p]
      BY <2>1, <2>3 DEF Distinct
    <2> SUFFICES ASSUME f[m] \ f[n] = f[k] PROVE FALSE
      BY <2>2
    <2>5. k # n
      <3>1. f[n] # {}
        BY DEF Distinct
      <3>2. f[k] \intersect f[n] = {}
        OBVIOUS
      <3> QED BY <3>1, <3>2
    <2>6. ~(f[n] \subseteq f[k])
      BY <1>5, <2>1, <2>5 DEF Below
    <2>7. x \in f[k] /\ y \in f[k] /\ x \in f[p]
      BY <1>2, <1>3, <2>3, <2>4
    <2>8. f[k] \subseteq f[p] \/ f[p] \subseteq f[k]
      BY <2>1, <2>7 DEF Laminar
    <2> QED BY <1>2, <2>4, <2>6, <2>7, <2>8
  <1>6. ASSUME NEW m \in DOMAIN g, NEW k \in DOMAIN g, g[m] = g[k]
        PROVE  m = k
    <2>1. CASE Below(f, n, m) /\ Below(f, n, k)
      <3>1. f[m] \ f[n] = f[k] \ f[n] /\ f[n] \subseteq f[m] /\ f[n] \subseteq f[k]
        BY <1>1, <1>6, <2>1 DEF Below
      <3>2. f[m] = f[k]
        BY <3>1
      <3> QED BY <1>1, <3>2 DEF Distinct
    <2>2. CASE ~Below(f, n, m) /\ ~Below(f, n, k)
      BY <1>1, <1>6, <2>2 DEF Distinct
    <2> QED BY <1>5, <1>6, <2>1, <2>2
  <1> QED BY <1>4, <1>6 DEF Distinct

LEMMA CutLaminar ==
  ASSUME NEW f, Laminar(f), NEW n \in DOMAIN f, NEW p \in DOMAIN f
  PROVE  Laminar(CutEdge(f, n, p))
PROOF
  <1> DEFINE g == CutEdge(f, n, p)
  <1>1. /\ DOMAIN g = DOMAIN f \ {p}
        /\ \A m \in DOMAIN f \ {p} :
             g[m] = IF Below(f, n, m) THEN f[m] \ f[n] ELSE f[m]
    BY ZenonT(60), CutNodes
  <1>2. ASSUME NEW m \in DOMAIN g, NEW k \in DOMAIN g,
               Below(f, n, m), ~Below(f, n, k)
        PROVE  g[k] \subseteq g[m] \/ g[m] \subseteq g[k] \/ g[m] \intersect g[k] = {}
    <2>1. m \in DOMAIN f /\ k \in DOMAIN f
      BY <1>1
    <2>2. g[m] = f[m] \ f[n] /\ g[k] = f[k]
      BY <1>1, <1>2
    <2>3. CASE f[k] \subseteq f[n]
      BY <2>2, <2>3
    <2>4. CASE f[n] \subseteq f[k]
      <3>1. k = n
        BY <1>2, <2>4 DEF Below
      <3> QED BY <2>2, <3>1
    <2>5. CASE f[k] \intersect f[n] = {}
      BY <2>1, <2>2, <2>5 DEF Laminar
    <2> QED BY <2>1, <2>3, <2>4, <2>5 DEF Laminar
  <1> SUFFICES ASSUME NEW m \in DOMAIN g, NEW k \in DOMAIN g
               PROVE  \/ g[m] \subseteq g[k]
                      \/ g[k] \subseteq g[m]
                      \/ g[m] \intersect g[k] = {}
    BY DEF Laminar
  <1>3. CASE Below(f, n, m) /\ Below(f, n, k)
    <2>1. g[m] = f[m] \ f[n] /\ g[k] = f[k] \ f[n]
      BY <1>1, <1>3
    <2>2. m \in DOMAIN f /\ k \in DOMAIN f
      BY <1>1
    <2> QED BY <2>1, <2>2 DEF Laminar
  <1>4. CASE ~Below(f, n, m) /\ ~Below(f, n, k)
    BY <1>1, <1>4 DEF Laminar
  <1> QED BY <1>2, <1>3, <1>4

-----------------------------------------------------------------------------
(* A node strictly below m lies below, or is, one of the children of m. *)
LEMMA BelowAChild ==
  ASSUME NEW f, Distinct(f), Laminar(f),
         NEW m \in DOMAIN f, NEW a \in DOMAIN f, NEW b \in DOMAIN f,
         AreChildren(f, a, b, m), NEW p \in DOMAIN f, Below(f, p, m)
  PROVE  f[p] \subseteq f[a] \/ f[p] \subseteq f[b]
PROOF
  <1>1. /\ f[a] \union f[b] = f[m] /\ f[a] \intersect f[b] = {}
        /\ f[p] \subseteq f[m] /\ f[p] # f[m]
    BY DEF AreChildren, Below, Distinct
  <1>2. f[p] \subseteq f[a] \/ f[a] \subseteq f[p] \/ f[p] \intersect f[a] = {}
    BY DEF Laminar
  <1>3. f[p] \subseteq f[b] \/ f[b] \subseteq f[p] \/ f[p] \intersect f[b] = {}
    BY DEF Laminar
  <1>4. CASE f[p] \intersect f[a] = {} \/ f[p] \intersect f[b] = {}
    BY <1>1, <1>4
  <1>5. CASE f[a] \subseteq f[p] /\ f[b] \subseteq f[p]
    BY <1>1, <1>5
  <1> QED BY <1>2, <1>3, <1>4, <1>5

LEMMA ChildrenSwap ==
  ASSUME NEW f, NEW a, NEW b, NEW m, AreChildren(f, a, b, m)
  PROVE  AreChildren(f, b, a, m)
  BY DEF AreChildren

(* The parent of n has one other child, the sibling of n. *)
LEMMA SiblingExists ==
  ASSUME NEW f, Distinct(f), Laminar(f), Binary(f), NEW n \in DOMAIN f,
         NEW p \in DOMAIN f, IsParent(f, p, n)
  PROVE  \E s \in DOMAIN f : AreChildren(f, n, s, p)
PROOF
  <1>1. Below(f, n, p) /\ \A q \in DOMAIN f : Below(f, n, q) => f[p] \subseteq f[q]
    BY DEF IsParent
  <1>2. PICK c \in DOMAIN f, d \in DOMAIN f : AreChildren(f, c, d, p)
    BY <1>1 DEF Binary, IsTerminal
  <1>3. c # p /\ d # p /\ f[c] \subseteq f[p] /\ f[d] \subseteq f[p]
    BY <1>2 DEF AreChildren, Below
  <1>4. f[n] \subseteq f[c] \/ f[n] \subseteq f[d]
    BY <1>1, <1>2, BelowAChild
  <1>5. ASSUME NEW e \in DOMAIN f, e # p, f[e] \subseteq f[p], f[n] \subseteq f[e]
        PROVE  e = n
    <2> SUFFICES ASSUME e # n PROVE FALSE
      OBVIOUS
    <2>1. f[p] \subseteq f[e]
      BY <1>1, <1>5 DEF Below
    <2>2. f[p] = f[e]
      BY <2>1, <1>5
    <2> QED BY <2>2, <1>5 DEF Distinct
  <1>6. c = n \/ d = n
    BY <1>3, <1>4, <1>5
  <1> QED BY <1>2, <1>6, ChildrenSwap

LEMMA CutBinary ==
  ASSUME NEW f, Distinct(f), Laminar(f), Binary(f), NEW n \in DOMAIN f,
         NEW p \in DOMAIN f, IsParent(f, p, n)
  PROVE  Binary(CutEdge(f, n, p))
PROOF
  <1> DEFINE g == CutEdge(f, n, p)
  <1>1. /\ DOMAIN g = DOMAIN f \ {p}
        /\ \A m \in DOMAIN f \ {p} :
             g[m] = IF Below(f, n, m) THEN f[m] \ f[n] ELSE f[m]
    BY ZenonT(60), CutNodes
  <1>2. /\ n # p /\ f[n] \subseteq f[p] /\ f[n] # {} /\ Below(f, n, p)
        /\ \A q \in DOMAIN f : Below(f, n, q) => f[p] \subseteq f[q]
    BY DEF IsParent, Below, Distinct
  <1>3. Distinct(g)
    BY CutDistinct
  <1>4. PICK s \in DOMAIN f : AreChildren(f, n, s, p)
    BY SiblingExists
  <1> HIDE DEF g
  <1>5. ASSUME NEW m \in DOMAIN g, ~Below(f, n, m), IsTerminal(f, m)
        PROVE  IsTerminal(g, m)
    <2> SUFFICES ASSUME NEW k \in DOMAIN g, Below(g, k, m) PROVE FALSE
      BY DEF IsTerminal
    <2>1. /\ k \in DOMAIN f /\ m \in DOMAIN f /\ k # m /\ g[k] \subseteq f[m]
          /\ g[m] = f[m] /\ g[k] # f[m] /\ g[k] # {}
      BY <1>1, <1>3, <1>5 DEF Below, Distinct
    <2>2. CASE ~Below(f, n, k)
      BY <1>1, <1>5, <2>1, <2>2 DEF IsTerminal, Below
    <2>3. CASE Below(f, n, k)
      <3>1. g[k] = f[k] \ f[n] /\ f[n] \subseteq f[k]
        BY <1>1, <2>3 DEF Below
      <3>2. ~(f[k] \subseteq f[m])
        BY <1>5, <2>1 DEF IsTerminal, Below
      <3>3. f[m] \subseteq f[k]
        BY <2>1, <3>1, <3>2 DEF Laminar
      <3>4. ~(f[m] \subseteq f[n])
        BY <2>1, <3>1
      <3>5. ~(f[n] \subseteq f[m])
        BY <1>5, <3>4 DEF Below
      <3>6. f[n] \intersect f[m] = {}
        BY <2>1, <3>4, <3>5 DEF Laminar
      <3>7. g[k] = f[m]
        BY <2>1, <3>1, <3>3, <3>6
      <3> QED BY <2>1, <3>7
    <2> QED BY <2>2, <2>3
  <1>6. ASSUME NEW m \in DOMAIN g, ~Below(f, n, m),
               NEW a \in DOMAIN f, NEW b \in DOMAIN f, AreChildren(f, a, b, m)
        PROVE  \E c, d \in DOMAIN g : AreChildren(g, c, d, m)
    <2>1. m \in DOMAIN f /\ m # p /\ g[m] = f[m]
      BY <1>1, <1>6
    <2>2. ASSUME NEW e \in DOMAIN f, Below(f, e, m)
          PROVE  e \in DOMAIN g /\ g[e] = f[e]
      <3>1. f[e] \subseteq f[m] /\ f[e] # f[m]
        BY <2>1, <2>2 DEF Below, Distinct
      <3>2. ~(f[n] \subseteq f[m]) \/ n = m
        BY <1>6 DEF Below
      <3>3. ~(f[n] \subseteq f[e])
        BY <3>1, <3>2
      <3> QED BY <1>1, <1>2, <3>3 DEF Below
    <2>3. Below(f, a, m) /\ Below(f, b, m)
      BY <1>6 DEF AreChildren
    <2>4. a \in DOMAIN g /\ b \in DOMAIN g /\ g[a] = f[a] /\ g[b] = f[b]
      BY <2>2, <2>3
    <2>5. AreChildren(g, a, b, m)
      BY <1>6, <2>1, <2>4 DEF AreChildren, Below
    <2> QED BY <2>4, <2>5
  <1>7. ASSUME NEW m \in DOMAIN g, Below(f, n, m),
               NEW a \in DOMAIN f, NEW b \in DOMAIN f, AreChildren(f, a, b, m),
               f[p] \subseteq f[a]
        PROVE  \E c, d \in DOMAIN g : AreChildren(g, c, d, m)
    <2>1. /\ m \in DOMAIN f /\ m # p /\ g[m] = f[m] \ f[n]
          /\ a # m /\ b # m /\ f[a] \union f[b] = f[m]
          /\ f[a] \intersect f[b] = {} /\ f[a] # {} /\ f[b] # {}
      BY <1>1, <1>7 DEF AreChildren, Below, Distinct
    <2>2. f[n] \subseteq f[a] /\ f[n] \intersect f[b] = {}
      BY <1>2, <1>7, <2>1
    <2>3. b \in DOMAIN g /\ g[b] = f[b]
      <3>1. b # p
        BY <1>2, <2>2
      <3>2. ~Below(f, n, b)
        BY <1>2, <2>2 DEF Below
      <3> QED BY <1>1, <3>1, <3>2
    <2>4. CASE a # p
      <3>1. a # n
        <4>1. f[n] # f[p]
          BY <1>2 DEF Distinct
        <4> QED BY <1>2, <1>7, <4>1
      <3>2. a \in DOMAIN g /\ g[a] = f[a] \ f[n]
        BY <1>1, <2>2, <2>4, <3>1 DEF Below
      <3>3. AreChildren(g, a, b, m)
        BY <2>1, <2>2, <2>3, <3>2 DEF AreChildren, Below
      <3> QED BY <2>3, <3>2, <3>3
    <2>5. CASE a = p
      <3>1. /\ s # p /\ f[n] \union f[s] = f[p] /\ f[n] \intersect f[s] = {}
            /\ f[s] # {}
        BY <1>4 DEF AreChildren, Below, Distinct
      <3>2. s \in DOMAIN g /\ g[s] = f[s]
        BY <1>1, <1>2, <3>1 DEF Below
      <3>3. s # m
        BY <2>1, <2>5, <3>1
      <3>4. AreChildren(g, s, b, m)
        BY <2>1, <2>2, <2>3, <2>5, <3>1, <3>2, <3>3 DEF AreChildren, Below
      <3> QED BY <2>3, <3>2, <3>4
    <2> QED BY <2>4, <2>5
  <1>8. ASSUME NEW m \in DOMAIN g
        PROVE  IsTerminal(g, m) \/ \E c, d \in DOMAIN g : AreChildren(g, c, d, m)
    <2>1. m \in DOMAIN f /\ m # p
      BY <1>1
    <2>2. CASE IsTerminal(f, m)
      <3>1. ~Below(f, n, m)
        BY <2>2 DEF IsTerminal
      <3> QED BY <1>5, <2>2, <3>1
    <2>3. CASE ~IsTerminal(f, m)
      <3>1. PICK a \in DOMAIN f, b \in DOMAIN f : AreChildren(f, a, b, m)
        BY <2>1, <2>3 DEF Binary
      <3>2. CASE ~Below(f, n, m)
        BY <1>6, <3>1, <3>2
      <3>3. CASE Below(f, n, m)
        <4>1. Below(f, p, m)
          BY <1>2, <2>1, <3>3 DEF Below
        <4>2. f[p] \subseteq f[a] \/ f[p] \subseteq f[b]
          BY <2>1, <3>1, <4>1, BelowAChild
        <4>3. AreChildren(f, b, a, m)
          BY <3>1, ChildrenSwap
        <4> QED BY <1>7, <3>1, <3>3, <4>2, <4>3
      <3> QED BY <3>2, <3>3
    <2> QED BY <2>2, <2>3
  <1> QED BY <1>8 DEF Binary, g

LEMMA CutCovers ==
  ASSUME NEW X, NEW f, Distinct(f), Laminar(f), Binary(f), Covers(f, X),
         NEW n \in DOMAIN f, NEW p \in DOMAIN f, IsParent(f, p, n)
  PROVE  Covers(CutEdge(f, n, p), X)
PROOF
  <1> DEFINE g == CutEdge(f, n, p)
  <1>1. /\ DOMAIN g = DOMAIN f \ {p}
        /\ \A m \in DOMAIN f \ {p} :
             g[m] = IF Below(f, n, m) THEN f[m] \ f[n] ELSE f[m]
    BY ZenonT(60), CutNodes
  <1>2. n # p
    BY DEF IsParent, Below
  <1>3. PICK s \in DOMAIN f : AreChildren(f, n, s, p)
    BY SiblingExists
  <1> HIDE DEF g
  <1>4. n \in DOMAIN g /\ g[n] = f[n]
    BY <1>1, <1>2 DEF Below
  <1>5. s \in DOMAIN g /\ g[s] = f[s] /\ f[p] = f[n] \union f[s]
    BY <1>1, <1>2, <1>3 DEF AreChildren, Below, Distinct
  <1>6. ASSUME NEW x \in X PROVE \E m \in DOMAIN g : x \in g[m]
    <2>1. PICK k \in DOMAIN f : x \in f[k]
      BY DEF Covers
    <2>2. CASE x \in f[n]
      BY <1>4, <2>2
    <2>3. CASE x \notin f[n] /\ k = p
      BY <1>5, <2>1, <2>3
    <2>4. CASE x \notin f[n] /\ k # p
      BY <1>1, <2>1, <2>4
    <2> QED BY <2>2, <2>3, <2>4
  <1>7. \A m \in DOMAIN g : g[m] \subseteq X
    BY <1>1 DEF Covers
  <1> QED BY <1>6, <1>7 DEF Covers, g

LEMMA CutWellFormed ==
  ASSUME NEW X, NEW f, WellFormed(f, X),
         NEW n \in DOMAIN f, NEW p \in DOMAIN f, IsParent(f, p, n)
  PROVE  WellFormed(CutEdge(f, n, p), X)
  BY CutDistinct, CutLaminar, CutBinary, CutCovers DEF WellFormed

-----------------------------------------------------------------------------
LEMMA CollapseWellFormed ==
  ASSUME NEW X, NEW f, WellFormed(f, X), NEW n \in DOMAIN f
  PROVE  WellFormed(CollapseSubtree(f, n), X)
PROOF
  <1> DEFINE g == CollapseSubtree(f, n)
  <1>1. /\ DOMAIN g = {k \in DOMAIN f : ~Below(f, k, n)}
        /\ \A m \in DOMAIN g : g[m] = f[m]
    BY DEF CollapseSubtree
  <1>2. Distinct(f) /\ Laminar(f) /\ Binary(f) /\ Covers(f, X)
    BY DEF WellFormed
  <1>3. n \in DOMAIN g
    BY <1>1 DEF Below
  <1> HIDE DEF g
  <1>4. Distinct(g)
    BY <1>1, <1>2 DEF Distinct
  <1>5. Laminar(g)
    BY <1>1, <1>2 DEF Laminar
  <1>6. Covers(g, X)
    <2>1. ASSUME NEW x \in X PROVE \E m \in DOMAIN g : x \in g[m]
      <3>1. PICK k \in DOMAIN f : x \in f[k]
        BY <1>2 DEF Covers
      <3>2. CASE Below(f, k, n)
        BY <1>1, <1>3, <3>1, <3>2 DEF Below
      <3>3. CASE ~Below(f, k, n)
        BY <1>1, <3>1, <3>3
      <3> QED BY <3>2, <3>3
    <2>2. \A m \in DOMAIN g : g[m] \subseteq X
      BY <1>1, <1>2 DEF Covers
    <2> QED BY <2>1, <2>2 DEF Covers
  <1>7. ASSUME NEW m \in DOMAIN g
        PROVE  IsTerminal(g, m) \/ \E a, b \in DOMAIN g : AreChildren(g, a, b, m)
    <2>1. m \in DOMAIN f /\ ~Below(f, m, n)
      BY <1>1
    <2>2. CASE IsTerminal(f, m)
      BY <1>1, <2>2 DEF IsTerminal, Below
    <2>3. CASE m = n
      BY <1>1, <2>3 DEF IsTerminal, Below
    <2>4. CASE ~IsTerminal(f, m) /\ m # n
      <3>1. PICK a \in DOMAIN f, b \in DOMAIN f : AreChildren(f, a, b, m)
        BY <1>2, <2>1, <2>4 DEF Binary
      <3>2. ASSUME NEW c \in DOMAIN f, NEW d \in DOMAIN f, AreChildren(f, c, d, m)
            PROVE  c \in DOMAIN g
        <4> SUFFICES ASSUME Below(f, c, n) PROVE FALSE
          BY <1>1
        <4>1. /\ f[c] \subseteq f[n] /\ c # n /\ f[c] # {} /\ f[d] # {}
              /\ f[c] \union f[d] = f[m] /\ f[c] \intersect f[d] = {}
          BY <1>2, <3>2 DEF Below, AreChildren, Distinct
        <4>2. ~(f[m] \subseteq f[n])
          BY <2>1, <2>4 DEF Below
        <4>3. f[n] \subseteq f[m]
          BY <1>2, <2>1, <4>1, <4>2 DEF Laminar
        <4>4. Below(f, n, m)
          BY <2>4, <4>3 DEF Below
        <4>5. f[n] \subseteq f[c] \/ f[n] \subseteq f[d]
          BY <1>2, <2>1, <3>2, <4>4, BelowAChild
        <4>6. f[n] # f[c]
          BY <1>2, <4>1 DEF Distinct
        <4> QED BY <4>1, <4>5, <4>6
      <3>3. a \in DOMAIN g /\ b \in DOMAIN g
        BY <3>1, <3>2, ChildrenSwap
      <3>4. AreChildren(g, a, b, m)
        BY <1>1, <3>1, <3>3 DEF AreChildren, Below
      <3> QED BY <3>3, <3>4
    <2> QED BY <2>2, <2>3, <2>4
  <1>8. Binary(g)
    BY <1>7 DEF Binary
  <1> QED BY <1>4, <1>5, <1>6, <1>8 DEF WellFormed, g

-----------------------------------------------------------------------------
(* Putting a collapsed subtree back below its terminal. *)
LEMMA ExpandWellFormed ==
  ASSUME NEW X, NEW f, WellFormed(f, X), NEW h, WellFormed(h, X),
         NEW n \in DOMAIN f, IsTerminal(f, n),
         n \in DOMAIN h, h[n] = f[n], ~IsTerminal(h, n),
         \A m \in DOMAIN h : Below(h, m, n) => m \notin DOMAIN f
  PROVE  WellFormed(ExpandSubtree(f, h, n), X)
PROOF
  <1> DEFINE B == {k \in DOMAIN h : Below(h, k, n)}
             g == ExpandSubtree(f, h, n)
  <1>1. /\ DOMAIN g = DOMAIN f \union B
        /\ \A m \in DOMAIN f : g[m] = f[m]
        /\ \A m \in B : g[m] = h[m]
    BY DEF ExpandSubtree
  <1>2. /\ Distinct(f) /\ Laminar(f) /\ Binary(f) /\ Covers(f, X)
        /\ Distinct(h) /\ Laminar(h) /\ Binary(h) /\ Covers(h, X)
    BY DEF WellFormed
  <1>3. \A k \in B : k \in DOMAIN h /\ k # n /\ h[k] \subseteq f[n] /\ h[k] # f[n] /\ h[k] # {}
    BY <1>2 DEF Below, Distinct
  <1>4. \A m \in DOMAIN f : m # n => f[n] \subseteq f[m] \/ f[n] \intersect f[m] = {}
    BY <1>2 DEF Laminar, IsTerminal, Below
  <1>5. \A m \in DOMAIN f, k \in B : ~(f[m] \subseteq h[k])
    <2> SUFFICES ASSUME NEW m \in DOMAIN f, NEW k \in B, f[m] \subseteq h[k]
                 PROVE  FALSE
      OBVIOUS
    <2>1. f[m] \subseteq f[n] /\ f[m] # {}
      BY <1>2, <1>3 DEF Distinct
    <2>2. m = n
      BY <2>1 DEF IsTerminal, Below
    <2> QED BY <1>3, <2>2
  <1> HIDE DEF g, B
  <1>6. Distinct(g)
    <2>1. \A m \in DOMAIN g : g[m] # {}
      BY <1>1, <1>2, <1>3 DEF Distinct
    <2>2. ASSUME NEW m \in DOMAIN g, NEW k \in DOMAIN g, g[m] = g[k] PROVE m = k
      <3>1. CASE m \in DOMAIN f /\ k \in DOMAIN f
        BY <1>1, <1>2, <2>2, <3>1 DEF Distinct
      <3>2. CASE m \in B /\ k \in B
        BY <1>1, <1>2, <1>3, <2>2, <3>2 DEF Distinct
      <3> QED BY <1>1, <1>5, <2>2, <3>1, <3>2
    <2> QED BY <2>1, <2>2 DEF Distinct
  <1>7. Laminar(g)
    <2>1. ASSUME NEW m \in DOMAIN f, NEW k \in B
          PROVE  h[k] \subseteq f[m] \/ f[m] \intersect h[k] = {}
      BY <1>3, <1>4
    <2> SUFFICES ASSUME NEW m \in DOMAIN g, NEW k \in DOMAIN g
                 PROVE  \/ g[m] \subseteq g[k]
                        \/ g[k] \subseteq g[m]
                        \/ g[m] \intersect g[k] = {}
      BY DEF Laminar
    <2>2. CASE m \in DOMAIN f /\ k \in DOMAIN f
      BY <1>1, <1>2, <2>2 DEF Laminar
    <2>3. CASE m \in B /\ k \in B
      BY <1>1, <1>2, <1>3, <2>3 DEF Laminar
    <2>4. CASE m \in DOMAIN f /\ k \in B
      BY <1>1, <2>1, <2>4
    <2>5. CASE m \in B /\ k \in DOMAIN f
      <3>1. h[m] \subseteq f[k] \/ f[k] \intersect h[m] = {}
        BY <2>1, <2>5
      <3> QED BY <1>1, <2>5, <3>1
    <2> QED BY <1>1, <2>2, <2>3, <2>4, <2>5
  <1>8. Covers(g, X)
    <2>1. \A m \in DOMAIN g : g[m] \subseteq X
      BY <1>1, <1>2, <1>3 DEF Covers
    <2>2. \A x \in X : \E m \in DOMAIN g : x \in g[m]
      BY <1>1, <1>2 DEF Covers
    <2> QED BY <2>1, <2>2 DEF Covers
  <1>9. ASSUME NEW m \in DOMAIN f, m # n
        PROVE  IsTerminal(g, m) \/ \E a, b \in DOMAIN g : AreChildren(g, a, b, m)
    <2>1. CASE IsTerminal(f, m)
      <3> SUFFICES ASSUME NEW k \in DOMAIN g, Below(g, k, m) PROVE FALSE
        BY DEF IsTerminal
      <3>1. k \in B
        BY <1>1, <2>1 DEF IsTerminal, Below
      <3>2. h[k] \subseteq f[m]
        BY <1>1, <3>1 DEF Below
      <3>3. f[n] \subseteq f[m]
        BY <1>3, <1>4, <1>9, <3>1, <3>2
      <3> QED BY <1>9, <2>1, <3>3 DEF IsTerminal, Below
    <2>2. CASE ~IsTerminal(f, m)
      <3>1. PICK a \in DOMAIN f, b \in DOMAIN f : AreChildren(f, a, b, m)
        BY <1>2, <2>2 DEF Binary
      <3>2. AreChildren(g, a, b, m)
        BY <1>1, <3>1 DEF AreChildren, Below
      <3> QED BY <1>1, <3>1, <3>2
    <2> QED BY <2>1, <2>2
  <1>10. ASSUME NEW m, m \in B \/ m = n
         PROVE  IsTerminal(g, m) \/ \E a, b \in DOMAIN g : AreChildren(g, a, b, m)
    <2>1. m \in DOMAIN h /\ g[m] = h[m] /\ h[m] \subseteq f[n]
      BY <1>1, <1>3, <1>10
    <2>2. CASE IsTerminal(h, m)
      <3>1. m \in B
        BY <1>10, <2>2
      <3> SUFFICES ASSUME NEW k \in DOMAIN g, Below(g, k, m) PROVE FALSE
        BY DEF IsTerminal
      <3>2. k \notin DOMAIN f
        BY <1>1, <1>5, <2>1, <3>1 DEF Below
      <3>3. k \in B
        BY <1>1, <3>2
      <3> QED BY <1>1, <1>3, <2>1, <2>2, <3>3 DEF IsTerminal, Below
    <2>3. CASE ~IsTerminal(h, m)
      <3>1. PICK a \in DOMAIN h, b \in DOMAIN h : AreChildren(h, a, b, m)
        BY <1>2, <2>1, <2>3 DEF Binary
      <3>2. \A c \in DOMAIN h : Below(h, c, m) => c \in B
        <4> SUFFICES ASSUME NEW c \in DOMAIN h, Below(h, c, m) PROVE c \in B
          OBVIOUS
        <4>1. h[c] \subseteq h[m] /\ h[c] # h[m]
          BY <1>2, <2>1 DEF Below, Distinct
        <4>2. h[c] \subseteq h[n] /\ h[c] # h[n]
          BY <2>1, <4>1
        <4> QED BY <4>2 DEF B, Below
      <3>3. a \in B /\ b \in B
        BY <3>1, <3>2 DEF AreChildren
      <3>4. AreChildren(g, a, b, m)
        BY <1>1, <2>1, <3>1, <3>3 DEF AreChildren, Below
      <3> QED BY <1>1, <3>3, <3>4
    <2> QED BY <2>2, <2>3
  <1>11. Binary(g)
    BY <1>1, <1>9, <1>10 DEF Binary
  <1> QED BY <1>6, <1>7, <1>8, <1>11 DEF WellFormed, g

-----------------------------------------------------------------------------
(* Every node lies in the tree of some root, if the forest is finite. *)
LEMMA RootAbove ==
  ASSUME NEW f, IsFiniteSet(DOMAIN f), Distinct(f), NEW m \in DOMAIN f
  PROVE  \E r \in Roots(f) : f[m] \subseteq f[r]
  <1> DEFINE above(k) == {q \in DOMAIN f : Below(f, k, q)}
             S == {above(k) : k \in {q \in DOMAIN f : f[m] \subseteq f[q]}}
             R == StrictSubsetOrdering(DOMAIN f)
             U == FiniteSubsetsOf(DOMAIN f)
  <1>1. IsWellFoundedOn(R, U)
    BY FS_StrictSubsetOrderingWellFounded
  <1>2. U = SUBSET (DOMAIN f)
    BY FS_FiniteSubsetsOfFinite
  <1>3. S \subseteq U /\ S # {}
    <2>1. above(m) \in S
      OBVIOUS
    <2>2. \A k : above(k) \in SUBSET (DOMAIN f)
      OBVIOUS
    <2>3. S \subseteq SUBSET (DOMAIN f)
      BY <2>2
    <2> QED BY <1>2, <2>1, <2>3
  <1>4. PICK A \in S : \A B \in S : ~(<<B, A>> \in R)
    <2> HIDE DEF S, R, U
    <2> QED BY <1>1, <1>3, WFMin
  <1>5. PICK r \in DOMAIN f : f[m] \subseteq f[r] /\ A = above(r)
    BY <1>4
  <1>6. ASSUME NEW q \in DOMAIN f, Below(f, r, q)
        PROVE  FALSE
    <2>1. f[r] \subseteq f[q] /\ r # q /\ f[r] # f[q]
      BY <1>6 DEF Below, Distinct
    <2>2. above(q) \in S
      BY <1>5, <2>1
    <2>3. above(q) \subseteq above(r)
      BY <2>1 DEF Below
    <2>4. q \in above(r) /\ q \notin above(q)
      BY <1>6 DEF Below
    <2>5. <<above(q), above(r)>> \in R
      BY <2>3, <2>4 DEF StrictSubsetOrdering
    <2> QED BY <1>4, <1>5, <2>2, <2>5
  <1> QED BY <1>5, <1>6 DEF Roots, IsRoot

-----------------------------------------------------------------------------
(* A root stays a root when an edge is cut elsewhere. *)
LEMMA CutKeepsRoots ==
  ASSUME NEW f, Distinct(f), Laminar(f), NEW n \in DOMAIN f, NEW p \in DOMAIN f,
         IsParent(f, p, n), NEW m \in Roots(f), m # p
  PROVE  m \in Roots(CutEdge(f, n, p))
  <1> DEFINE g == CutEdge(f, n, p)
  <1>1. /\ DOMAIN g = DOMAIN f \ {p}
        /\ \A k \in DOMAIN f \ {p} :
             g[k] = IF Below(f, n, k) THEN f[k] \ f[n] ELSE f[k]
    BY ZenonT(60), CutNodes
  <1>2. Distinct(g)
    BY CutDistinct
  <1> HIDE DEF g
  <1>3. m \in DOMAIN f /\ m \in DOMAIN g /\ \A k \in DOMAIN f : ~Below(f, m, k)
    BY <1>1 DEF Roots, IsRoot
  <1>4. ASSUME NEW k \in DOMAIN g, Below(g, m, k)
        PROVE  FALSE
    <2>1. k \in DOMAIN f /\ k # m /\ g[m] \subseteq g[k] /\ g[m] # g[k] /\ g[m] # {}
      BY <1>1, <1>2, <1>3, <1>4 DEF Below, Distinct
    <2>2. ~(f[m] \subseteq f[k])
      BY <1>3, <2>1 DEF Below
    <2>3. g[k] \subseteq f[k]
      BY <1>1, <1>4
    <2>4. Below(f, n, m) /\ g[m] = f[m] \ f[n] /\ f[n] \subseteq f[m]
      BY <1>1, <1>3, <2>1, <2>2, <2>3 DEF Below
    <2>5. f[k] \subseteq f[m]
      BY <1>3, <2>1, <2>2, <2>3, <2>4 DEF Laminar
    <2>6. ~(f[n] \subseteq f[k])
      BY <2>1, <2>2, <2>3, <2>4
    <2>7. g[k] = f[k]
      BY <1>1, <1>4, <2>6 DEF Below
    <2>8. ~(f[k] \subseteq f[n])
      BY <2>1, <2>4, <2>7
    <2>9. f[k] \intersect f[n] = {}
      BY <2>1, <2>6, <2>8 DEF Laminar
    <2>10. f[k] \subseteq f[m] \ f[n]
      BY <2>5, <2>9
    <2> QED BY <2>1, <2>4, <2>7, <2>10
  <1> QED BY <1>3, <1>4 DEF Roots, IsRoot, g

(* The node below the cut edge becomes a root; it was none. *)
LEMMA CutMakesRoot ==
  ASSUME NEW f, Distinct(f), NEW n \in DOMAIN f, NEW p \in DOMAIN f, IsParent(f, p, n)
  PROVE  n \in Roots(CutEdge(f, n, p)) /\ n \notin Roots(f)
  <1> DEFINE g == CutEdge(f, n, p)
  <1>1. /\ DOMAIN g = DOMAIN f \ {p}
        /\ \A k \in DOMAIN f \ {p} :
             g[k] = IF Below(f, n, k) THEN f[k] \ f[n] ELSE f[k]
    BY ZenonT(60), CutNodes
  <1>2. n # p /\ Below(f, n, p) /\ f[n] # {}
    BY DEF IsParent, Below, Distinct
  <1> HIDE DEF g
  <1>3. n \in DOMAIN g /\ g[n] = f[n]
    BY <1>1, <1>2 DEF Below
  <1>4. ASSUME NEW k \in DOMAIN g, Below(g, n, k)
        PROVE  FALSE
    <2>1. k # n /\ f[n] \subseteq g[k]
      BY <1>3, <1>4 DEF Below
    <2> QED BY <1>1, <1>2, <2>1 DEF Below
  <1> QED BY <1>2, <1>3, <1>4 DEF Roots, IsRoot, g

(* Where the parent was a root, the sibling becomes one. *)
LEMMA CutFreesSibling ==
  ASSUME NEW f, Distinct(f), Laminar(f), NEW n \in DOMAIN f, NEW p \in Roots(f),
         IsParent(f, p, n), NEW s \in DOMAIN f, AreChildren(f, n, s, p)
  PROVE  s \in Roots(CutEdge(f, n, p)) /\ s \notin Roots(f) /\ s # n
  <1> DEFINE g == CutEdge(f, n, p)
  <1>1. /\ DOMAIN g = DOMAIN f \ {p}
        /\ \A k \in DOMAIN f \ {p} :
             g[k] = IF Below(f, n, k) THEN f[k] \ f[n] ELSE f[k]
    BY ZenonT(60), CutNodes
  <1>2. /\ f[n] # {} /\ f[s] # {} /\ Below(f, s, p) /\ f[n] \intersect f[s] = {} /\ s # p
        /\ p \in DOMAIN f /\ \A k \in DOMAIN f : ~Below(f, p, k)
    BY DEF AreChildren, Below, Distinct, Roots, IsRoot
  <1> HIDE DEF g
  <1>3. s \in DOMAIN g /\ g[s] = f[s] /\ s # n
    BY <1>1, <1>2 DEF Below
  <1>4. ASSUME NEW k \in DOMAIN g, Below(g, s, k)
        PROVE  FALSE
    <2>1. k \in DOMAIN f /\ k # p /\ k # s /\ f[s] \subseteq f[k]
      BY <1>1, <1>3, <1>4 DEF Below
    <2>2. ~(f[p] \subseteq f[k])
      BY <1>2, <2>1 DEF Below
    <2>3. f[k] \subseteq f[p]
      BY <1>2, <2>1, <2>2 DEF Laminar, Below
    <2>4. f[k] \subseteq f[n] \/ f[k] \subseteq f[s]
      BY <1>2, <2>1, <2>3, BelowAChild DEF Below
    <2>5. f[k] = f[s]
      BY <1>2, <2>1, <2>4
    <2> QED BY <2>1, <2>5 DEF Distinct
  <1> QED BY <1>2, <1>3, <1>4 DEF Roots, IsRoot, g

(* No other node becomes a root. *)
LEMMA CutMakesNoOther ==
  ASSUME NEW f, Distinct(f), Laminar(f), NEW n \in DOMAIN f, NEW p \in DOMAIN f,
         IsParent(f, p, n), NEW s \in DOMAIN f, AreChildren(f, n, s, p),
         NEW m \in Roots(CutEdge(f, n, p)), m # n, m \notin Roots(f)
  PROVE  m = s /\ p \in Roots(f)
  <1> DEFINE g == CutEdge(f, n, p)
  <1>1. /\ DOMAIN g = DOMAIN f \ {p}
        /\ \A k \in DOMAIN f \ {p} :
             g[k] = IF Below(f, n, k) THEN f[k] \ f[n] ELSE f[k]
    BY ZenonT(60), CutNodes
  <1>2. /\ n # p /\ s # p /\ f[n] # {} /\ Below(f, n, p) /\ Below(f, s, p)
        /\ f[n] \intersect f[s] = {}
    BY DEF AreChildren, IsParent, Below, Distinct
  <1> HIDE DEF g
  <1>3. m \in DOMAIN g /\ m \in DOMAIN f /\ m # p /\ \A k \in DOMAIN g : ~Below(g, m, k)
    BY <1>1 DEF Roots, IsRoot, g
  <1>4. g[n] = f[n] /\ n \in DOMAIN g
    BY <1>1, <1>2 DEF Below
  <1>5. ASSUME NEW k \in DOMAIN f, Below(f, m, k)
        PROVE  k = p
    <2> SUFFICES ASSUME k # p PROVE FALSE
      OBVIOUS
    <2>1. k \in DOMAIN g /\ k # m /\ f[m] \subseteq f[k] /\ f[m] # f[k] /\ f[m] # {}
      BY <1>1, <1>3, <1>5 DEF Below, Distinct
    <2>2. ~(g[m] \subseteq g[k])
      BY <1>3, <2>1 DEF Below
    <2>3. CASE Below(f, n, m)
      <3>1. Below(f, n, k)
        BY <1>3, <2>1, <2>3 DEF Below
      <3> QED BY <1>1, <1>3, <2>1, <2>2, <2>3, <3>1
    <2>4. CASE ~Below(f, n, m)
      <3>1. g[m] = f[m] /\ Below(f, n, k) /\ g[k] = f[k] \ f[n]
        BY <1>1, <1>3, <2>1, <2>2, <2>4
      <3>2. f[m] \intersect f[n] # {} /\ ~(f[n] \subseteq f[m])
        BY <2>1, <2>2, <2>4, <3>1 DEF Below
      <3>3. f[m] \subseteq f[n]
        BY <1>3, <3>2 DEF Laminar
      <3> QED BY <1>3, <1>4, <3>1, <3>3 DEF Below
    <2> QED BY <2>3, <2>4
  <1>6. Below(f, m, p)
    BY <1>3, <1>5 DEF Roots, IsRoot
  <1>7. p \in Roots(f)
    <2> SUFFICES ASSUME NEW k \in DOMAIN f, Below(f, p, k) PROVE FALSE
      BY DEF Roots, IsRoot
    <2>1. k # m
      BY SMTT(30), <1>3, <1>6 DEF Below, Distinct
    <2>2. Below(f, m, k)
      BY <1>6, <2>1 DEF Below
    <2> QED BY <1>5, <2>2 DEF Below
  <1>8. f[m] \subseteq f[n] \/ f[m] \subseteq f[s]
    BY <1>3, <1>6, BelowAChild
  <1>9. ~(f[m] \subseteq f[n])
    BY <1>2, <1>3, <1>5 DEF Below
  <1>10. m = s
    BY <1>2, <1>5, <1>8, <1>9 DEF Below
  <1> QED BY <1>7, <1>10

-----------------------------------------------------------------------------
(* A cut makes exactly one more root. *)
LEMMA CutAddsARoot ==
  ASSUME NEW f, IsFiniteSet(DOMAIN f), Distinct(f), Laminar(f), Binary(f),
         NEW n \in DOMAIN f, NEW p \in DOMAIN f, IsParent(f, p, n)
  PROVE  Cardinality(Roots(CutEdge(f, n, p))) = Cardinality(Roots(f)) + 1
  <1> DEFINE g == CutEdge(f, n, p)
             R == Roots(f)
  <1>1. PICK s \in DOMAIN f : AreChildren(f, n, s, p)
    BY SiblingExists
  <1>2. \A m \in R : m # p => m \in Roots(g)
    BY CutKeepsRoots
  <1>3. n \in Roots(g) /\ n \notin R
    BY CutMakesRoot
  <1>4. \A m \in Roots(g) : m # n /\ m \notin R => m = s /\ p \in R
    BY <1>1, CutMakesNoOther
  <1>5. p \in R => s \in Roots(g) /\ s \notin R /\ s # n
    BY <1>1, CutFreesSibling
  <1>6. p \notin Roots(g)
    BY ZenonT(60), CutNodes DEF Roots, IsRoot
  <1>7. IsFiniteSet(R)
    BY FS_Subset DEF Roots
  <1> HIDE DEF g, R
  <1>8. CASE p \in R
    <2> DEFINE Q == R \ {p}
    <2>1. IsFiniteSet(Q) /\ Cardinality(Q) = Cardinality(R) - 1
      BY <1>7, <1>8, FS_RemoveElement
    <2>2. IsFiniteSet(Q \union {s}) /\ Cardinality(Q \union {s}) = Cardinality(Q) + 1
      BY <1>5, <1>8, <2>1, FS_AddElement
    <2>3. Cardinality((Q \union {s}) \union {n}) = Cardinality(Q \union {s}) + 1
      BY <1>3, <1>5, <1>8, <2>2, FS_AddElement
    <2>4. Roots(g) = (Q \union {s}) \union {n}
      BY <1>2, <1>3, <1>4, <1>5, <1>6, <1>8
    <2>5. Cardinality(R) \in Nat
      BY <1>7, FS_CardinalityType
    <2> QED BY <2>1, <2>2, <2>3, <2>4, <2>5 DEF g, R
  <1>9. CASE p \notin R
    <2>1. Roots(g) = R \union {n}
      BY <1>2, <1>3, <1>4, <1>9
    <2> QED BY <1>3, <1>7, <2>1, FS_AddElement DEF g, R
  <1> QED BY <1>8, <1>9

(* ... and every component lies inside an earlier one. *)
=============================================================================
