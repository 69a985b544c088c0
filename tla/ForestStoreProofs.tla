-------------------------- MODULE ForestStoreProofs --------------------------
(***************************************************************************)
(* What the two actions do to one heap: a heap that stores a forest stores *)
(* the edited forest afterwards, and undoing the edit gives back the very  *)
(* heap of before.                                                         *)
(***************************************************************************)
EXTENDS ForestActions, ForestStore, LaminarForestProofs, SequenceTheorems

-----------------------------------------------------------------------------
(* Least elements. *)
LEMMA LeastElement ==
  ASSUME NEW X, X \subseteq Nat, X # {}
  PROVE  \E x \in X : \A y \in X : x <= y
<1> DEFINE R == {p \in Nat \X Nat : p[1] < p[2]}
<1>1. IsWellFoundedOn(R, Nat)
  BY NatLessThanWellFounded DEF OpToRel
<1>2. PICK x \in X : \A y \in X : ~(<<y, x>> \in R)
  <2> HIDE DEF R
  <2> QED BY <1>1, WFMin
<1>3. \A y \in X : y \in Nat /\ x \in Nat /\ (<<y, x>> \in R <=> y < x)
  OBVIOUS
<1>4. ASSUME NEW y \in X  PROVE x <= y
  <2>1. x \in Nat /\ y \in Nat
    OBVIOUS
  <2>2. ~(y < x)
    <3> HIDE DEF R
    <3> QED BY <1>2, <1>3
  <2> QED BY <2>1, <2>2
<1> QED BY <1>4

LEMMA SmallestIsLeast ==
  ASSUME NEW X, X \subseteq Nat, X # {}
  PROVE  /\ Smallest(X) \in X /\ Smallest(X) \in Nat
         /\ \A y \in X : Smallest(X) <= y
<1>1. PICK x \in X : \A y \in X : x <= y
  BY LeastElement
<1> QED BY <1>1 DEF Smallest

LEMMA SmallestUnique ==
  ASSUME NEW X, X \subseteq Nat, NEW x \in X, \A y \in X : x <= y
  PROVE  Smallest(X) = x
<1>1. Smallest(X) \in X /\ \A y \in X : Smallest(X) <= y
  BY SmallestIsLeast
<1>2. Smallest(X) <= x /\ x <= Smallest(X) /\ x \in Nat /\ Smallest(X) \in Nat
  BY <1>1
<1> QED BY <1>2

(* A smaller set has no smaller least element. *)
LEMMA SmallestOfSubset ==
  ASSUME NEW X, X \subseteq Nat, NEW Y \in SUBSET X, Y # {}
  PROVE  Smallest(X) <= Smallest(Y)
<1>1. Smallest(Y) \in Y
  BY SmallestIsLeast
<1> QED BY <1>1, SmallestIsLeast

-----------------------------------------------------------------------------
(* Bitmasks: the words of 64 labels. *)
LEMMA Scaled ==
  ASSUME NEW a \in Int, NEW b \in Int, NEW c \in Nat, a <= b
  PROVE  a * c <= b * c
OBVIOUS

LEMMA Division ==
  ASSUME NEW a \in Nat, NEW b \in Nat, b > 0
  PROVE  a \div b \in Nat /\ b * (a \div b) <= a /\ a < b * (a \div b) + b
OBVIOUS

LEMMA WordOf ==
  ASSUME NEW x \in Nat \ {0}
  PROVE  /\ (x - 1) \div WordSize \in Nat
         /\ ((x - 1) \div WordSize) * WordSize <= x - 1
         /\ x - 1 < ((x - 1) \div WordSize) * WordSize + WordSize
<1>1. WordSize \in Nat /\ WordSize > 0 /\ x - 1 \in Nat
  BY HeapAssumption
<1>2. \A a, b \in Nat : a * b = b * a
  OBVIOUS
<1> QED BY <1>1, <1>2, Division

LEMMA WordsOrdered ==
  ASSUME NEW x \in Nat \ {0}, NEW y \in Nat \ {0}, x <= y
  PROVE  (x - 1) \div WordSize <= (y - 1) \div WordSize
<1> DEFINE i == (x - 1) \div WordSize
           j == (y - 1) \div WordSize
<1>1. /\ i \in Nat /\ j \in Nat /\ i * WordSize <= x - 1
      /\ y - 1 < j * WordSize + WordSize /\ WordSize \in Nat
  BY WordOf, HeapAssumption
<1> HIDE DEF i, j
<1>2. CASE j + 1 <= i
  <2>1. (j + 1) * WordSize <= i * WordSize
    BY <1>1, <1>2, Scaled
  <2>2. (j + 1) * WordSize = j * WordSize + WordSize
    BY <1>1
  <2>3. j * WordSize \in Int /\ i * WordSize \in Int
    BY <1>1
  <2> QED BY <1>1, <2>1, <2>2, <2>3
<1> QED BY <1>1, <1>2 DEF i, j

(***************************************************************************)
(* The comparison of two bitmasks by their first differing word compares   *)
(* the smallest labels, of sets that have no label in common.              *)
(***************************************************************************)
LEMMA ComparesSmallest ==
  ASSUME NEW A \in SUBSET Label, NEW B \in SUBSET Label,
         A # {}, B # {}, A \intersect B = {}
  PROVE  HasSmallestTerminal(A, B) <=> Smallest(A) < Smallest(B)
<1> DEFINE w(x) == (x - 1) \div WordSize
           m == Smallest(A \union B)
           i == w(m)
           differ == {k \in {w(x) : x \in A \union B} : Word(A, k) # Word(B, k)}
           a == Smallest(A)
           b == Smallest(B)
<1>1. Label \subseteq Nat \ {0} /\ WordSize \in Nat /\ WordSize > 0
  BY HeapAssumption
<1>2. /\ m \in A \union B /\ m \in Nat \ {0} /\ \A y \in A \union B : m <= y
      /\ a \in A /\ a \in Nat \ {0} /\ \A y \in A : a <= y
      /\ b \in B /\ b \in Nat \ {0} /\ \A y \in B : b <= y
  BY <1>1, SmallestIsLeast
<1> HIDE DEF m, a, b
<1>3. m = IF a < b THEN a ELSE b
  BY <1>2
<1>4. a # b
  BY <1>2
<1>5. i \in differ
  BY <1>2 DEF Word
<1>6. \A k \in differ : i <= k /\ k \in Nat
  BY <1>1, <1>2, WordsOrdered, WordOf
<1>7. Smallest(differ) = i
  <2>1. differ \subseteq Nat
    BY <1>6
  <2> HIDE DEF differ
  <2> QED BY <2>1, <1>5, <1>6, SmallestUnique
<1>8. ASSUME NEW C \in SUBSET (A \union B), C # {}, m \in C
      PROVE  CountTrailingZeros(Word(C, i), i) = m - 1 - i * WordSize
  <2>1. m \in Word(C, i) /\ Word(C, i) \subseteq Nat /\ \A y \in Word(C, i) : m <= y
    BY <1>1, <1>2, <1>8 DEF Word
  <2>2. Smallest(Word(C, i)) = m
    BY <2>1, SmallestUnique
  <2> QED BY <2>1, <2>2 DEF CountTrailingZeros
<1>9. ASSUME NEW C \in SUBSET (A \union B), m \notin C
      PROVE  m - 1 - i * WordSize < CountTrailingZeros(Word(C, i), i)
  <2>1. /\ i \in Nat /\ i * WordSize \in Int /\ i * WordSize <= m - 1
        /\ m - 1 < i * WordSize + WordSize
    BY <1>2, WordOf, <1>1
  <2> HIDE DEF i
  <2>2. CASE Word(C, i) = {}
    BY <2>1, <2>2, <1>1, <1>2 DEF CountTrailingZeros
  <2>3. CASE Word(C, i) # {}
    <3>1. Word(C, i) \subseteq Nat /\ \A y \in Word(C, i) : m < y
      <4>1. Word(C, i) \subseteq C
        BY DEF Word
      <4>2. \A y \in C : y \in Nat /\ m < y
        <5> SUFFICES ASSUME NEW y \in C PROVE y \in Nat /\ m < y
          OBVIOUS
        <5>1. y \in A \union B
          OBVIOUS
        <5>2. y \in Nat /\ m <= y /\ y # m /\ m \in Nat
          BY <5>1, <1>1, <1>2, <1>9
        <5> QED BY <5>2
      <4> QED BY <4>1, <4>2
    <3>2. Smallest(Word(C, i)) \in Nat /\ m < Smallest(Word(C, i))
      BY <3>1, <2>3, SmallestIsLeast
    <3> QED BY <2>1, <2>3, <3>2, <1>2 DEF CountTrailingZeros
  <2> QED BY <2>2, <2>3
<1>10. HasSmallestTerminal(A, B)
         <=> CountTrailingZeros(Word(A, i), i) < CountTrailingZeros(Word(B, i), i)
  <2>1. differ # {}
    BY <1>5
  <2> QED BY <1>7, <2>1 DEF HasSmallestTerminal
<1>11. CASE a < b
  <2>1. m = a /\ m \in A /\ m \notin B
    BY <1>2, <1>3, <1>11
  <2> QED BY <2>1, <1>8, <1>9, <1>10, <1>11 DEF a, b
<1>12. CASE b < a
  <2>1. m = b /\ m \in B /\ m \notin A
    BY <1>2, <1>3, <1>12
  <2>2. /\ CountTrailingZeros(Word(B, i), i) = m - 1 - i * WordSize
        /\ m - 1 - i * WordSize < CountTrailingZeros(Word(A, i), i)
    BY <2>1, <1>8, <1>9
  <2>3. m - 1 - i * WordSize \in Int
    BY <1>1, <1>2, WordOf
  <2>4. CountTrailingZeros(Word(A, i), i) \in Int
    <3>1. Word(A, i) # {} => Smallest(Word(A, i)) \in Nat
      BY <1>1, SmallestIsLeast DEF Word
    <3>2. i * WordSize \in Int
      BY <1>1, <1>2, WordOf
    <3> HIDE DEF i
    <3> QED BY <3>1, <3>2, <1>1 DEF CountTrailingZeros
  <2> HIDE DEF i
  <2> QED BY <2>2, <2>3, <2>4, <1>10, <1>12, <1>2 DEF a, b
<1> QED BY <1>2, <1>4, <1>11, <1>12

-----------------------------------------------------------------------------
(* The pointers of an X-forest say no more than its labels. *)
LEMMA ChildrenHaveParent ==
  ASSUME NEW f, Distinct(f), Laminar(f), NEW a \in DOMAIN f, NEW b \in DOMAIN f,
         NEW p \in DOMAIN f, AreChildren(f, a, b, p)
  PROVE  IsParent(f, p, a)
<1>1. ASSUME NEW q \in DOMAIN f, Below(f, a, q), ~(f[p] \subseteq f[q])
      PROVE  FALSE
  <2>1. f[a] # {} /\ f[a] \subseteq f[q] /\ f[a] \subseteq f[p] /\ a # q
    BY <1>1 DEF Distinct, Below, AreChildren
  <2>2. f[q] \subseteq f[p] /\ q # p
    BY <2>1, <1>1 DEF Laminar
  <2>3. f[q] \subseteq f[a] \/ f[q] \subseteq f[b]
    BY <2>2, BelowAChild DEF Below
  <2>4. f[q] # f[a]
    BY <2>1 DEF Distinct
  <2>5. f[a] \intersect f[b] = {}
    BY DEF AreChildren
  <2> QED BY <2>1, <2>3, <2>4, <2>5
<1> QED BY <1>1 DEF IsParent, AreChildren

LEMMA ParentUnique ==
  ASSUME NEW f, Distinct(f), NEW p \in DOMAIN f, NEW q \in DOMAIN f, NEW n,
         IsParent(f, p, n), IsParent(f, q, n)
  PROVE  p = q
<1>1. f[p] \subseteq f[q] /\ f[q] \subseteq f[p]
  BY DEF IsParent
<1> QED BY <1>1 DEF Distinct

LEMMA ChildrenUnique ==
  ASSUME NEW f, Distinct(f), Laminar(f), NEW p \in DOMAIN f,
         NEW a \in DOMAIN f, NEW b \in DOMAIN f, AreChildren(f, a, b, p),
         NEW n \in DOMAIN f, NEW s \in DOMAIN f, AreChildren(f, n, s, p)
  PROVE  (n = a /\ s = b) \/ (n = b /\ s = a)
<1>1. ASSUME NEW x \in DOMAIN f, NEW y \in DOMAIN f, AreChildren(f, x, y, p),
             NEW z \in DOMAIN f, NEW w \in DOMAIN f, AreChildren(f, z, w, p)
      PROVE  x = z \/ x = w
  <2>1. /\ f[x] \subseteq f[z] \/ f[x] \subseteq f[w]
        /\ f[z] \subseteq f[x] \/ f[z] \subseteq f[y]
        /\ f[w] \subseteq f[x] \/ f[w] \subseteq f[y]
    BY SMTT(30), <1>1, BelowAChild DEF AreChildren
  <2>2. f[x] \intersect f[y] = {} /\ f[x] # {} /\ f[z] # {} /\ f[w] # {}
    BY <1>1 DEF AreChildren, Distinct
  <2>3. CASE f[x] \subseteq f[z]
    <3>1. f[z] \subseteq f[x]
      BY <2>1, <2>2, <2>3
    <3> QED BY <3>1, <2>3 DEF Distinct
  <2>4. CASE f[x] \subseteq f[w]
    <3>1. f[w] \subseteq f[x]
      BY <2>1, <2>2, <2>4
    <3> QED BY <3>1, <2>4 DEF Distinct
  <2> QED BY <2>1, <2>3, <2>4
<1>2. (n = a \/ n = b) /\ (s = a \/ s = b)
  BY <1>1, ChildrenSwap
<1>3. n # s
  BY DEF AreChildren, Distinct
<1> QED BY <1>2, <1>3

(* What a heap that stores f says of a node. *)
LEMMA StoredNode ==
  ASSUME NEW h, NEW f, Stores(h, f), NEW n \in DOMAIN f
  PROVE  /\ n \in Node /\ n # Nil
         /\ h.terms[n] = f[n] /\ f[n] \in SUBSET Label /\ f[n] # {}
         /\ Smallest(f[n]) \in f[n] /\ Smallest(f[n]) \in Nat
         /\ \A x \in f[n] : Smallest(f[n]) <= x
<1>1. /\ n \in Node /\ h.terms[n] = f[n] /\ f[n] # {}
      /\ f[n] \subseteq Label
  BY DEF Stores, WellFormed, Distinct, Covers
<1> QED BY <1>1, HeapAssumption, SmallestIsLeast

LEMMA StoredParent ==
  ASSUME NEW h, NEW f, Stores(h, f), NEW n \in DOMAIN f
  PROVE  /\ h.parent[n] = Nil <=> IsRoot(f, n)
         /\ h.parent[n] = Nil => h.sibling[n] = Nil
         /\ h.parent[n] # Nil =>
              /\ h.parent[n] \in DOMAIN f /\ h.sibling[n] \in DOMAIN f
              /\ IsParent(f, h.parent[n], n) /\ h.sibling[n] # n
              /\ AreChildren(f, n, h.sibling[n], h.parent[n])
              /\ h.sibling[h.sibling[n]] = n /\ h.parent[h.sibling[n]] = h.parent[n]
<1>1. ParentFits(h, f, n) /\ Distinct(f) /\ Laminar(f)
  BY DEF Stores, WellFormed
<1>2. CASE IsRoot(f, n)
  BY <1>1, <1>2 DEF ParentFits
<1>3. CASE ~IsRoot(f, n)
  <2> DEFINE p == h.parent[n]
             s == h.sibling[n]
  <2>1. /\ p \in DOMAIN f /\ s \in DOMAIN f
        /\ IsParent(f, p, n) /\ AreChildren(f, n, s, p)
    BY <1>1, <1>3 DEF ParentFits
  <2>2. p # Nil
    BY <2>1, StoredNode
  <2>3. s # n /\ Below(f, s, p)
    BY <1>1, <2>1 DEF AreChildren, Distinct
  <2>4. ~IsRoot(f, s) /\ ParentFits(h, f, s)
    BY <2>1, <2>3 DEF IsRoot, Stores
  <2>5. /\ h.parent[s] \in DOMAIN f /\ h.sibling[s] \in DOMAIN f
        /\ IsParent(f, h.parent[s], s) /\ AreChildren(f, s, h.sibling[s], h.parent[s])
    BY <2>4 DEF ParentFits
  <2>6. IsParent(f, p, s)
    BY <1>1, <2>1, ChildrenSwap, ChildrenHaveParent
  <2>7. h.parent[s] = p
    BY <1>1, <2>1, <2>5, <2>6, ParentUnique
  <2>8. h.sibling[s] = n
    BY <1>1, <2>1, <2>3, <2>5, <2>7, ChildrenUnique
  <2> QED BY <1>3, <2>1, <2>2, <2>3, <2>7, <2>8
<1> QED BY <1>2, <1>3

LEMMA StoredChildren ==
  ASSUME NEW h, NEW f, Stores(h, f), NEW n \in DOMAIN f
  PROVE  /\ h.left[n] = Nil <=> IsTerminal(f, n)
         /\ h.left[n] = Nil => h.right[n] = Nil
         /\ h.left[n] # Nil =>
              /\ h.left[n] \in DOMAIN f /\ h.right[n] \in DOMAIN f
              /\ AreChildren(f, h.left[n], h.right[n], n)
              /\ Smallest(f[h.left[n]]) < Smallest(f[h.right[n]])
              /\ h.left[n] # h.right[n]
              /\ h.parent[h.left[n]] = n /\ h.parent[h.right[n]] = n
              /\ h.sibling[h.left[n]] = h.right[n] /\ h.sibling[h.right[n]] = h.left[n]
<1>1. ChildrenFit(h, f, n) /\ Distinct(f) /\ Laminar(f)
  BY DEF Stores, WellFormed
<1>2. CASE IsTerminal(f, n)
  BY <1>1, <1>2 DEF ChildrenFit
<1>3. CASE ~IsTerminal(f, n)
  <2> DEFINE l == h.left[n]
             r == h.right[n]
  <2>1. /\ l \in DOMAIN f /\ r \in DOMAIN f /\ AreChildren(f, l, r, n)
        /\ Smallest(f[l]) < Smallest(f[r])
    BY <1>1, <1>3 DEF ChildrenFit
  <2>2. l # Nil /\ r # Nil
    BY <2>1, StoredNode
  <2>3. l # r
    BY <1>1, <2>1 DEF AreChildren, Distinct
  <2>4. IsParent(f, n, l) /\ IsParent(f, n, r) /\ ~IsRoot(f, l) /\ ~IsRoot(f, r)
    BY <1>1, <2>1, ChildrenHaveParent, ChildrenSwap DEF IsRoot, AreChildren
  <2>5. /\ h.parent[l] \in DOMAIN f /\ h.parent[r] \in DOMAIN f
        /\ IsParent(f, h.parent[l], l) /\ IsParent(f, h.parent[r], r)
        /\ h.sibling[l] \in DOMAIN f /\ h.sibling[r] \in DOMAIN f
        /\ AreChildren(f, l, h.sibling[l], h.parent[l])
        /\ AreChildren(f, r, h.sibling[r], h.parent[r])
    BY <2>1, <2>4, StoredParent
  <2>6. h.parent[l] = n /\ h.parent[r] = n
    BY <1>1, <2>4, <2>5, ParentUnique
  <2>7. h.sibling[l] = r /\ h.sibling[r] = l
    BY <1>1, <2>1, <2>3, <2>5, <2>6, ChildrenUnique
  <2> QED BY <1>3, <2>1, <2>2, <2>3, <2>6, <2>7
<1> QED BY <1>2, <1>3

-----------------------------------------------------------------------------
(* Walking the pointers. *)
LEMMA ReachableIsDomain ==
  ASSUME NEW h, NEW f, Stores(h, f)
  PROVE  Reachable(h) = DOMAIN f
<1> DEFINE Step(r) == [n \in Node |->
                         \/ n \in Range(h.roots)
                         \/ /\ h.parent[n] # Nil
                            /\ n \in Children(h, h.parent[n])
                            /\ r[h.parent[n]]]
           known == [n \in Node |-> n \in DOMAIN f]
           reached == CHOOSE r : r = Step(r)
<1>1. DOMAIN f \subseteq Node /\ Range(h.roots) = Roots(f) /\ h.parent \in Pointers
  BY DEF Stores, RootsFit, Heaps
<1>2. ASSUME NEW n \in Node
      PROVE  n \in DOMAIN f <=> Step(known)[n]
  <2>1. CASE n \in DOMAIN f /\ h.parent[n] = Nil
    BY <1>1, <2>1, StoredParent DEF Roots
  <2>2. CASE n \in DOMAIN f /\ h.parent[n] # Nil
    <3> DEFINE p == h.parent[n]
    <3>1. p \in DOMAIN f /\ h.sibling[n] \in DOMAIN f /\ AreChildren(f, n, h.sibling[n], p)
      BY <2>2, StoredParent
    <3>2. ~IsTerminal(f, p)
      BY <3>1, <2>2 DEF IsTerminal, AreChildren
    <3>3. /\ h.left[p] \in DOMAIN f /\ h.right[p] \in DOMAIN f
          /\ AreChildren(f, h.left[p], h.right[p], p)
      BY <3>1, <3>2, StoredChildren
    <3>4. n = h.left[p] \/ n = h.right[p]
      BY <3>1, <3>3, <2>2, ChildrenUnique DEF Stores, WellFormed
    <3>5. n # Nil /\ p \in Node
      BY <2>2, <3>1, StoredNode
    <3> QED BY <1>1, <2>2, <3>1, <3>4, <3>5 DEF Children
  <2>3. CASE n \notin DOMAIN f
    <3> SUFFICES ASSUME Step(known)[n] PROVE FALSE
      BY <2>3
    <3>1. /\ h.parent[n] # Nil /\ n \in Children(h, h.parent[n])
          /\ h.parent[n] \in Node /\ known[h.parent[n]]
      BY <1>1, <2>3 DEF Roots, Pointers
    <3>2. h.parent[n] \in DOMAIN f
      BY <3>1
    <3>3. h.left[h.parent[n]] \in DOMAIN f \union {Nil} /\ h.right[h.parent[n]] \in DOMAIN f \union {Nil}
      BY <3>2, StoredChildren
    <3> QED BY <3>1, <3>3, <2>3 DEF Children
  <2> QED BY <2>1, <2>2, <2>3
<1>3. known = Step(known)
  <2> DEFINE P(n) == n \in DOMAIN f
             Q(n) == \/ n \in Range(h.roots)
                     \/ /\ h.parent[n] # Nil
                        /\ n \in Children(h, h.parent[n])
                        /\ known[h.parent[n]]
  <2>1. \A n \in Node : P(n) <=> Q(n)
    BY <1>2
  <2>2. \A n \in Node : P(n) \in BOOLEAN /\ Q(n) \in BOOLEAN
    OBVIOUS
  <2>3. known = [n \in Node |-> P(n)] /\ Step(known) = [n \in Node |-> Q(n)]
    OBVIOUS
  <2> HIDE DEF known, P, Q
  <2>4. \A n \in Node : P(n) = Q(n)
    BY <2>1, <2>2
  <2> QED BY <2>3, <2>4
<1>4. reached = Step(reached)
  BY <1>3
<1>5. Reachable(h) = {n \in Node : reached[n]}
  BY DEF Reachable
<1> HIDE DEF reached
<1>6. ASSUME NEW n \in Node
      PROVE  reached[n] <=>
               \/ n \in Range(h.roots)
               \/ /\ h.parent[n] # Nil
                  /\ n \in Children(h, h.parent[n])
                  /\ reached[h.parent[n]]
  BY <1>4
<1>7. ASSUME NEW n \in Node
      PROVE  n \in DOMAIN f <=>
               \/ n \in Range(h.roots)
               \/ /\ h.parent[n] # Nil
                  /\ n \in Children(h, h.parent[n])
                  /\ h.parent[n] \in DOMAIN f
  BY <1>1, <1>2 DEF Pointers
<1> DEFINE differ == {n \in Node : ~(reached[n] <=> n \in DOMAIN f)}
<1>8. ASSUME differ # {}
      PROVE  FALSE
  <2>1. PICK n \in differ : h.parent[n] \notin differ
    BY <1>8 DEF Stores, NoCycle
  <2>2. h.parent[n] \in Node \/ h.parent[n] = Nil
    BY <1>1 DEF Pointers
  <2>3. h.parent[n] # Nil => (reached[h.parent[n]] <=> h.parent[n] \in DOMAIN f)
    BY <2>1, <2>2
  <2> QED BY <2>1, <2>3, <1>6, <1>7
<1> QED BY <1>1, <1>5, <1>8

LEMMA ForestOfStored ==
  ASSUME NEW h, NEW f, Stores(h, f)
  PROVE  ForestOf(h) = f
BY ReachableIsDomain DEF ForestOf, Stores

LEMMA PathUpStep ==
  ASSUME NEW h, h.parent \in Pointers, NEW n \in Node
  PROVE  PathUp(h, n) = {n} \union IF h.parent[n] = Nil THEN {} ELSE PathUp(h, h.parent[n])
<1> DEFINE Step(u) == [m \in Node |->
                         {m} \union IF h.parent[m] = Nil THEN {} ELSE u[h.parent[m]]]
           closed(C) == \A x \in C : h.parent[x] # Nil => h.parent[x] \in C
           above == [m \in Node |->
                       {k \in Node : \A C \in SUBSET Node : m \in C /\ closed(C) => k \in C}]
           up == CHOOSE u : u = Step(u)
<1>1. ASSUME NEW m \in Node
      PROVE  above[m] = Step(above)[m]
  <2> DEFINE p == h.parent[m]
  <2>1. CASE p = Nil
    <3>1. closed({m})
      BY <2>1
    <3>2. above[m] \subseteq {m}
      BY <3>1
    <3> QED BY <3>2, <2>1
  <2>2. CASE p # Nil
    <3>1. p \in Node
      BY <2>2 DEF Pointers
    <3>2. above[m] \subseteq {m} \union above[p]
      <4> DEFINE C == {m} \union above[p]
      <4>1. closed(above[p])
        <5> SUFFICES ASSUME NEW x \in above[p], h.parent[x] # Nil
                     PROVE  h.parent[x] \in above[p]
          OBVIOUS
        <5>1. x \in Node /\ h.parent[x] \in Node
          BY <3>1 DEF Pointers
        <5>2. \A D \in SUBSET Node : p \in D /\ closed(D) => h.parent[x] \in D
          BY <3>1
        <5> QED BY <3>1, <5>1, <5>2
      <4>2. closed(C) /\ C \in SUBSET Node /\ m \in C
        BY <4>1, <3>1
      <4> HIDE DEF C, closed
      <4>3. above[m] \subseteq C
        BY <4>2
      <4> QED BY <4>3 DEF C
    <3>3. {m} \union above[p] \subseteq above[m]
      <4>1. \A C \in SUBSET Node : m \in C /\ closed(C) => p \in C
        BY <2>2
      <4> HIDE DEF closed
      <4> QED BY <4>1, <3>1
    <3> HIDE DEF above
    <3> QED BY <2>2, <3>2, <3>3
  <2> QED BY <2>1, <2>2
<1>2. above = Step(above)
  <2> DEFINE g == Step(above)
  <2>1. above = [m \in Node |-> above[m]] /\ g = [m \in Node |-> g[m]]
    OBVIOUS
  <2> HIDE DEF above, g
  <2> QED BY <1>1, <2>1 DEF g
<1> HIDE DEF above
<1>3. up = Step(up)
  BY <1>2
<1>4. \A m : PathUp(h, m) = up[m]
  BY DEF PathUp
<1> HIDE DEF up
<1> QED BY <1>3, <1>4

(* Two solutions of the recursion agree where the parents lead out of no circle. *)
LEMMA PathUpUnique ==
  ASSUME NEW h, h.parent \in Pointers, NoCycle(h), NEW U \in SUBSET Node,
         \A m \in U : h.parent[m] # Nil => h.parent[m] \in U,
         NEW g,
         \A m \in U : g[m] = {m} \union IF h.parent[m] = Nil THEN {} ELSE g[h.parent[m]],
         NEW n \in U
  PROVE  PathUp(h, n) = g[n]
<1> DEFINE differ == {m \in U : PathUp(h, m) # g[m]}
<1>1. ASSUME differ # {}
      PROVE  FALSE
  <2>1. PICK m \in differ : h.parent[m] \notin differ
    BY <1>1 DEF NoCycle
  <2>2. m \in Node /\ PathUp(h, m) # g[m]
    OBVIOUS
  <2>3. PathUp(h, m) = {m} \union IF h.parent[m] = Nil THEN {} ELSE PathUp(h, h.parent[m])
    BY <2>2, PathUpStep
  <2>4. h.parent[m] # Nil => PathUp(h, h.parent[m]) = g[h.parent[m]]
    BY <2>1
  <2> QED BY <2>2, <2>3, <2>4
<1> QED BY <1>1

(* The path from a node to its root: the nodes that contain its labels. *)
LEMMA PathUpIsAbove ==
  ASSUME NEW h, NEW f, Stores(h, f), NEW n \in DOMAIN f
  PROVE  PathUp(h, n) = {k \in DOMAIN f : f[n] \subseteq f[k]}
<1> DEFINE g == [m \in DOMAIN f |-> {k \in DOMAIN f : f[m] \subseteq f[k]}]
           U == DOMAIN f
<1>1. h.parent \in Pointers /\ NoCycle(h) /\ U \in SUBSET Node /\ Distinct(f)
  BY DEF Stores, Heaps, WellFormed
<1>2. \A m \in U : h.parent[m] # Nil => h.parent[m] \in U
  BY StoredParent
<1>3. ASSUME NEW m \in U
      PROVE  g[m] = {m} \union IF h.parent[m] = Nil THEN {} ELSE g[h.parent[m]]
  <2>1. CASE h.parent[m] = Nil
    <3>1. IsRoot(f, m)
      BY <2>1, StoredParent
    <3> QED BY <2>1, <3>1 DEF IsRoot, Below
  <2>2. CASE h.parent[m] # Nil
    <3>1. h.parent[m] \in U /\ IsParent(f, h.parent[m], m)
      BY <2>2, StoredParent
    <3> QED BY <2>2, <3>1 DEF IsParent, Below
  <2> QED BY <2>1, <2>2
<1> HIDE DEF g, U
<1>4. PathUp(h, n) = g[n]
  <2>1. n \in U
    BY DEF U
  <2> QED BY SMTT(30), <1>1, <1>2, <1>3, <2>1, PathUpUnique
<1> QED BY <1>4 DEF g, U

(***************************************************************************)
(* What the code asserts in Forest::isValid holds of a heap that stores a  *)
(* forest.                                                                 *)
(***************************************************************************)
LEMMA StoredIsValid ==
  ASSUME NEW h, NEW f, Stores(h, f)
  PROVE  IsValid(h)
<1>1. Reachable(h) = DOMAIN f
  BY ReachableIsDomain
<1>2. Distinct(f) /\ Laminar(f) /\ LabelsFit(h, f) /\ RootsFit(h, f) /\ h \in Heaps
  BY DEF Stores, WellFormed
<1>3. ASSUME NEW n \in DOMAIN f
      PROVE  TripleValid(h, n)
  <2> DEFINE l == h.left[n]
             r == h.right[n]
  <2>1. CASE IsTerminal(f, n)
    <3>1. l = Nil /\ r = Nil
      BY <2>1, StoredChildren
    <3>2. n \in DOMAIN h.terminalToLabel /\ h.terminalToLabel[n] = Smallest(h.terms[n])
      BY <1>2, <2>1, StoredNode DEF LabelsFit, Terminals
    <3>3. ASSUME NEW x \in h.terms[n]
          PROVE  h.labelToTerminal[x] = n
      <4>1. x \in f[n] /\ x \in Label
        BY StoredNode
      <4>2. h.labelToTerminal[x] \in Terminals(f) /\ x \in f[h.labelToTerminal[x]]
        BY <4>1, <1>2 DEF LabelsFit
      <4> QED BY <4>1, <4>2, <1>2, <2>1 DEF Terminals, IsTerminal, Below, Laminar
    <3> QED BY <3>1, <3>2, <3>3 DEF TripleValid
  <2>2. CASE ~IsTerminal(f, n)
    <3>1. l # Nil
      BY <2>2, StoredChildren
    <3>2. /\ l \in DOMAIN f /\ r \in DOMAIN f /\ AreChildren(f, l, r, n)
          /\ Smallest(f[l]) < Smallest(f[r])
          /\ h.parent[l] = n /\ h.parent[r] = n /\ h.sibling[l] = r /\ h.sibling[r] = l
      BY <3>1, StoredChildren
    <3>3. r # Nil /\ h.terms[n] = f[n] /\ h.terms[l] = f[l] /\ h.terms[r] = f[r]
      BY <3>2, StoredNode
    <3>4. n \notin DOMAIN h.terminalToLabel
      BY <1>2, <2>2 DEF LabelsFit, Terminals
    <3> QED BY <3>1, <3>2, <3>3, <3>4 DEF TripleValid, AreChildren
  <2> QED BY <2>1, <2>2
<1>4. DOMAIN h.terminalToLabel \subseteq Reachable(h)
  BY <1>1, <1>2 DEF LabelsFit, Terminals
<1>5. ASSUME NEW k \in DOMAIN h.roots
      PROVE  /\ h.parent[h.roots[k]] = Nil /\ h.sibling[h.roots[k]] = Nil
             /\ k > 1 => Smallest(h.terms[h.roots[k-1]]) < Smallest(h.terms[h.roots[k]])
  <2>1. h.roots[k] \in Roots(f)
    BY <1>2 DEF RootsFit, Range
  <2>2. h.parent[h.roots[k]] = Nil /\ h.sibling[h.roots[k]] = Nil
    BY <2>1, StoredParent DEF Roots
  <2>3. k \in 1..Len(h.roots) /\ DOMAIN h.roots = 1..Len(h.roots)
    BY <1>2 DEF Heaps
  <2>4. k > 1 => k - 1 \in DOMAIN h.roots /\ k - 1 < k
    BY <2>3
  <2> QED BY <1>2, <2>2, <2>4 DEF RootsFit
<1> QED BY <1>1, <1>3, <1>4, <1>5 DEF IsValid

-----------------------------------------------------------------------------
(* The list of roots. *)
LEMMA InsertedParts ==
  ASSUME NEW S, NEW s \in Seq(S), NEW i \in 1..Len(s) + 1, NEW e \in S
  PROVE  /\ InsertAt(s, i, e) \in Seq(S) /\ Len(InsertAt(s, i, e)) = Len(s) + 1
         /\ \A j \in 1..Len(s) + 1 :
              InsertAt(s, i, e)[j] = IF j < i THEN s[j] ELSE IF j = i THEN e ELSE s[j - 1]
<1> DEFINE a == SubSeq(s, 1, i - 1)
           b == <<e>>
           c == SubSeq(s, i, Len(s))
<1>1. Len(s) \in Nat /\ i \in Int
  OBVIOUS
<1>2. /\ a \in Seq(S) /\ Len(a) = i - 1 /\ \A j \in 1..i-1 : a[j] = s[j]
  BY <1>1, SubSeqProperties
<1>3. /\ c \in Seq(S) /\ Len(c) = Len(s) - i + 1 /\ \A j \in 1..Len(s)-i+1 : c[j] = s[i + j - 1]
  BY <1>1, SubSeqProperties
<1>4. b \in Seq(S) /\ Len(b) = 1 /\ b[1] = e
  OBVIOUS
<1> HIDE DEF a, b, c
<1>41. Len(a) + Len(b) = i /\ Len(a) = i - 1
  BY <1>1, <1>2, <1>4
<1>5. /\ a \o b \in Seq(S) /\ Len(a \o b) = i
      /\ \A j \in 1..i : (a \o b)[j] = IF j <= i - 1 THEN a[j] ELSE b[j - (i - 1)]
  <2>1. /\ a \o b \in Seq(S) /\ Len(a \o b) = Len(a) + Len(b)
        /\ \A j \in 1..Len(a)+Len(b) :
              (a \o b)[j] = IF j <= Len(a) THEN a[j] ELSE b[j - Len(a)]
    BY <1>2, <1>4, ConcatProperties
  <2> QED BY <2>1, <1>41
<1>6. /\ (a \o b) \o c \in Seq(S) /\ Len((a \o b) \o c) = Len(s) + 1
      /\ \A j \in 1..Len(s)+1 : ((a \o b) \o c)[j] = IF j <= i THEN (a \o b)[j] ELSE c[j - i]
  <2>1. /\ (a \o b) \o c \in Seq(S) /\ Len((a \o b) \o c) = Len(a \o b) + Len(c)
        /\ \A j \in 1..Len(a \o b)+Len(c) :
              ((a \o b) \o c)[j] = IF j <= Len(a \o b) THEN (a \o b)[j]
                                   ELSE c[j - Len(a \o b)]
    BY <1>3, <1>5, ConcatProperties
  <2>2. Len(a \o b) + Len(c) = Len(s) + 1
    BY <1>1, <1>3, <1>5
  <2> QED BY <2>1, <2>2, <1>5
<1>7. ASSUME NEW j \in 1..Len(s) + 1
      PROVE  ((a \o b) \o c)[j] = IF j < i THEN s[j] ELSE IF j = i THEN e ELSE s[j - 1]
  <2>0. ((a \o b) \o c)[j] = IF j <= i THEN (a \o b)[j] ELSE c[j - i]
    BY <1>6
  <2>1. CASE j < i
    <3>1. j \in 1..i /\ j \in 1..i-1 /\ j <= i /\ j <= i - 1
      BY <2>1, <1>1
    <3>2. (a \o b)[j] = a[j] /\ a[j] = s[j]
      BY <3>1, <1>2, <1>5
    <3> QED BY <2>0, <2>1, <3>1, <3>2
  <2>2. CASE j = i
    <3>1. i \in 1..i /\ i <= i /\ ~(i <= i - 1) /\ i - (i - 1) = 1 /\ ~(i < i)
      BY <1>1
    <3>2. (a \o b)[i] = b[1]
      BY <3>1, <1>5
    <3> QED BY <2>0, <2>2, <3>1, <3>2, <1>4
  <2>3. CASE j > i
    <3>1. ((a \o b) \o c)[j] = c[j - i]
      BY <2>0, <2>3, <1>1
    <3>2. j - i \in 1..Len(s)-i+1 /\ i + (j - i) - 1 = j - 1
      BY <2>3, <1>1
    <3>3. c[j - i] = s[i + (j - i) - 1]
      BY <3>2, <1>3
    <3>4. ~(j < i) /\ j # i
      BY <2>3, <1>1
    <3> QED BY <3>1, <3>2, <3>3, <3>4
  <2>4. j < i \/ j = i \/ j > i
    BY <1>1
  <2> QED BY <2>1, <2>2, <2>3, <2>4
<1> QED BY <1>6, <1>7 DEF InsertAt, a, b, c

LEMMA Inserted ==
  ASSUME NEW S, NEW s \in Seq(S), NEW i \in 1..Len(s) + 1, NEW e \in S
  PROVE  InsertAt(s, i, e) \in Seq(S) /\ Len(InsertAt(s, i, e)) = Len(s) + 1
BY InsertedParts

LEMMA InsertedAt ==
  ASSUME NEW S, NEW s \in Seq(S), NEW i \in 1..Len(s) + 1, NEW e \in S,
         NEW j \in 1..Len(s) + 1
  PROVE  InsertAt(s, i, e)[j] = IF j < i THEN s[j] ELSE IF j = i THEN e ELSE s[j - 1]
BY InsertedParts

LEMMA RemovedParts ==
  ASSUME NEW S, NEW s \in Seq(S), NEW i \in 1..Len(s)
  PROVE  /\ RemoveAt(s, i) \in Seq(S) /\ Len(RemoveAt(s, i)) = Len(s) - 1
         /\ \A j \in 1..Len(s) - 1 :
              RemoveAt(s, i)[j] = IF j < i THEN s[j] ELSE s[j + 1]
<1> DEFINE a == SubSeq(s, 1, i - 1)
           c == SubSeq(s, i + 1, Len(s))
<1>1. Len(s) \in Nat /\ i \in Int
  OBVIOUS
<1>2. /\ a \in Seq(S) /\ Len(a) = i - 1 /\ \A j \in 1..i-1 : a[j] = s[j]
  BY <1>1, SubSeqProperties
<1>3. /\ c \in Seq(S) /\ Len(c) = Len(s) - i /\ \A j \in 1..Len(s)-i : c[j] = s[i + j]
  <2>1. \A j \in i+1..Len(s) : s[j] \in S
    BY <1>1
  <2>2. /\ c \in Seq(S) /\ Len(c) = (IF i + 1 <= Len(s) THEN Len(s) - (i + 1) + 1 ELSE 0)
        /\ \A j \in 1..Len(s)-(i+1)+1 : c[j] = s[(i + 1) + j - 1]
    BY <1>1, <2>1, SubSeqProperties
  <2>3. \A j \in 1..Len(s)-i : j \in 1..Len(s)-(i+1)+1 /\ (i + 1) + j - 1 = i + j
    BY <1>1
  <2> QED BY <1>1, <2>2, <2>3
<1> HIDE DEF a, c
<1>5. Len(a) + Len(c) = Len(s) - 1 /\ Len(a) = i - 1
  BY <1>1, <1>2, <1>3
<1>6. /\ a \o c \in Seq(S) /\ Len(a \o c) = Len(s) - 1
      /\ \A j \in 1..Len(s)-1 : (a \o c)[j] = IF j <= i - 1 THEN a[j] ELSE c[j - (i - 1)]
  <2>1. /\ a \o c \in Seq(S) /\ Len(a \o c) = Len(a) + Len(c)
        /\ \A j \in 1..Len(a)+Len(c) :
              (a \o c)[j] = IF j <= Len(a) THEN a[j] ELSE c[j - Len(a)]
    BY <1>2, <1>3, ConcatProperties
  <2> QED BY <2>1, <1>5
<1>7. ASSUME NEW j \in 1..Len(s) - 1
      PROVE  (a \o c)[j] = IF j < i THEN s[j] ELSE s[j + 1]
  <2>1. CASE j < i
    BY <2>1, <1>1, <1>2, <1>6
  <2>3. CASE j >= i
    <3>1. (a \o c)[j] = c[j - (i - 1)]
      BY SMTT(30), <2>3, <1>1, <1>6
    <3>2. j - (i - 1) \in 1..Len(s)-i /\ i + (j - (i - 1)) = j + 1
      BY <2>3, <1>1
    <3> QED BY <3>1, <3>2, <2>3, <1>1, <1>3
  <2>4. j < i \/ j >= i
    BY <1>1
  <2> QED BY <2>1, <2>3, <2>4
<1> QED BY <1>6, <1>7 DEF RemoveAt, a, c

LEMMA Removed ==
  ASSUME NEW S, NEW s \in Seq(S), NEW i \in 1..Len(s)
  PROVE  RemoveAt(s, i) \in Seq(S) /\ Len(RemoveAt(s, i)) = Len(s) - 1
BY RemovedParts

LEMMA RemovedAt ==
  ASSUME NEW S, NEW s \in Seq(S), NEW i \in 1..Len(s), NEW j \in 1..Len(s) - 1
  PROVE  RemoveAt(s, i)[j] = IF j < i THEN s[j] ELSE s[j + 1]
BY RemovedParts

LEMMA Replaced ==
  ASSUME NEW S, NEW s \in Seq(S), NEW i \in 1..Len(s), NEW e \in S
  PROVE  ReplaceAt(s, i, e) \in Seq(S) /\ Len(ReplaceAt(s, i, e)) = Len(s)
BY ExceptSeq DEF ReplaceAt

LEMMA ReplacedAt ==
  ASSUME NEW S, NEW s \in Seq(S), NEW i \in 1..Len(s), NEW e \in S, NEW j \in 1..Len(s)
  PROVE  ReplaceAt(s, i, e)[j] = IF j = i THEN e ELSE s[j]
BY ExceptSeq DEF ReplaceAt

(* One element of a list is replaced and another inserted behind it. *)
LEMMA InsertedBehind ==
  ASSUME NEW S, NEW s \in Seq(S), NEW at \in 1..Len(s), NEW first \in S, NEW second \in S,
         NEW r \in at+1..Len(s)+1
  PROVE  LET s1 == ReplaceAt(s, at, first)
             new == InsertAt(s1, r, second)
         IN  /\ new \in Seq(S) /\ Len(new) = Len(s) + 1
             /\ RemoveAt(ReplaceAt(new, at, s[at]), r) = s
<1> DEFINE s1 == ReplaceAt(s, at, first)
           new == InsertAt(s1, r, second)
           u == ReplaceAt(new, at, s[at])
           v == RemoveAt(u, r)
           n == Len(s)
<1>1. n \in Nat /\ at \in Nat /\ s[at] \in S
  OBVIOUS
<1>2. /\ s1 \in Seq(S) /\ Len(s1) = n
      /\ \A k \in 1..n : s1[k] = IF k = at THEN first ELSE s[k]
  <2>1. s1 \in Seq(S) /\ Len(s1) = Len(s)
    BY Replaced
  <2>2. \A k \in 1..Len(s) : s1[k] = IF k = at THEN first ELSE s[k]
    BY ReplacedAt
  <2> QED BY <2>1, <2>2
<1> HIDE DEF s1
<1>3. r \in 1..Len(s1) + 1
  BY <1>1, <1>2
<1>4. /\ new \in Seq(S) /\ Len(new) = n + 1
      /\ \A j \in 1..n + 1 :
            new[j] = IF j < r THEN s1[j] ELSE IF j = r THEN second ELSE s1[j - 1]
  <2>1. new \in Seq(S) /\ Len(new) = Len(s1) + 1
    BY ZenonT(60), <1>2, <1>3, Inserted
  <2>2. \A j \in 1..Len(s1)+1 :
           new[j] = IF j < r THEN s1[j] ELSE IF j = r THEN second ELSE s1[j - 1]
    BY <1>2, <1>3, InsertedAt
  <2> QED BY <2>1, <2>2, <1>2
<1> HIDE DEF new
<1>5. at \in 1..Len(new)
  BY <1>1, <1>4
<1>6. /\ u \in Seq(S) /\ Len(u) = n + 1
      /\ \A j \in 1..n+1 : u[j] = IF j = at THEN s[at] ELSE new[j]
  <2>1. u \in Seq(S) /\ Len(u) = Len(new)
    <3>1. new \in Seq(S) /\ at \in 1..Len(new) /\ s[at] \in S
      BY <1>1, <1>4, <1>5
    <3> HIDE <1>1, <1>2, <1>3, <1>4, <1>5
    <3> QED BY ZenonT(60), <3>1, Replaced
  <2>2. \A j \in 1..Len(new) : u[j] = IF j = at THEN s[at] ELSE new[j]
    BY <1>1, <1>4, <1>5, ReplacedAt
  <2> QED BY <2>1, <2>2, <1>4
<1> HIDE DEF u
<1>7. r \in 1..Len(u) /\ Len(u) - 1 = n
  BY <1>1, <1>6
<1>8. /\ v \in Seq(S) /\ Len(v) = n
      /\ \A j \in 1..n : v[j] = IF j < r THEN u[j] ELSE u[j + 1]
  <2>1. v \in Seq(S) /\ Len(v) = Len(u) - 1
    BY <1>6, <1>7, Removed
  <2>2. \A j \in 1..Len(u)-1 : v[j] = IF j < r THEN u[j] ELSE u[j + 1]
    BY <1>6, <1>7, RemovedAt
  <2> QED BY <2>1, <2>2, <1>7
<1> HIDE DEF v
<1>9. ASSUME NEW j \in 1..n
      PROVE  v[j] = s[j]
  <2>1. CASE j < r
    <3>1. j \in 1..n+1 /\ v[j] = u[j] /\ new[j] = s1[j]
      BY <2>1, <1>1, <1>4, <1>8
    <3> QED BY <3>1, <1>2, <1>6
  <2>2. CASE ~(j < r)
    <3>1. /\ j + 1 \in 1..n+1 /\ v[j] = u[j + 1] /\ j + 1 # at /\ j # at
          /\ ~(j + 1 < r) /\ j + 1 # r /\ (j + 1) - 1 = j
      BY <2>2, <1>1, <1>8
    <3>2. new[j + 1] = s1[(j + 1) - 1]
      BY <3>1, <1>4
    <3> QED BY <3>1, <3>2, <1>2, <1>6
  <2> QED BY <2>1, <2>2
<1>10. v = s
  BY <1>8, <1>9, SeqEqual
<1> QED BY <1>4, <1>10 DEF v, u, new, s1

LEMMA InsertedBehindAt ==
  ASSUME NEW S, NEW s \in Seq(S), NEW at \in 1..Len(s), NEW first \in S, NEW second \in S,
         NEW r \in at+1..Len(s)+1, NEW j \in 1..Len(s)+1
  PROVE  InsertAt(ReplaceAt(s, at, first), r, second)[j] =
           IF j < r THEN IF j = at THEN first ELSE s[j]
           ELSE IF j = r THEN second ELSE s[j - 1]
<1> DEFINE s1 == ReplaceAt(s, at, first)
<1>1. /\ s1 \in Seq(S) /\ Len(s1) = Len(s)
      /\ \A k \in 1..Len(s) : s1[k] = IF k = at THEN first ELSE s[k]
  <2>1. s1 \in Seq(S) /\ Len(s1) = Len(s)
    BY Replaced
  <2>2. \A k \in 1..Len(s) : s1[k] = IF k = at THEN first ELSE s[k]
    BY ReplacedAt
  <2> QED BY <2>1, <2>2
<1> HIDE DEF s1
<1>2. r \in 1..Len(s1)+1 /\ j \in 1..Len(s1)+1
  BY <1>1
<1>3. InsertAt(s1, r, second)[j] = IF j < r THEN s1[j] ELSE IF j = r THEN second ELSE s1[j - 1]
  BY <1>1, <1>2, InsertedAt
<1>4. (j < r => j \in 1..Len(s)) /\ (j > r => j - 1 \in 1..Len(s) /\ j - 1 # at)
  OBVIOUS
<1>5. j < r \/ j = r \/ j > r
  OBVIOUS
<1> QED BY <1>1, <1>3, <1>4, <1>5 DEF s1

(* std::lower_bound *)
LEMMA LowerBoundIs ==
  ASSUME NEW h, NEW s \in Seq(Node), NEW from \in 1..Len(s), NEW S
  PROVE  LET r == LowerBound(h, s, from, S)
         IN  /\ r \in from..Len(s)+1
             /\ \A k \in from..r-1 : HasSmallestTerminal(h.terms[s[k]], S)
             /\ r <= Len(s) => ~HasSmallestTerminal(h.terms[s[r]], S)
<1> DEFINE P == {k \in from..Len(s) : ~HasSmallestTerminal(h.terms[s[k]], S)}
           Q == P \union {Len(s) + 1}
           r == LowerBound(h, s, from, S)
<1>1. Q \subseteq Nat /\ Q # {} /\ Len(s) \in Nat
  OBVIOUS
<1>2. r = Smallest(Q)
  BY DEF LowerBound
<1>3. r \in Q /\ r \in Nat /\ \A k \in Q : r <= k
  <2> HIDE DEF P, Q, r
  <2> QED BY <1>1, <1>2, SmallestIsLeast
<1> HIDE DEF r
<1>4. \A k \in from..r-1 : k \in from..Len(s) /\ k \notin Q
  BY <1>1, <1>3
<1>5. r \in from..Len(s)+1 /\ (r <= Len(s) => r \in P)
  BY <1>1, <1>3
<1> QED BY <1>4, <1>5 DEF r

(* Roots in the order of their smallest labels. *)
Ascending(terms, s) ==
  \A j, k \in DOMAIN s : j < k => Smallest(terms[s[j]]) < Smallest(terms[s[k]])

(* The root at position at of the list s has the labels of first and second. *)
SplitsInto(h, terms, s, at, first, second) ==
  /\ terms \in [Node -> SUBSET Label] /\ h.terms \in [Node -> SUBSET Label]
  /\ s \in Seq(Node) /\ Ascending(terms, s) /\ at \in 1..Len(s)
  /\ first \in Node /\ second \in Node
  /\ h.terms[first] # {} /\ h.terms[second] # {}
  /\ h.terms[first] \intersect h.terms[second] = {}
  /\ terms[s[at]] = h.terms[first] \union h.terms[second]
  /\ Smallest(h.terms[first]) < Smallest(h.terms[second])
  /\ \A k \in 1..Len(s) : k # at =>
       /\ h.terms[s[k]] = terms[s[k]] /\ terms[s[k]] # {}
       /\ terms[s[k]] \intersect terms[s[at]] = {}

(* The list new, with second at position r, and what its undo finds. *)
SplitDone(h, s, at, first, second, r, new) ==
  /\ r \in at+1..Len(s)+1
  /\ new \in Seq(Node) /\ Ascending(h.terms, new)
  /\ Range(new) = (Range(s) \ {s[at]}) \union {first, second}
  /\ RemoveAt(ReplaceAt(new, at, s[at]), r) = s

(***************************************************************************)
(* A root of the list falls into two.  The one with the smaller label      *)
(* takes its place, std::lower_bound finds the place of the other behind   *)
(* it; and the undo, which sets the first and erases the second, finds the *)
(* old list again.                                                         *)
(***************************************************************************)
LEMMA RootSplit ==
  ASSUME NEW h, NEW terms, NEW s, NEW at, NEW first, NEW second,
         SplitsInto(h, terms, s, at, first, second)
  PROVE  LET s1 == ReplaceAt(s, at, first)
             r == LowerBound(h, s1, at, h.terms[second])
         IN  SplitDone(h, s, at, first, second, r, InsertAt(s1, r, second))
<1> SUFFICES
      ASSUME terms \in [Node -> SUBSET Label], h.terms \in [Node -> SUBSET Label],
             s \in Seq(Node), Ascending(terms, s), at \in 1..Len(s),
             first \in Node, second \in Node,
             h.terms[first] # {}, h.terms[second] # {},
             h.terms[first] \intersect h.terms[second] = {},
             terms[s[at]] = h.terms[first] \union h.terms[second],
             Smallest(h.terms[first]) < Smallest(h.terms[second]),
             \A k \in 1..Len(s) : k # at =>
                /\ h.terms[s[k]] = terms[s[k]] /\ terms[s[k]] # {}
                /\ terms[s[k]] \intersect terms[s[at]] = {},
             NEW s1, s1 = ReplaceAt(s, at, first),
             NEW r, r = LowerBound(h, s1, at, h.terms[second]),
             NEW new, new = InsertAt(s1, r, second)
      PROVE  SplitDone(h, s, at, first, second, r, new)
  BY DEF SplitsInto
<1> DEFINE key(n) == Smallest(h.terms[n])
<1>1. /\ Label \subseteq Nat \ {0} /\ Len(s) \in Nat /\ at \in Nat
      /\ DOMAIN s = 1..Len(s) /\ \A k \in 1..Len(s) : s[k] \in Node
  BY HeapAssumption
<1>2. /\ s1 \in Seq(Node) /\ Len(s1) = Len(s) /\ DOMAIN s1 = 1..Len(s)
      /\ \A k \in 1..Len(s) : s1[k] = IF k = at THEN first ELSE s[k]
  <2>1. ReplaceAt(s, at, first) \in Seq(Node)
    BY Replaced
  <2>2. Len(ReplaceAt(s, at, first)) = Len(s)
    BY Replaced
  <2>3. \A j \in 1..Len(s) : ReplaceAt(s, at, first)[j] = IF j = at THEN first ELSE s[j]
    BY ReplacedAt
  <2> QED BY <2>1, <2>2, <2>3
<1>3. \A n \in Node : h.terms[n] # {} => key(n) \in h.terms[n] /\ key(n) \in Nat
  BY <1>1, SmallestIsLeast
<1>4. \A k \in 1..Len(s) : /\ s1[k] \in Node /\ h.terms[s1[k]] # {}
                           /\ h.terms[s1[k]] \intersect h.terms[second] = {}
                           /\ key(s1[k]) \in Nat
  BY <1>1, <1>2, <1>3
<1>5. key(second) \in Nat /\ key(s1[at]) < key(second)
  BY <1>2, <1>3
<1>6. Smallest(terms[s[at]]) = key(first)
  <2>1. /\ key(first) \in h.terms[first] /\ \A y \in h.terms[first] : key(first) <= y
        /\ key(second) \in h.terms[second] /\ \A y \in h.terms[second] : key(second) <= y
    BY <1>1, SmallestIsLeast
  <2>2. key(first) \in Nat /\ \A y \in h.terms[first] \union h.terms[second] : y \in Nat /\ key(first) <= y
    <3>1. key(first) \in Nat /\ key(second) \in Nat /\ key(first) < key(second)
      BY <1>2, <1>3
    <3> HIDE DEF key
    <3>2. \A y \in h.terms[second] : y \in Nat /\ key(first) <= y
      <4> SUFFICES ASSUME NEW y \in h.terms[second] PROVE y \in Nat /\ key(first) <= y
        OBVIOUS
      <4>1. y \in Nat /\ key(second) <= y
        BY <1>1, <2>1
      <4> QED BY <4>1, <3>1
    <3>3. \A y \in h.terms[first] : y \in Nat /\ key(first) <= y
      BY <1>1, <2>1
    <3> QED BY <3>1, <3>2, <3>3
  <2> HIDE DEF key
  <2> QED BY <2>1, <2>2, SmallestUnique
<1>7. \A k \in 1..Len(s) : key(s1[k]) = Smallest(terms[s[k]])
  BY <1>2, <1>6
<1>8. Ascending(h.terms, s1)
  BY <1>1, <1>2, <1>7 DEF Ascending
<1>9. \A k \in 1..Len(s) :
        HasSmallestTerminal(h.terms[s1[k]], h.terms[second]) <=> key(s1[k]) < key(second)
  BY <1>4, ComparesSmallest
<1>10. /\ r \in at+1..Len(s)+1
       /\ \A k \in at..r-1 : key(s1[k]) < key(second)
       /\ r <= Len(s) => ~(key(s1[r]) < key(second))
  <2>1. at \in 1..Len(s1)
    BY <1>2
  <2>2. /\ r \in at..Len(s)+1
        /\ \A k \in at..r-1 : HasSmallestTerminal(h.terms[s1[k]], h.terms[second])
        /\ r <= Len(s) => ~HasSmallestTerminal(h.terms[s1[r]], h.terms[second])
    BY SMTT(30), <2>1, <1>2, LowerBoundIs
  <2> HIDE DEF key
  <2>3. at # r
    BY <2>2, <1>1, <1>5, <1>9
  <2>4. r \in Int /\ at..r-1 \subseteq 1..Len(s) /\ (r <= Len(s) => r \in 1..Len(s))
    BY <2>2, <1>1
  <2>5. r \in at+1..Len(s)+1
    BY <2>2, <2>3, <1>1
  <2> QED BY <2>2, <2>4, <2>5, <1>9
<1> DEFINE n == Len(s)
<1>11. /\ new \in Seq(Node) /\ Len(new) = n + 1 /\ DOMAIN new = 1..n+1
       /\ \A j \in 1..n+1 : /\ new[j] = IF j < r THEN s1[j] ELSE IF j = r THEN second ELSE s1[j - 1]
       /\ RemoveAt(ReplaceAt(new, at, s[at]), r) = s
  <2>1. new \in Seq(Node) /\ Len(new) = Len(s) + 1
    BY <1>10, InsertedBehind
  <2>2. RemoveAt(ReplaceAt(new, at, s[at]), r) = s
    BY <1>10, InsertedBehind
  <2>3. ASSUME NEW j \in 1..n+1
        PROVE  new[j] = IF j < r THEN s1[j] ELSE IF j = r THEN second ELSE s1[j - 1]
    <3>1. new[j] = IF j < r THEN IF j = at THEN first ELSE s[j]
                   ELSE IF j = r THEN second ELSE s[j - 1]
      BY <1>10, InsertedBehindAt
    <3>2. (j < r => j \in 1..n) /\ (j > r => j - 1 \in 1..n /\ j - 1 # at) /\ (j < r \/ j = r \/ j > r)
      BY <1>1, <1>10
    <3> QED BY <3>1, <3>2, <1>2
  <2> QED BY <2>1, <2>2, <2>3
<1>12. ASSUME NEW k \in 1..n
       PROVE  IF k < r THEN key(s1[k]) < key(second) ELSE key(second) < key(s1[k])
  <2>1. \A i, j \in 1..n : i < j => key(s1[i]) < key(s1[j])
    BY <1>2, <1>8 DEF Ascending
  <2>2. \A i \in 1..n : key(s1[i]) \in Nat
    BY <1>4
  <2> HIDE DEF key
  <2>3. CASE k < at
    BY <2>1, <2>2, <2>3, <1>1, <1>5, <1>10
  <2>4. CASE at <= k /\ k < r
    BY <2>4, <1>1, <1>10
  <2>5. CASE r <= k
    <3>1. r \in 1..n /\ ~(key(s1[r]) < key(second))
      BY <2>5, <1>1, <1>10
    <3>2. key(s1[r]) # key(second)
      BY <3>1, <1>3, <1>4 DEF key
    <3>3. key(second) < key(s1[r])
      BY <3>1, <3>2, <2>2, <1>5
    <3>4. key(s1[r]) <= key(s1[k])
      BY <3>1, <2>1, <2>2, <2>5, <1>1
    <3> QED BY <3>1, <3>3, <3>4, <2>2, <2>5, <1>1, <1>5
  <2> QED BY <2>3, <2>4, <2>5, <1>1, <1>10
<1>13. Ascending(h.terms, new)
  <2> SUFFICES ASSUME NEW i \in 1..n+1, NEW j \in 1..n+1, i < j
               PROVE  key(new[i]) < key(new[j])
    BY <1>11 DEF Ascending
  <2>1. \A k, l \in 1..n : k < l => key(s1[k]) < key(s1[l])
    BY <1>2, <1>8 DEF Ascending
  <2> HIDE DEF key
  <2>2. CASE i = r
    <3>1. j - 1 \in 1..n /\ ~(j - 1 < r) /\ new[j] = s1[j - 1] /\ new[i] = second
      BY <2>2, <1>1, <1>10, <1>11
    <3> QED BY <3>1, <1>12
  <2>3. CASE j = r
    <3>1. i \in 1..n /\ i < r /\ new[i] = s1[i] /\ new[j] = second
      BY <2>3, <1>1, <1>10, <1>11
    <3> QED BY <3>1, <1>12
  <2>4. CASE i # r /\ j # r
    <3> DEFINE i0 == IF i < r THEN i ELSE i - 1
               j0 == IF j < r THEN j ELSE j - 1
    <3>1. i0 \in 1..n /\ j0 \in 1..n /\ i0 < j0
      BY <2>4, <1>1, <1>10
    <3>2. new[i] = s1[i0] /\ new[j] = s1[j0]
      BY <2>4, <1>1, <1>10, <1>11
    <3> HIDE DEF i0, j0
    <3> QED BY <3>1, <3>2, <2>1
  <2> QED BY <2>2, <2>3, <2>4
<1>14. Range(new) = (Range(s) \ {s[at]}) \union {first, second}
  <2>1. \A k \in 1..n : k # at => s[k] # s[at]
    BY <1>1, SmallestIsLeast
  <2>2. ASSUME NEW x \in Range(new)
        PROVE  x \in (Range(s) \ {s[at]}) \union {first, second}
    <3>1. PICK j \in 1..n+1 : x = new[j]
      BY <1>11 DEF Range
    <3>2. CASE j = r
      BY <3>1, <3>2, <1>11
    <3>3. CASE j # r
      <4> DEFINE j0 == IF j < r THEN j ELSE j - 1
      <4>1. j0 \in 1..n /\ x = s1[j0]
        BY <3>1, <3>3, <1>1, <1>10, <1>11
      <4> HIDE DEF j0
      <4> QED BY <4>1, <2>1, <1>1, <1>2 DEF Range
    <3> QED BY <3>2, <3>3
  <2>3. ASSUME NEW k \in 1..n
        PROVE  s1[k] \in Range(new)
    <3> DEFINE j == IF k < r THEN k ELSE k + 1
    <3>1. j \in 1..n+1 /\ new[j] = s1[k]
      <4>1. CASE k < r
        BY <4>1, <1>1, <1>10, <1>11
      <4>2. CASE ~(k < r)
        <5>1. j = k + 1 /\ j \in 1..n+1 /\ ~(j < r) /\ j # r /\ j - 1 = k
          BY <4>2, <1>1, <1>10
        <5> HIDE DEF j
        <5> QED BY <5>1, <1>11
      <4> QED BY <4>1, <4>2
    <3> HIDE DEF j
    <3> QED BY <3>1, <1>11 DEF Range
  <2>4. second \in Range(new) /\ first \in Range(new)
    <3>1. r \in 1..n+1 /\ new[r] = second
      BY <1>1, <1>10, <1>11
    <3>2. first \in Range(new)
      BY <2>3, <1>2
    <3> QED BY <3>1, <3>2, <1>11 DEF Range
  <2>5. ASSUME NEW x \in Range(s), x # s[at]
        PROVE  x \in Range(new)
    <3>1. PICK k \in 1..n : x = s[k]
      BY <1>1 DEF Range
    <3>2. s1[k] = x
      BY <3>1, <2>5, <1>2
    <3> QED BY <3>2, <2>3
  <2> QED BY <2>2, <2>4, <2>5
<1> QED BY <1>10, <1>11, <1>13, <1>14 DEF SplitDone

-----------------------------------------------------------------------------
(* The cut of the edge between c and p, as the pointers see it. *)

(* The nodes that lose the labels of c: those from p up. *)
LEMMA CutAbove ==
  ASSUME NEW f, NEW c \in DOMAIN f, NEW p \in DOMAIN f, IsParent(f, p, c), Distinct(f),
         NEW m \in DOMAIN f
  PROVE  Below(f, c, m) <=> f[p] \subseteq f[m]
<1>1. f[c] \subseteq f[p] /\ f[c] # f[p]
  BY DEF IsParent, Below, Distinct
<1>2. CASE f[p] \subseteq f[m]
  <2>1. f[c] \subseteq f[m] /\ c # m
    BY <1>1, <1>2
  <2> QED BY <2>1, <1>2 DEF Below
<1>3. CASE Below(f, c, m)
  BY <1>3 DEF IsParent
<1> QED BY <1>2, <1>3

(* Who has two children other than p keeps them. *)
LEMMA CutKeepsChildren ==
  ASSUME NEW f, Distinct(f), Laminar(f), NEW c \in DOMAIN f, NEW p \in DOMAIN f,
         IsParent(f, p, c), NEW g, g = CutEdge(f, c, p),
         NEW m \in DOMAIN f \ {p}, NEW a \in DOMAIN f \ {p}, NEW b \in DOMAIN f \ {p},
         AreChildren(f, a, b, m)
  PROVE  AreChildren(g, a, b, m)
<1>1. \A k \in DOMAIN f \ {p} : g[k] = IF Below(f, c, k) THEN f[k] \ f[c] ELSE f[k]
  BY DEF CutEdge
<1>2. /\ f[a] \union f[b] = f[m] /\ f[a] \intersect f[b] = {}
      /\ a # m /\ b # m /\ f[a] # {} /\ f[b] # {} /\ f[c] # {}
  BY DEF AreChildren, Below, Distinct
<1>3. CASE Below(f, c, m)
  <2>1. f[p] \subseteq f[m] /\ f[c] \subseteq f[p] /\ c # p
    BY <1>3 DEF IsParent, Below
  <2>2. ASSUME NEW x \in DOMAIN f \ {p}, NEW y \in DOMAIN f \ {p},
               f[x] \union f[y] = f[m], f[x] \intersect f[y] = {},
               f[p] \subseteq f[x]
        PROVE  /\ g[x] = f[x] \ f[c] /\ g[y] = f[y] /\ f[y] \intersect f[c] = {}
    <3>1. Below(f, c, x)
      BY <2>1, <2>2, CutAbove
    <3>2. f[c] \subseteq f[x] /\ ~Below(f, c, y)
      BY <2>1, <2>2, <1>2 DEF Below
    <3> QED BY <3>1, <3>2, <2>2, <1>1
  <2>3. f[p] \subseteq f[a] \/ f[p] \subseteq f[b]
    <3>1. Below(f, p, m)
      BY <2>1 DEF Below
    <3> QED BY <3>1, BelowAChild
  <2>4. g[m] = f[m] \ f[c]
    BY <1>1, <1>3
  <2>5. CASE f[p] \subseteq f[a]
    <3>1. g[a] = f[a] \ f[c] /\ g[b] = f[b] /\ f[b] \intersect f[c] = {}
      BY <2>2, <2>5, <1>2
    <3> QED BY <3>1, <2>4, <1>2 DEF AreChildren, Below
  <2>6. CASE f[p] \subseteq f[b]
    <3>1. g[b] = f[b] \ f[c] /\ g[a] = f[a] /\ f[a] \intersect f[c] = {}
      BY <2>2, <2>6, <1>2
    <3> QED BY <3>1, <2>4, <1>2 DEF AreChildren, Below
  <2> QED BY <2>3, <2>5, <2>6
<1>4. CASE ~Below(f, c, m)
  <2>1. ASSUME NEW x \in DOMAIN f \ {p}, f[x] \subseteq f[m], x # m
        PROVE  g[x] = f[x]
    <3>1. ~Below(f, c, x)
      <4>1. ASSUME c # x, f[c] \subseteq f[x]
            PROVE  FALSE
        <5>1. f[c] \subseteq f[m] /\ c = m
          BY <4>1, <2>1, <1>4 DEF Below
        <5>2. f[x] = f[m]
          BY <5>1, <4>1, <2>1
        <5> QED BY <5>2, <2>1 DEF Distinct
      <4> QED BY <4>1 DEF Below
    <3> QED BY <3>1, <1>1
  <2>2. g[a] = f[a] /\ g[b] = f[b] /\ g[m] = f[m]
    BY <2>1, <1>1, <1>2, <1>4
  <2> QED BY <2>2, <1>2 DEF AreChildren, Below
<1> QED BY <1>3, <1>4

(* No node gets below another. *)
LEMMA CutKeepsApart ==
  ASSUME NEW f, Distinct(f), Laminar(f), NEW c \in DOMAIN f, NEW p \in DOMAIN f,
         IsParent(f, p, c), NEW g, g = CutEdge(f, c, p),
         NEW m \in DOMAIN f \ {p}, NEW k \in DOMAIN f \ {p}, Below(g, m, k)
  PROVE  Below(f, m, k)
<1>1. \A x \in DOMAIN f \ {p} : g[x] = IF Below(f, c, x) THEN f[x] \ f[c] ELSE f[x]
  BY DEF CutEdge
<1>2. Distinct(g)
  BY CutDistinct
<1>3. m # k /\ g[m] \subseteq g[k] /\ g[m] # {}
  BY <1>2 DEF Below, Distinct, CutEdge
<1>4. g[m] \subseteq f[m] /\ g[k] \subseteq f[k]
  BY <1>1
<1>5. f[m] # f[k] /\ f[c] \subseteq f[p] /\ f[c] # f[p]
  BY <1>3 DEF Distinct, IsParent, Below
<1>6. ASSUME f[k] \subseteq f[m]
      PROVE  FALSE
  <2>1. CASE ~Below(f, c, m)
    BY <2>1, <1>1, <1>3, <1>4, <1>5, <1>6
  <2>2. CASE Below(f, c, m)
    <3>1. g[m] = f[m] \ f[c] /\ f[p] \subseteq f[m]
      BY <2>2, <1>1, CutAbove
    <3>2. PICK x \in f[m] : x \notin f[p]
      <4>1. f[m] # f[p]
        BY DEF Distinct
      <4> QED BY <4>1, <3>1
    <3>3. x \in f[k]
      BY <3>1, <3>2, <1>3, <1>4, <1>5
    <3>4. f[p] \subseteq f[k]
      <4>1. PICK y \in f[p] : y \notin f[c]
        BY <1>5
      <4>2. y \in f[k]
        BY <4>1, <3>1, <1>3, <1>4
      <4> QED BY <4>1, <4>2, <3>2, <3>3 DEF Laminar
    <3> QED BY <3>1, <3>4, <1>3, <1>4, <1>5, <1>6
  <2> QED BY <2>1, <2>2
<1>7. f[m] \subseteq f[k]
  BY <1>3, <1>4, <1>6 DEF Laminar
<1> QED BY <1>3, <1>7 DEF Below

(* The sibling of c comes into the place of p. *)
LEMMA CutLiftsSibling ==
  ASSUME NEW f, Distinct(f), Laminar(f), NEW c \in DOMAIN f, NEW p \in DOMAIN f,
         NEW s \in DOMAIN f, AreChildren(f, c, s, p), NEW g, g = CutEdge(f, c, p),
         NEW q \in DOMAIN f, NEW m \in DOMAIN f, AreChildren(f, p, q, m)
  PROVE  AreChildren(g, s, q, m)
<1>1. \A k \in DOMAIN f \ {p} : g[k] = IF Below(f, c, k) THEN f[k] \ f[c] ELSE f[k]
  BY DEF CutEdge
<1>2. /\ f[c] \union f[s] = f[p] /\ f[c] \intersect f[s] = {} /\ c # p /\ s # p
      /\ f[p] \union f[q] = f[m] /\ f[p] \intersect f[q] = {} /\ p # m /\ q # m
      /\ f[c] # {} /\ f[s] # {} /\ f[q] # {}
  BY DEF AreChildren, Below, Distinct
<1>3. ~Below(f, c, s) /\ ~Below(f, c, q) /\ Below(f, c, m) /\ q # p /\ s # m
  BY <1>2 DEF Below
<1>4. g[s] = f[s] /\ g[q] = f[q] /\ g[m] = f[m] \ f[c]
  BY <1>1, <1>2, <1>3
<1>5. g[s] \union g[q] = g[m] /\ g[s] \intersect g[q] = {}
  BY <1>2, <1>4
<1> QED BY <1>2, <1>3, <1>5 DEF AreChildren, Below

-----------------------------------------------------------------------------
(* Heaps, field by field. *)
LEMMA HeapFields ==
  ASSUME NEW h \in Heaps
  PROVE  /\ h.parent \in Pointers /\ h.sibling \in Pointers
         /\ h.left \in Pointers /\ h.right \in Pointers
         /\ h.terms \in [Node -> SUBSET Label] /\ h.roots \in Seq(Node)
         /\ h.labelToTerminal \in [Label -> Node]
         /\ h.terminalToLabel \in UNION {[S -> Label] : S \in SUBSET Node}
BY DEF Heaps

LEMMA HeapsEqual ==
  ASSUME NEW h \in Heaps, NEW g \in Heaps,
         h.parent = g.parent, h.sibling = g.sibling, h.left = g.left, h.right = g.right,
         h.terms = g.terms, h.roots = g.roots,
         h.labelToTerminal = g.labelToTerminal, h.terminalToLabel = g.terminalToLabel
  PROVE  h = g
<1>1. ASSUME NEW x \in Heaps
      PROVE  x = [parent |-> x.parent, sibling |-> x.sibling, left |-> x.left, right |-> x.right,
                  terms |-> x.terms, roots |-> x.roots, labelToTerminal |-> x.labelToTerminal,
                  terminalToLabel |-> x.terminalToLabel]
  BY DEF Heaps
<1>2. h = [parent |-> h.parent, sibling |-> h.sibling, left |-> h.left, right |-> h.right,
           terms |-> h.terms, roots |-> h.roots, labelToTerminal |-> h.labelToTerminal,
           terminalToLabel |-> h.terminalToLabel]
  BY <1>1
<1>3. g = [parent |-> g.parent, sibling |-> g.sibling, left |-> g.left, right |-> g.right,
           terms |-> g.terms, roots |-> g.roots, labelToTerminal |-> g.labelToTerminal,
           terminalToLabel |-> g.terminalToLabel]
  BY <1>1
<1> QED BY <1>2, <1>3

LEMMA PathUpSame ==
  ASSUME NEW h, NEW g, h.parent = g.parent, NEW n
  PROVE  PathUp(h, n) = PathUp(g, n)
BY DEF PathUp

(* The sibling of c hangs below the parent g of p, or below nothing. *)
LEMMA NoCycleLifted ==
  ASSUME NEW h, NEW k, h.parent \in Pointers, NoCycle(h), NEW s \in Node,
         NEW p \in Node, h.parent[s] = p,
         \A n \in Node : \/ k.parent[n] = h.parent[n]
                         \/ k.parent[n] = Nil
                         \/ n = s /\ k.parent[n] = h.parent[p]
  PROVE  NoCycle(k)
<1> SUFFICES ASSUME NEW S \in SUBSET Node, S # {}
             PROVE  \E n \in S : k.parent[n] \notin S
  BY DEF NoCycle
<1>1. Nil \notin S
  BY HeapAssumption
<1>2. CASE s \notin S
  <2>1. PICK n \in S : h.parent[n] \notin S
    BY DEF NoCycle
  <2> QED BY <2>1, <1>1, <1>2
<1>3. CASE s \in S
  <2>1. PICK n \in S \union {p} : h.parent[n] \notin S \union {p}
    <3>1. S \union {p} \in SUBSET Node /\ S \union {p} # {}
      OBVIOUS
    <3> QED BY <3>1 DEF NoCycle
  <2>2. CASE n = s
    BY <2>1, <2>2
  <2>3. CASE n = p /\ n # s
    <3>1. CASE p \in S
      <4>1. k.parent[p] = h.parent[p] \/ k.parent[p] = Nil
        BY <2>3
      <4> QED BY <4>1, <3>1, <2>1, <2>3, <1>1
    <3>2. CASE p \notin S
      <4>1. k.parent[s] \notin S
        BY <3>2, <2>1, <2>3, <1>1
      <4> QED BY <4>1, <1>3
    <3> QED BY <3>1, <3>2
  <2>4. CASE n \in S /\ n # s
    BY <2>1, <2>4, <1>1
  <2> QED BY <2>1, <2>2, <2>3, <2>4
<1> QED BY <1>2, <1>3

-----------------------------------------------------------------------------
(* The edge between c and its parent p; s is the sibling of c. *)
Edge(h, f, c, p, s) ==
  Stores(h, f) /\ c \in DOMAIN f /\ h.parent[c] # Nil /\ p = h.parent[c] /\ s = h.sibling[c]

LEMMA StoredForest ==
  ASSUME NEW h, NEW f, Stores(h, f)
  PROVE  /\ Distinct(f) /\ Laminar(f) /\ Binary(f) /\ Covers(f, Label) /\ WellFormed(f, Label)
         /\ h \in Heaps /\ NoCycle(h) /\ DOMAIN f \subseteq Node /\ Nil \notin Node
         /\ f = [n \in DOMAIN f |-> h.terms[n]]
         /\ Range(h.roots) = Roots(f) /\ Ascending(h.terms, h.roots) /\ LabelsFit(h, f)
BY HeapAssumption DEF Stores, WellFormed, RootsFit, Ascending

LEMMA EdgeFacts ==
  ASSUME NEW h, NEW f, NEW c, NEW p, NEW s, Edge(h, f, c, p, s)
  PROVE  /\ c \in DOMAIN f /\ p \in DOMAIN f /\ s \in DOMAIN f
         /\ c \in Node /\ p \in Node /\ s \in Node
         /\ c # p /\ s # p /\ c # s
         /\ IsParent(f, p, c) /\ IsParent(f, p, s)
         /\ AreChildren(f, c, s, p) /\ AreChildren(f, s, c, p)
         /\ h.parent[c] = p /\ h.sibling[c] = s /\ h.parent[s] = p /\ h.sibling[s] = c
         /\ \/ h.left[p] = c /\ h.right[p] = s
            \/ h.left[p] = s /\ h.right[p] = c
         /\ Smallest(f[h.left[p]]) < Smallest(f[h.right[p]])
         /\ f[c] \intersect f[s] = {} /\ f[c] \union f[s] = f[p]
<1>1. Stores(h, f) /\ c \in DOMAIN f /\ h.parent[c] # Nil /\ p = h.parent[c] /\ s = h.sibling[c]
  BY DEF Edge
<1>2. /\ p \in DOMAIN f /\ s \in DOMAIN f
      /\ IsParent(f, p, c) /\ s # c /\ AreChildren(f, c, s, p)
      /\ h.sibling[s] = c /\ h.parent[s] = p
  BY <1>1, StoredParent
<1>3. c # p /\ s # p /\ f[c] \intersect f[s] = {} /\ f[c] \union f[s] = f[p] /\ ~IsTerminal(f, p)
  BY <1>1, <1>2 DEF AreChildren, Below, IsTerminal
<1>4. AreChildren(f, s, c, p) /\ IsParent(f, p, s)
  BY <1>1, <1>2, ChildrenSwap, ChildrenHaveParent, StoredForest
<1>5. /\ h.left[p] \in DOMAIN f /\ h.right[p] \in DOMAIN f
      /\ AreChildren(f, h.left[p], h.right[p], p)
      /\ Smallest(f[h.left[p]]) < Smallest(f[h.right[p]])
  BY <1>1, <1>2, <1>3, StoredChildren
<1>6. \/ h.left[p] = c /\ h.right[p] = s
      \/ h.left[p] = s /\ h.right[p] = c
  BY <1>1, <1>2, <1>5, ChildrenUnique, StoredForest
<1>7. c \in Node /\ p \in Node /\ s \in Node
  BY <1>1, <1>2, StoredNode
<1> QED BY <1>1, <1>2, <1>3, <1>4, <1>5, <1>6, <1>7

(* Where a root is in the list. *)
LEMMA RootIndex ==
  ASSUME NEW h, NEW f, Stores(h, f), NEW r \in Roots(f)
  PROVE  /\ {k \in DOMAIN h.roots : h.roots[k] = r} # {}
         /\ \A k \in DOMAIN h.roots : h.roots[k] = r =>
              /\ k \in 1..Len(h.roots)
              /\ (CHOOSE x \in {y \in DOMAIN h.roots : h.roots[y] = r} : TRUE) = k
              /\ (CHOOSE x \in DOMAIN h.roots : h.roots[x] = r) = k
<1>1. /\ Range(h.roots) = Roots(f) /\ Ascending(h.terms, h.roots)
      /\ h.roots \in Seq(Node) /\ DOMAIN h.roots = 1..Len(h.roots)
  BY StoredForest, HeapFields
<1>2. PICK k \in DOMAIN h.roots : h.roots[k] = r
  BY <1>1 DEF Range
<1>3. Smallest(h.terms[r]) \in Nat
  BY StoredNode DEF Roots
<1>4. \A j \in DOMAIN h.roots : h.roots[j] = r => j = k
  BY <1>1, <1>2, <1>3 DEF Ascending
<1> QED BY <1>1, <1>2, <1>4

(* Roots have no label in common. *)
LEMMA RootsApart ==
  ASSUME NEW f, Distinct(f), Laminar(f), NEW r \in Roots(f), NEW q \in Roots(f), q # r
  PROVE  f[q] \intersect f[r] = {}
BY DEF Roots, IsRoot, Below, Laminar

(* A root takes all that it shares a label with. *)
LEMMA RootTakesAll ==
  ASSUME NEW f, Laminar(f), NEW r \in Roots(f), NEW n \in DOMAIN f,
         f[n] \intersect f[r] # {}
  PROVE  f[n] \subseteq f[r]
BY DEF Roots, IsRoot, Below, Laminar

-----------------------------------------------------------------------------
(* The cut below a root: DeleteEdgeAction's first case. *)
LEMMA RootFields ==
  ASSUME NEW h, NEW f, NEW c, NEW p, NEW s, Edge(h, f, c, p, s), p \in Roots(f)
  PROVE  LET a == EdgeAbove(h, c)
             done == DoParentIsRoot(h, a)
             k == done.heap
         IN  /\ a.child = c /\ a.sibling = s /\ a.parent = p /\ a.parentIsRoot
             /\ DoDelete(h, a) = done
             /\ k \in Heaps /\ k.terms = h.terms /\ k.left = h.left /\ k.right = h.right
             /\ k.labelToTerminal = h.labelToTerminal
             /\ k.terminalToLabel = h.terminalToLabel
             /\ \A n \in Node : /\ k.parent[n] = IF n = c \/ n = s THEN Nil ELSE h.parent[n]
                                /\ k.sibling[n] = IF n = c \/ n = s THEN Nil ELSE h.sibling[n]
             /\ Range(k.roots) = (Roots(f) \ {p}) \union {c, s}
             /\ Ascending(k.terms, k.roots)
             /\ RemoveAt(ReplaceAt(k.roots, done.left, p), done.right) = h.roots
<1> DEFINE a == EdgeAbove(h, c)
           done == DoParentIsRoot(h, a)
           k == done.heap
           at == a.leftIndex
           l == h.left[p]
           r == h.right[p]
           s1 == ReplaceAt(h.roots, at, l)
           right == LowerBound(h, s1, at, h.terms[r])
           new == InsertAt(s1, right, r)
<1>1. Stores(h, f)
  BY DEF Edge
<1>2. /\ c \in DOMAIN f /\ p \in DOMAIN f /\ s \in DOMAIN f /\ c \in Node /\ p \in Node /\ s \in Node
      /\ c # p /\ s # p /\ c # s /\ h.parent[c] = p /\ h.sibling[c] = s
      /\ \/ l = c /\ r = s
         \/ l = s /\ r = c
      /\ Smallest(f[l]) < Smallest(f[r])
      /\ f[c] \intersect f[s] = {} /\ f[c] \union f[s] = f[p]
  BY EdgeFacts
<1>3. /\ h \in Heaps /\ Nil \notin Node /\ Distinct(f) /\ Laminar(f)
      /\ Range(h.roots) = Roots(f) /\ Ascending(h.terms, h.roots)
  BY <1>1, StoredForest
<1>4. /\ h.parent \in Pointers /\ h.sibling \in Pointers
      /\ h.terms \in [Node -> SUBSET Label] /\ h.roots \in Seq(Node)
      /\ DOMAIN h.roots = 1..Len(h.roots)
  BY <1>3, HeapFields
<1>5. PICK x \in DOMAIN h.roots : h.roots[x] = p
  BY <1>3 DEF Range
<1>6. /\ a.child = c /\ a.sibling = s /\ a.parent = p /\ a.parentIsRoot
      /\ a.left = l /\ a.right = r /\ at = x
  <2>1. /\ {y \in DOMAIN h.roots : h.roots[y] = p} # {}
        /\ (CHOOSE z \in {y \in DOMAIN h.roots : h.roots[y] = p} : TRUE) = x
    BY <1>1, <1>5, RootIndex
  <2> QED BY <2>1, <1>2 DEF EdgeAbove
<1>7. at \in 1..Len(h.roots) /\ h.roots[at] = p
  BY <1>4, <1>5, <1>6
<1>8. /\ done.left = at /\ done.right = right
      /\ k = [Detach(Detach(h, s), c) EXCEPT !.roots = new]
  BY <1>6 DEF DoParentIsRoot
<1> HIDE DEF done, a, at
<1>9. /\ right \in at+1..Len(h.roots)+1
      /\ new \in Seq(Node) /\ Ascending(h.terms, new)
      /\ Range(new) = (Range(h.roots) \ {p}) \union {l, r}
      /\ RemoveAt(ReplaceAt(new, at, p), right) = h.roots
  <2>1. l \in Node /\ r \in Node /\ h.terms[l] = f[l] /\ h.terms[r] = f[r]
        /\ h.terms[l] # {} /\ h.terms[r] # {} /\ h.terms[l] \intersect h.terms[r] = {}
        /\ Smallest(h.terms[l]) < Smallest(h.terms[r])
        /\ h.terms[h.roots[at]] = h.terms[l] \union h.terms[r]
    BY SMTT(30), <1>1, <1>2, <1>7, StoredNode
  <2>2. \A j \in 1..Len(h.roots) : j # at =>
           h.terms[h.roots[j]] # {} /\ h.terms[h.roots[j]] \intersect h.terms[h.roots[at]] = {}
    <3> SUFFICES ASSUME NEW j \in 1..Len(h.roots), j # at
                 PROVE  /\ h.terms[h.roots[j]] # {}
                        /\ h.terms[h.roots[j]] \intersect h.terms[h.roots[at]] = {}
      OBVIOUS
    <3>1. h.roots[j] \in Roots(f) /\ h.roots[j] # p
      <4>1. h.roots[j] \in Roots(f) /\ j \in DOMAIN h.roots /\ at \in DOMAIN h.roots
        BY <1>3, <1>4, <1>7 DEF Range
      <4>2. h.roots[j] = p => (CHOOSE y \in DOMAIN h.roots : h.roots[y] = p) = j
        BY <1>1, <4>1, RootIndex
      <4>3. (CHOOSE y \in DOMAIN h.roots : h.roots[y] = p) = at
        BY <1>1, <1>7, <4>1, RootIndex
      <4> QED BY <4>1, <4>2, <4>3
    <3>2. f[h.roots[j]] \intersect f[p] = {}
      BY <1>3, <3>1, RootsApart
    <3> QED BY <1>1, <1>2, <1>7, <3>1, <3>2, StoredNode DEF Roots
  <2> HIDE DEF l, r
  <2>3. SplitsInto(h, h.terms, h.roots, at, l, r)
    BY <2>1, <2>2, <1>3, <1>4, <1>7 DEF SplitsInto
  <2>4. SplitDone(h, h.roots, at, l, r, right, new)
    BY <2>3, RootSplit
  <2> QED BY <2>4, <1>7 DEF SplitDone
<1> HIDE DEF new, right, s1, l, r
<1>10. /\ k \in Heaps /\ k.terms = h.terms /\ k.left = h.left /\ k.right = h.right
       /\ k.labelToTerminal = h.labelToTerminal /\ k.terminalToLabel = h.terminalToLabel
       /\ k.roots = new
       /\ k.parent = [n \in Node |-> IF n = c \/ n = s THEN Nil ELSE h.parent[n]]
       /\ k.sibling = [n \in Node |-> IF n = c \/ n = s THEN Nil ELSE h.sibling[n]]
  <2>1. /\ k.terms = h.terms /\ k.left = h.left /\ k.right = h.right
        /\ k.labelToTerminal = h.labelToTerminal /\ k.terminalToLabel = h.terminalToLabel
        /\ k.roots = new
    BY <1>3, <1>8 DEF Detach, Heaps
  <2>2. /\ k.parent = [[h.parent EXCEPT ![s] = Nil] EXCEPT ![c] = Nil]
        /\ k.sibling = [[h.sibling EXCEPT ![s] = Nil] EXCEPT ![c] = Nil]
    BY <1>3, <1>8 DEF Detach, Heaps
  <2>3. /\ k.parent = [n \in Node |-> IF n = c \/ n = s THEN Nil ELSE h.parent[n]]
        /\ k.sibling = [n \in Node |-> IF n = c \/ n = s THEN Nil ELSE h.sibling[n]]
    BY <2>2, <1>4 DEF Pointers
  <2>4. k.parent \in Pointers /\ k.sibling \in Pointers
    BY <2>3, <1>4 DEF Pointers
  <2>5. k \in Heaps
    BY ZenonT(60), <1>3, <1>8, <1>9, <2>2, <2>4 DEF Detach, Heaps
  <2> QED BY <2>1, <2>3, <2>5
<1>11. DoDelete(h, a) = done
  BY <1>6 DEF DoDelete, done
<1> QED BY <1>2, <1>3, <1>6, <1>8, <1>9, <1>10, <1>11 DEF done, a

(* The pointers of a cut fit the nodes it does not touch. *)
LEMMA CutParentKept ==
  ASSUME NEW h, NEW f, NEW c, NEW p, NEW s, Edge(h, f, c, p, s),
         NEW g, g = CutEdge(f, c, p), NEW k, NEW n \in DOMAIN f \ {p},
         n # c, n # s, h.sibling[n] # p,
         k.parent[n] = h.parent[n], k.sibling[n] = h.sibling[n]
  PROVE  ParentFits(k, g, n)
<1>1. Stores(h, f) /\ Distinct(f) /\ Laminar(f)
  BY StoredForest DEF Edge
<1>2. c \in DOMAIN f /\ p \in DOMAIN f /\ IsParent(f, p, c) /\ s \in DOMAIN f /\ AreChildren(f, c, s, p)
  BY EdgeFacts
<1>3. DOMAIN g = DOMAIN f \ {p}
  BY DEF CutEdge
<1>4. CASE IsRoot(f, n)
  <2>1. h.parent[n] = Nil /\ h.sibling[n] = Nil
    BY <1>1, <1>4, StoredParent
  <2>2. n \in Roots(g)
    BY <1>1, <1>2, <1>4, CutKeepsRoots DEF Roots
  <2> QED BY <2>1, <2>2 DEF ParentFits, Roots
<1>5. CASE ~IsRoot(f, n)
  <2> DEFINE q == h.parent[n]
             b == h.sibling[n]
  <2>1. q \in DOMAIN f /\ b \in DOMAIN f /\ AreChildren(f, n, b, q)
    BY <1>1, <1>5, StoredParent
  <2>2. q # p
    BY <2>1, <1>1, <1>2, ChildrenUnique
  <2>3. AreChildren(g, n, b, q)
    BY <2>1, <2>2, <1>1, <1>2, CutKeepsChildren
  <2>4. Distinct(g) /\ Laminar(g)
    BY <1>1, <1>2, CutDistinct, CutLaminar
  <2>5. IsParent(g, q, n) /\ ~IsRoot(g, n)
    BY <2>1, <2>2, <2>3, <2>4, <1>3, ChildrenHaveParent DEF AreChildren, IsRoot
  <2> QED BY <2>1, <2>2, <2>3, <2>5, <1>3 DEF ParentFits
<1> QED BY <1>4, <1>5

LEMMA CutTerminals ==
  ASSUME NEW h, NEW f, NEW c, NEW p, NEW s, Edge(h, f, c, p, s),
         NEW g, g = CutEdge(f, c, p), NEW n \in DOMAIN f \ {p}
  PROVE  IsTerminal(g, n) <=> IsTerminal(f, n)
<1>1. /\ Stores(h, f) /\ Distinct(f) /\ Laminar(f) /\ DOMAIN g = DOMAIN f \ {p}
      /\ c \in DOMAIN f /\ p \in DOMAIN f /\ IsParent(f, p, c)
  BY StoredForest, EdgeFacts DEF Edge, CutEdge
<1>2. IsTerminal(f, n) => IsTerminal(g, n)
  BY <1>1, CutKeepsApart DEF IsTerminal
<1>3. ASSUME ~IsTerminal(f, n)
      PROVE  ~IsTerminal(g, n)
  <2> DEFINE a == h.left[n]
             b == h.right[n]
  <2>1. a \in DOMAIN f /\ b \in DOMAIN f /\ AreChildren(f, a, b, n)
    BY <1>1, <1>3, StoredChildren
  <2>2. CASE a # p /\ b # p
    <3>1. AreChildren(g, a, b, n)
      BY <2>1, <2>2, <1>1, CutKeepsChildren
    <3> QED BY <3>1, <2>1, <2>2, <1>1 DEF AreChildren, IsTerminal
  <2>3. ASSUME NEW x \in DOMAIN f, AreChildren(f, p, x, n)
        PROVE  ~IsTerminal(g, n)
    <3>1. s \in DOMAIN f /\ s # p /\ AreChildren(f, c, s, p)
      BY EdgeFacts
    <3>2. AreChildren(g, s, x, n)
      BY <3>1, <2>3, <1>1, CutLiftsSibling
    <3> QED BY <3>1, <3>2, <1>1 DEF AreChildren, IsTerminal
  <2>4. AreChildren(f, b, a, n)
    BY <2>1, ChildrenSwap
  <2> QED BY <2>1, <2>2, <2>3, <2>4
<1> QED BY <1>2, <1>3

(* The label maps fit as before. *)
LEMMA CutLabels ==
  ASSUME NEW h, NEW f, NEW c, NEW p, NEW s, Edge(h, f, c, p, s),
         NEW g, g = CutEdge(f, c, p), NEW k,
         k.labelToTerminal = h.labelToTerminal, k.terminalToLabel = h.terminalToLabel
  PROVE  LabelsFit(k, g) /\ \A n \in Terminals(f) : n # p /\ g[n] = f[n]
<1>1. /\ LabelsFit(h, f) /\ DOMAIN g = DOMAIN f \ {p}
      /\ \A n \in DOMAIN f \ {p} : g[n] = IF Below(f, c, n) THEN f[n] \ f[c] ELSE f[n]
  BY StoredForest DEF Edge, CutEdge
<1>2. c \in DOMAIN f /\ Below(f, c, p)
  BY EdgeFacts DEF AreChildren
<1>3. \A n \in Terminals(f) : n \in DOMAIN f /\ n # p /\ ~Below(f, c, n)
  BY <1>2 DEF Terminals, IsTerminal
<1>4. Terminals(g) = Terminals(f)
  BY <1>1, <1>3, CutTerminals DEF Terminals
<1>5. \A n \in Terminals(f) : g[n] = f[n]
  BY <1>1, <1>3
<1> QED BY <1>1, <1>3, <1>4, <1>5 DEF LabelsFit

LEMMA RootCutStores ==
  ASSUME NEW h, NEW f, NEW c, NEW p, NEW s, Edge(h, f, c, p, s), p \in Roots(f)
  PROVE  Stores(DoDelete(h, EdgeAbove(h, c)).heap, CutEdge(f, c, p))
<1> DEFINE k == DoDelete(h, EdgeAbove(h, c)).heap
           g == CutEdge(f, c, p)
<1>1. /\ k \in Heaps /\ k.terms = h.terms /\ k.left = h.left /\ k.right = h.right
      /\ k.labelToTerminal = h.labelToTerminal /\ k.terminalToLabel = h.terminalToLabel
      /\ \A n \in Node : /\ k.parent[n] = IF n = c \/ n = s THEN Nil ELSE h.parent[n]
                         /\ k.sibling[n] = IF n = c \/ n = s THEN Nil ELSE h.sibling[n]
      /\ Range(k.roots) = (Roots(f) \ {p}) \union {c, s}
      /\ Ascending(k.terms, k.roots)
  BY RootFields
<1> HIDE DEF k
<1>2. /\ c \in DOMAIN f /\ p \in DOMAIN f /\ s \in DOMAIN f /\ c \in Node /\ p \in Node /\ s \in Node
      /\ c # p /\ s # p /\ c # s /\ IsParent(f, p, c) /\ h.parent[s] = p
      /\ AreChildren(f, c, s, p) /\ h.sibling[c] = s /\ h.sibling[s] = c
  BY EdgeFacts
<1>3. /\ Stores(h, f) /\ Distinct(f) /\ Laminar(f) /\ WellFormed(f, Label)
      /\ DOMAIN f \subseteq Node /\ h \in Heaps /\ NoCycle(h) /\ Nil \notin Node
      /\ f = [n \in DOMAIN f |-> h.terms[n]]
  BY StoredForest DEF Edge
<1>4. DOMAIN g = DOMAIN f \ {p}
  BY DEF CutEdge
<1>5. \A n \in DOMAIN f \ {p} : g[n] = f[n]
  <2>1. \A n \in DOMAIN f : Below(f, c, n) => n = p
    BY <1>2, <1>3 DEF IsParent, Roots, IsRoot, Below
  <2> QED BY <2>1 DEF CutEdge
<1>6. g = [n \in DOMAIN g |-> k.terms[n]]
  <2>1. \A n \in DOMAIN f \ {p} : g[n] = k.terms[n]
    BY <1>1, <1>3, <1>5
  <2> QED BY <2>1, <1>4 DEF CutEdge
<1>7. WellFormed(g, Label)
  BY <1>2, <1>3, CutWellFormed
<1>8. NoCycle(k)
  <2>1. h.parent \in Pointers
    BY <1>3, HeapFields
  <2> QED BY <1>1, <1>2, <1>3, <2>1, NoCycleLifted
<1>9. c \in Roots(g) /\ s \in Roots(g)
  BY <1>2, <1>3, CutMakesRoot, CutFreesSibling
<1>10. ASSUME NEW n \in DOMAIN g
       PROVE  ParentFits(k, g, n)
  <2>1. CASE n = c \/ n = s
    BY <2>1, <1>1, <1>2, <1>9 DEF ParentFits, Roots
  <2>2. CASE n # c /\ n # s
    <3>1. h.sibling[n] # p
      <4>1. h.parent[n] # Nil => h.sibling[n] \in DOMAIN f /\ h.parent[n] \in DOMAIN f
                                  /\ AreChildren(f, n, h.sibling[n], h.parent[n])
        BY <1>3, <1>4, StoredParent
      <4>2. h.parent[n] = Nil => h.sibling[n] = Nil
        BY <1>3, <1>4, StoredParent
      <4> QED BY <4>1, <4>2, <1>2, <1>3 DEF Roots, IsRoot, AreChildren
    <3> QED BY <2>2, <3>1, <1>1, <1>3, <1>4, CutParentKept
  <2> QED BY <2>1, <2>2
<1>11. ASSUME NEW n \in DOMAIN g
       PROVE  ChildrenFit(k, g, n)
  <2>1. CASE IsTerminal(g, n)
    <3>1. h.left[n] = Nil /\ h.right[n] = Nil
      BY <2>1, <1>3, <1>4, CutTerminals, StoredChildren
    <3> QED BY <2>1, <3>1, <1>1 DEF ChildrenFit
  <2>2. CASE ~IsTerminal(g, n)
    <3> DEFINE a == h.left[n]
               b == h.right[n]
    <3>1. /\ a \in DOMAIN f /\ b \in DOMAIN f /\ AreChildren(f, a, b, n)
          /\ Smallest(f[a]) < Smallest(f[b])
      BY <2>2, <1>3, <1>4, CutTerminals, StoredChildren
    <3>2. a # p /\ b # p
      BY <3>1, <1>4 DEF Roots, IsRoot, AreChildren
    <3>3. AreChildren(g, a, b, n)
      BY <3>1, <3>2, <1>2, <1>3, <1>4, CutKeepsChildren
    <3> QED BY <2>2, <3>1, <3>2, <3>3, <1>1, <1>4, <1>5 DEF ChildrenFit
  <2> QED BY <2>1, <2>2
<1>12. Roots(g) = (Roots(f) \ {p}) \union {c, s}
  <2>1. \A n \in Roots(f) : n # p => n \in Roots(g)
    BY <1>2, <1>3, CutKeepsRoots
  <2>2. \A n \in Roots(g) : n # c /\ n \notin Roots(f) => n = s
    BY <1>2, <1>3, CutMakesNoOther
  <2>3. p \notin Roots(g)
    BY <1>4 DEF Roots
  <2> QED BY <2>1, <2>2, <2>3, <1>9
<1>13. RootsFit(k, g)
  BY <1>1, <1>12 DEF RootsFit, Ascending
<1>14. LabelsFit(k, g)
  BY <1>1, CutLabels
<1> QED BY <1>1, <1>3, <1>4, <1>6, <1>7, <1>8, <1>10, <1>11, <1>13, <1>14 DEF Stores, k

(* The undo gives the heap of before. *)
LEMMA RootCutUndone ==
  ASSUME NEW h, NEW f, NEW c, NEW p, NEW s, Edge(h, f, c, p, s), p \in Roots(f),
         NEW b, b.child = c, b.sibling = s, b.parent = p,
         b.leftIndex = DoDelete(h, EdgeAbove(h, c)).left,
         b.rightIndex = DoDelete(h, EdgeAbove(h, c)).right
  PROVE  UndoParentIsRoot(DoDelete(h, EdgeAbove(h, c)).heap, b) = h
<1> DEFINE k == DoDelete(h, EdgeAbove(h, c)).heap
           u == UndoParentIsRoot(k, b)
<1>1. /\ k \in Heaps /\ k.terms = h.terms /\ k.left = h.left /\ k.right = h.right
      /\ k.labelToTerminal = h.labelToTerminal /\ k.terminalToLabel = h.terminalToLabel
      /\ \A n \in Node : /\ k.parent[n] = IF n = c \/ n = s THEN Nil ELSE h.parent[n]
                         /\ k.sibling[n] = IF n = c \/ n = s THEN Nil ELSE h.sibling[n]
      /\ RemoveAt(ReplaceAt(k.roots, b.leftIndex, p), b.rightIndex) = h.roots
  BY RootFields
<1> HIDE DEF k
<1>2. /\ c \in Node /\ p \in Node /\ s \in Node /\ c # s
      /\ h.parent[c] = p /\ h.parent[s] = p /\ h.sibling[c] = s /\ h.sibling[s] = c
  BY EdgeFacts
<1>3. h \in Heaps
  BY StoredForest DEF Edge
<1>4. /\ h.parent \in Pointers /\ h.sibling \in Pointers
      /\ k.parent \in Pointers /\ k.sibling \in Pointers
  BY <1>1, <1>3, HeapFields
<1>5. /\ u.terms = h.terms /\ u.left = h.left /\ u.right = h.right /\ u.roots = h.roots
      /\ u.labelToTerminal = h.labelToTerminal /\ u.terminalToLabel = h.terminalToLabel
      /\ u.parent = [[k.parent EXCEPT ![s] = p] EXCEPT ![c] = p]
      /\ u.sibling = [[k.sibling EXCEPT ![s] = c] EXCEPT ![c] = s]
  BY <1>1 DEF UndoParentIsRoot, Heaps
<1>6. \A n \in Node : u.parent[n] = h.parent[n] /\ u.sibling[n] = h.sibling[n]
  BY <1>1, <1>2, <1>4, <1>5 DEF Pointers
<1>7. u.parent = h.parent /\ u.sibling = h.sibling
  BY <1>4, <1>5, <1>6 DEF Pointers
<1>8. u \in Heaps
  <2>1. u = [k EXCEPT !.sibling = u.sibling, !.parent = u.parent, !.roots = u.roots]
    BY ZenonT(60), <1>1 DEF UndoParentIsRoot, Heaps
  <2>2. h.roots \in Seq(Node)
    BY <1>3, HeapFields
  <2> HIDE DEF u
  <2> QED BY <2>1, <2>2, <1>1, <1>4, <1>5, <1>7 DEF Heaps
<1> HIDE DEF u
<1>9. u = h
  BY <1>3, <1>5, <1>7, <1>8, HeapsEqual
<1> QED BY <1>9 DEF u, k

-----------------------------------------------------------------------------
(* The cut below an inner node: the pieces of DeleteEdgeAction's other case. *)

LEMMA RelinkFields ==
  ASSUME NEW h \in Heaps, NEW g \in Node, NEW x \in Node, NEW y \in Node
  PROVE  LET k == Relink(h, g, x, y)
         IN  /\ k \in Heaps
             /\ k.parent = h.parent /\ k.sibling = h.sibling /\ k.terms = h.terms
             /\ k.roots = h.roots /\ k.labelToTerminal = h.labelToTerminal
             /\ k.terminalToLabel = h.terminalToLabel
<1>1. CASE h.left[g] = x
  BY <1>1 DEF Relink, Heaps, Pointers
<1>2. CASE h.left[g] # x
  BY <1>2 DEF Relink, Heaps, Pointers
<1> QED BY <1>1, <1>2

LEMMA RelinkChildren ==
  ASSUME NEW h \in Heaps, NEW g \in Node, NEW x \in Node, NEW y \in Node, NEW m \in Node
  PROVE  LET k == Relink(h, g, x, y)
         IN  /\ k.left[m] = IF m = g /\ h.left[g] = x THEN y ELSE h.left[m]
             /\ k.right[m] = IF m = g /\ h.left[g] # x THEN y ELSE h.right[m]
<1>1. CASE h.left[g] = x
  BY <1>1 DEF Relink, Heaps, Pointers
<1>2. CASE h.left[g] # x
  BY <1>2 DEF Relink, Heaps, Pointers
<1> QED BY <1>1, <1>2

LEMMA LiftedFields ==
  ASSUME NEW h \in Heaps, NEW p \in Node, NEW s \in Node,
         NEW g \in Node, NEW q \in Node, h.parent[p] = g, h.sibling[p] = q
  PROVE  LET k == Lifted(h, p, s)
             r == Relink(h, g, p, s)
         IN  /\ k \in Heaps
             /\ k.parent = [h.parent EXCEPT ![s] = g]
             /\ k.sibling = [[h.sibling EXCEPT ![s] = q] EXCEPT ![q] = s]
             /\ k.left = r.left /\ k.right = r.right /\ k.terms = h.terms
             /\ k.roots = h.roots /\ k.labelToTerminal = h.labelToTerminal
             /\ k.terminalToLabel = h.terminalToLabel
<1> DEFINE r == Relink(h, g, p, s)
           k == Lifted(h, p, s)
           P == [h.parent EXCEPT ![s] = g]
           S == [[h.sibling EXCEPT ![s] = q] EXCEPT ![q] = s]
<1>1. /\ r \in Heaps /\ r.parent = h.parent /\ r.sibling = h.sibling /\ r.terms = h.terms
      /\ r.roots = h.roots /\ r.labelToTerminal = h.labelToTerminal
      /\ r.terminalToLabel = h.terminalToLabel
  <2> HIDE DEF r
  <2>2. r = Relink(h, g, p, s)
    BY DEF r
  <2>3. Relink(h, g, p, s) \in Heaps
    BY RelinkFields
  <2>4. Relink(h, g, p, s).parent = h.parent
    BY RelinkFields
  <2>5. Relink(h, g, p, s).sibling = h.sibling
    BY RelinkFields
  <2>6. Relink(h, g, p, s).terms = h.terms
    BY RelinkFields
  <2>7. Relink(h, g, p, s).roots = h.roots
    BY RelinkFields
  <2>8. Relink(h, g, p, s).labelToTerminal = h.labelToTerminal
    BY RelinkFields
  <2>9. Relink(h, g, p, s).terminalToLabel = h.terminalToLabel
    BY RelinkFields
  <2> QED BY <2>2, <2>3, <2>4, <2>5, <2>6, <2>7, <2>8, <2>9
<1>2. k = [r EXCEPT !.parent[s] = g, !.sibling[s] = q, !.sibling[q] = s]
  BY DEF Lifted
<1> HIDE DEF r
<1>3. P \in Pointers /\ S \in Pointers
  BY DEF Heaps, Pointers
<1>4. k = [r EXCEPT !.parent = P, !.sibling = S]
  BY ZenonT(60), <1>1, <1>2 DEF Heaps
<1> HIDE DEF k, P, S
<1>5. /\ k \in Heaps /\ k.parent = P /\ k.sibling = S
      /\ k.left = r.left /\ k.right = r.right /\ k.terms = r.terms
      /\ k.roots = r.roots /\ k.labelToTerminal = r.labelToTerminal
      /\ k.terminalToLabel = r.terminalToLabel
  BY <1>1, <1>3, <1>4 DEF Heaps
<1> QED BY <1>1, <1>5 DEF r, k, P, S

(* What Lowered makes of h, when g and q are the parent and the sibling of p. *)
LoweredHeap(h, c, p, s, g, q, k) ==
  LET r == Relink(h, g, s, p)
  IN  /\ k \in Heaps
      /\ k.parent = [[h.parent EXCEPT ![s] = p] EXCEPT ![c] = p]
      /\ k.sibling = [[[h.sibling EXCEPT ![s] = c] EXCEPT ![c] = s] EXCEPT ![q] = p]
      /\ k.left = r.left /\ k.right = r.right /\ k.terms = h.terms
      /\ k.roots = h.roots /\ k.labelToTerminal = h.labelToTerminal
      /\ k.terminalToLabel = h.terminalToLabel

LEMMA LoweredFields ==
  ASSUME NEW h \in Heaps, NEW c \in Node, NEW p \in Node, NEW s \in Node,
         NEW g \in Node, NEW q \in Node, h.parent[p] = g, h.sibling[p] = q
  PROVE  LoweredHeap(h, c, p, s, g, q, Lowered(h, c, p, s))
<1> DEFINE r == Relink(h, g, s, p)
           k == Lowered(h, c, p, s)
           P == [[h.parent EXCEPT ![s] = p] EXCEPT ![c] = p]
           S == [[[h.sibling EXCEPT ![s] = c] EXCEPT ![c] = s]
                               EXCEPT ![q] = p]
<1>1. /\ r \in Heaps /\ r.parent = h.parent /\ r.sibling = h.sibling /\ r.terms = h.terms
      /\ r.roots = h.roots /\ r.labelToTerminal = h.labelToTerminal
      /\ r.terminalToLabel = h.terminalToLabel
  <2> HIDE DEF r
  <2>2. r = Relink(h, g, s, p)
    BY DEF r
  <2>3. Relink(h, g, s, p) \in Heaps
    BY RelinkFields
  <2>4. Relink(h, g, s, p).parent = h.parent
    BY RelinkFields
  <2>5. Relink(h, g, s, p).sibling = h.sibling
    BY RelinkFields
  <2>6. Relink(h, g, s, p).terms = h.terms
    BY RelinkFields
  <2>7. Relink(h, g, s, p).roots = h.roots
    BY RelinkFields
  <2>8. Relink(h, g, s, p).labelToTerminal = h.labelToTerminal
    BY RelinkFields
  <2>9. Relink(h, g, s, p).terminalToLabel = h.terminalToLabel
    BY RelinkFields
  <2> QED BY <2>2, <2>3, <2>4, <2>5, <2>6, <2>7, <2>8, <2>9
<1>2. k = [r EXCEPT !.parent[s] = p, !.sibling[s] = c, !.parent[c] = p, !.sibling[c] = s,
                      !.sibling[q] = p]
  BY DEF Lowered
<1> HIDE DEF r
<1>3. P \in Pointers /\ S \in Pointers
  BY DEF Heaps, Pointers
<1>4. k = [r EXCEPT !.parent = P, !.sibling = S]
  BY ZenonT(60), <1>1, <1>2 DEF Heaps
<1> HIDE DEF k, P, S
<1>5. /\ k \in Heaps /\ k.parent = P /\ k.sibling = S
      /\ k.left = r.left /\ k.right = r.right /\ k.terms = r.terms
      /\ k.roots = r.roots /\ k.labelToTerminal = r.labelToTerminal
      /\ k.terminalToLabel = r.terminalToLabel
  BY <1>1, <1>3, <1>4 DEF Heaps
<1>6. LoweredHeap(h, c, p, s, g, q, k)
  BY <1>1, <1>5 DEF LoweredHeap, r, P, S
<1> QED BY <1>6 DEF k

LEMMA LabelFields ==
  ASSUME NEW h \in Heaps, NEW path, NEW T \in SUBSET Label,
         NEW k, k = LessLabels(h, path, T) \/ k = MoreLabels(h, path, T)
  PROVE  /\ k \in Heaps
         /\ k.parent = h.parent /\ k.sibling = h.sibling /\ k.left = h.left /\ k.right = h.right
         /\ k.roots = h.roots /\ k.labelToTerminal = h.labelToTerminal
         /\ k.terminalToLabel = h.terminalToLabel
BY DEF LessLabels, MoreLabels, Heaps

(* "sort children" *)
LEMMA SortFields ==
  ASSUME NEW h \in Heaps, NEW P
  PROVE  LET k == SortChildren(h, P)
         IN  /\ k \in Heaps
             /\ k.parent = h.parent /\ k.sibling = h.sibling /\ k.terms = h.terms
             /\ k.roots = h.roots /\ k.labelToTerminal = h.labelToTerminal
             /\ k.terminalToLabel = h.terminalToLabel
             /\ \A m \in Node : m \notin P => k.left[m] = h.left[m] /\ k.right[m] = h.right[m]
<1> DEFINE S == {m \in P : HasSmallestTerminal(h.terms[h.right[m]], h.terms[h.left[m]])}
<1>1. SortChildren(h, P) = SwapChildren(h, S)
  BY DEF SortChildren
<1>2. \A m \in S : m \in P
  OBVIOUS
<1> DEFINE L == [m \in Node |-> IF m \in S THEN h.right[m] ELSE h.left[m]]
           R == [m \in Node |-> IF m \in S THEN h.left[m] ELSE h.right[m]]
           k == SortChildren(h, P)
<1> HIDE DEF S
<1>3. L \in Pointers /\ R \in Pointers
  BY DEF Heaps, Pointers
<1>4. k = [h EXCEPT !.left = L, !.right = R]
  BY <1>1 DEF SwapChildren, Heaps
<1>5. \A m \in Node : m \notin P => L[m] = h.left[m] /\ R[m] = h.right[m]
  BY <1>2
<1> HIDE DEF L, R, k
<1> QED BY <1>3, <1>4, <1>5 DEF Heaps, k

LEMMA SortPair ==
  ASSUME NEW h \in Heaps, NEW P, NEW m \in P, m \in Node,
         h.left[m] \in Node, h.right[m] \in Node,
         h.terms[h.left[m]] # {}, h.terms[h.right[m]] # {},
         h.terms[h.left[m]] \intersect h.terms[h.right[m]] = {}
  PROVE  LET k == SortChildren(h, P)
         IN  /\ \/ k.left[m] = h.left[m] /\ k.right[m] = h.right[m]
                \/ k.left[m] = h.right[m] /\ k.right[m] = h.left[m]
             /\ Smallest(h.terms[k.left[m]]) < Smallest(h.terms[k.right[m]])
<1> DEFINE S == {x \in P : HasSmallestTerminal(h.terms[h.right[x]], h.terms[h.left[x]])}
           A == h.terms[h.left[m]]
           B == h.terms[h.right[m]]
           k == SortChildren(h, P)
<1>1. k = SwapChildren(h, S)
  BY DEF SortChildren
<1>2. A \in SUBSET Label /\ B \in SUBSET Label /\ A \subseteq Nat /\ B \subseteq Nat
  BY HeapAssumption DEF Heaps
<1>3. m \in S <=> Smallest(B) < Smallest(A)
  BY <1>2, ComparesSmallest
<1>4. Smallest(A) \in A /\ Smallest(B) \in B /\ Smallest(A) \in Nat /\ Smallest(B) \in Nat
  BY <1>2, SmallestIsLeast
<1>5. Smallest(A) # Smallest(B)
  BY <1>4
<1> HIDE DEF S
<1>6. /\ k.left[m] = IF m \in S THEN h.right[m] ELSE h.left[m]
      /\ k.right[m] = IF m \in S THEN h.left[m] ELSE h.right[m]
  BY <1>1 DEF SwapChildren, Heaps, Pointers
<1> HIDE DEF k
<1>7. CASE m \in S
  BY <1>3, <1>6, <1>7 DEF k
<1>8. CASE m \notin S
  <2>1. Smallest(A) < Smallest(B)
    BY <1>3, <1>4, <1>5, <1>8
  <2> QED BY <2>1, <1>6, <1>8 DEF k
<1> QED BY <1>7, <1>8

(* The edge between c and its parent p, when p has a parent g and a sibling q. *)
InnerEdge(h, f, c, p, s, g, q) ==
  Edge(h, f, c, p, s) /\ p \notin Roots(f) /\ g = h.parent[p] /\ q = h.sibling[p]

(* The nodes from p up to its root. *)
Above(f, p) == {m \in DOMAIN f : f[p] \subseteq f[m]}

LEMMA InnerFacts ==
  ASSUME NEW h, NEW f, NEW c, NEW p, NEW s, NEW g, NEW q, InnerEdge(h, f, c, p, s, g, q)
  PROVE  /\ g \in DOMAIN f /\ q \in DOMAIN f /\ g \in Node /\ q \in Node
         /\ h.parent[p] = g /\ h.sibling[p] = q /\ h.parent[q] = g /\ h.sibling[q] = p
         /\ q # p /\ q # g /\ p # g /\ c # g /\ s # g /\ c # q /\ s # q
         /\ AreChildren(f, p, q, g) /\ AreChildren(f, q, p, g) /\ IsParent(f, g, p)
         /\ \/ h.left[g] = p /\ h.right[g] = q
            \/ h.left[g] = q /\ h.right[g] = p
         /\ \A n \in DOMAIN f : h.sibling[n] = p => n = q
<1>1. Edge(h, f, c, p, s) /\ p \notin Roots(f) /\ g = h.parent[p] /\ q = h.sibling[p]
  BY DEF InnerEdge
<1>2. /\ Stores(h, f) /\ Distinct(f) /\ Laminar(f) /\ Nil \notin Node
  BY <1>1, StoredForest DEF Edge
<1>3. c \in DOMAIN f /\ p \in DOMAIN f /\ s \in DOMAIN f /\ AreChildren(f, c, s, p)
      /\ IsParent(f, p, c) /\ IsParent(f, p, s)
  BY <1>1, EdgeFacts
<1>4. /\ h.parent[p] # Nil /\ g \in DOMAIN f /\ q \in DOMAIN f
      /\ IsParent(f, g, p) /\ q # p /\ AreChildren(f, p, q, g)
      /\ h.sibling[q] = p /\ h.parent[q] = g
  BY <1>1, <1>2, <1>3, StoredParent DEF Roots
<1>5. AreChildren(f, q, p, g) /\ ~IsTerminal(f, g)
  BY <1>3, <1>4, ChildrenSwap DEF AreChildren, IsTerminal
<1>6. q # g /\ p # g
  BY <1>4 DEF AreChildren, Below
<1>7. c # g /\ s # g /\ c # q /\ s # q
  <2>1. f[c] \subseteq f[p] /\ f[s] \subseteq f[p] /\ f[p] \subseteq f[g] /\ f[p] # f[g]
        /\ f[p] \intersect f[q] = {} /\ f[q] # {}
    BY <1>2, <1>3, <1>4, <1>6 DEF AreChildren, Below, Distinct
  <2> QED BY <2>1
<1>8. /\ h.left[g] \in DOMAIN f /\ h.right[g] \in DOMAIN f
      /\ AreChildren(f, h.left[g], h.right[g], g)
  BY <1>2, <1>4, <1>5, StoredChildren
<1>9. \/ h.left[g] = p /\ h.right[g] = q
      \/ h.left[g] = q /\ h.right[g] = p
  BY <1>2, <1>3, <1>4, <1>8, ChildrenUnique
<1>10. ASSUME NEW n \in DOMAIN f, h.sibling[n] = p
       PROVE  n = q
  <2>1. p # Nil
    BY <1>2, <1>3, StoredNode
  <2>2. h.parent[n] # Nil
    BY <1>2, <1>10, <2>1, StoredParent
  <2>3. h.sibling[h.sibling[n]] = n
    BY <1>2, <2>2, StoredParent
  <2> QED BY <2>3, <1>1, <1>10
<1>11. g \in Node /\ q \in Node
  BY <1>2, <1>4, StoredNode
<1> QED BY <1>1, <1>4, <1>5, <1>6, <1>7, <1>9, <1>10, <1>11

LEMMA AboveFacts ==
  ASSUME NEW h, NEW f, NEW c, NEW p, NEW s, NEW g, NEW q, InnerEdge(h, f, c, p, s, g, q)
  PROVE  /\ Above(f, p) \in SUBSET Node /\ Above(f, p) \subseteq DOMAIN f
         /\ p \in Above(f, p) /\ g \in Above(f, p)
         /\ q \notin Above(f, p) /\ c \notin Above(f, p) /\ s \notin Above(f, p)
         /\ \A m \in Above(f, p) : h.parent[m] # Nil => h.parent[m] \in Above(f, p)
         /\ \A m \in DOMAIN f : Below(f, c, m) <=> m \in Above(f, p)
         /\ \A m \in Above(f, p) : f[c] \subseteq f[m] /\ f[s] \subseteq f[m]
<1>1. Edge(h, f, c, p, s) /\ Stores(h, f) /\ Distinct(f) /\ Laminar(f) /\ DOMAIN f \subseteq Node
  BY StoredForest DEF InnerEdge, Edge
<1>2. /\ c \in DOMAIN f /\ p \in DOMAIN f /\ s \in DOMAIN f /\ AreChildren(f, c, s, p)
      /\ IsParent(f, p, c) /\ f[c] \intersect f[s] = {} /\ f[c] \union f[s] = f[p]
  BY <1>1, EdgeFacts
<1>3. /\ g \in DOMAIN f /\ q \in DOMAIN f /\ AreChildren(f, p, q, g) /\ q # p
  BY InnerFacts
<1>4. f[c] # {} /\ f[s] # {} /\ f[p] # {}
  BY <1>1, <1>2 DEF Distinct
<1>5. f[p] \intersect f[q] = {} /\ f[p] \subseteq f[g]
  BY <1>3 DEF AreChildren
<1>6. Above(f, p) \in SUBSET Node /\ Above(f, p) \subseteq DOMAIN f
      /\ p \in Above(f, p) /\ g \in Above(f, p)
  BY <1>1, <1>2, <1>3, <1>5 DEF Above
<1>7. q \notin Above(f, p) /\ c \notin Above(f, p) /\ s \notin Above(f, p)
  BY <1>2, <1>4, <1>5 DEF Above
<1>8. ASSUME NEW m \in Above(f, p), h.parent[m] # Nil
      PROVE  h.parent[m] \in Above(f, p)
  <2>1. h.parent[m] \in DOMAIN f /\ IsParent(f, h.parent[m], m)
    BY <1>1, <1>6, <1>8, StoredParent
  <2> QED BY <2>1 DEF Above, IsParent, Below
<1>9. \A m \in DOMAIN f : Below(f, c, m) <=> m \in Above(f, p)
  BY <1>1, <1>2, CutAbove DEF Above
<1>10. \A m \in Above(f, p) : f[c] \subseteq f[m] /\ f[s] \subseteq f[m]
  BY <1>2 DEF Above
<1> QED BY <1>6, <1>7, <1>8, <1>9, <1>10

(* Whoever walks up from p meets these nodes and ends at the root r. *)
LEMMA AbovePath ==
  ASSUME NEW h, NEW f, NEW c, NEW p, NEW s, NEW g, NEW q, InnerEdge(h, f, c, p, s, g, q),
         NEW k, k.parent \in Pointers, NoCycle(k),
         \A m \in Above(f, p) : k.parent[m] = h.parent[m]
  PROVE  /\ PathUp(k, p) = Above(f, p)
         /\ RootOfPath(k, p) \in Roots(f) /\ f[p] \subseteq f[RootOfPath(k, p)]
<1> DEFINE U == Above(f, p)
           up == [m \in U |-> PathUp(h, m)]
<1>1. Edge(h, f, c, p, s) /\ Stores(h, f) /\ h.parent \in Pointers /\ NoCycle(h)
  BY StoredForest, HeapFields DEF InnerEdge, Edge
<1>2. /\ U \in SUBSET Node /\ U \subseteq DOMAIN f /\ p \in U
      /\ \A m \in U : h.parent[m] # Nil => h.parent[m] \in U
  BY AboveFacts
<1> HIDE DEF U
<1>3. \A m \in U : k.parent[m] # Nil => k.parent[m] \in U
  BY <1>2 DEF U
<1>4. ASSUME NEW m \in U
      PROVE  up[m] = {m} \union IF k.parent[m] = Nil THEN {} ELSE up[k.parent[m]]
  <2>1. PathUp(h, m) = {m} \union IF h.parent[m] = Nil THEN {} ELSE PathUp(h, h.parent[m])
    BY <1>1, <1>2, PathUpStep
  <2>2. k.parent[m] = h.parent[m]
    BY DEF U
  <2> QED BY <2>1, <2>2, <1>2
<1>5. \A m \in U : up[m] = {m} \union IF k.parent[m] = Nil THEN {} ELSE up[k.parent[m]]
  BY <1>4
<1>6. up[p] = PathUp(h, p)
  BY <1>2
<1> HIDE DEF up
<1>7. PathUp(k, p) = up[p]
  BY SMTT(30), <1>2, <1>3, <1>5, PathUpUnique
<1>8. PathUp(h, p) = U
  BY <1>1, <1>2, PathUpIsAbove DEF U, Above
<1>9. PathUp(k, p) = U
  BY <1>6, <1>7, <1>8
<1>10. \E n \in U : k.parent[n] = Nil
  <2>1. U # {} /\ U \in SUBSET Node
    BY <1>2
  <2>2. PICK n \in U : k.parent[n] \notin U
    BY <2>1 DEF NoCycle
  <2> QED BY <2>2, <1>3
<1>11. RootOfPath(k, p) \in U /\ k.parent[RootOfPath(k, p)] = Nil
  BY <1>9, <1>10 DEF RootOfPath
<1>12. h.parent[RootOfPath(k, p)] = Nil /\ RootOfPath(k, p) \in DOMAIN f
  BY <1>2, <1>11 DEF U
<1>13. RootOfPath(k, p) \in Roots(f)
  BY <1>1, <1>12, StoredParent DEF Roots
<1> QED BY <1>9, <1>11, <1>13 DEF U, Above

(* The sibling s takes the place of p, below g and beside q. *)
LEMMA InnerLifted ==
  ASSUME NEW h, NEW f, NEW c, NEW p, NEW s, NEW g, NEW q, InnerEdge(h, f, c, p, s, g, q)
  PROVE  LET k == Lifted(h, p, s)
         IN  /\ k \in Heaps /\ NoCycle(k)
             /\ k.terms = h.terms /\ k.roots = h.roots
             /\ k.labelToTerminal = h.labelToTerminal
             /\ k.terminalToLabel = h.terminalToLabel
             /\ \A n \in Node :
                  /\ k.parent[n] = IF n = s THEN g ELSE h.parent[n]
                  /\ k.sibling[n] = IF n = s THEN q ELSE IF n = q THEN s ELSE h.sibling[n]
                  /\ n # g => k.left[n] = h.left[n] /\ k.right[n] = h.right[n]
             /\ k.left[g] = IF h.left[g] = p THEN s ELSE h.left[g]
             /\ k.right[g] = IF h.right[g] = p THEN s ELSE h.right[g]
<1> DEFINE k == Lifted(h, p, s)
           r == Relink(h, g, p, s)
<1>1. Edge(h, f, c, p, s) /\ h \in Heaps /\ NoCycle(h) /\ Nil \notin Node
  BY StoredForest DEF InnerEdge, Edge
<1>2. h.parent \in Pointers /\ h.sibling \in Pointers
  BY <1>1, HeapFields
<1>3. /\ p \in Node /\ s \in Node /\ s # p /\ h.parent[s] = p
  BY <1>1, EdgeFacts
<1>4. /\ g \in Node /\ q \in Node /\ h.parent[p] = g /\ h.sibling[p] = q /\ q # p
      /\ s # q
      /\ \/ h.left[g] = p /\ h.right[g] = q
         \/ h.left[g] = q /\ h.right[g] = p
  BY InnerFacts
<1>5. /\ k \in Heaps
      /\ k.parent = [h.parent EXCEPT ![s] = g]
      /\ k.sibling = [[h.sibling EXCEPT ![s] = q] EXCEPT ![q] = s]
      /\ k.left = r.left /\ k.right = r.right /\ k.terms = h.terms
      /\ k.roots = h.roots /\ k.labelToTerminal = h.labelToTerminal
      /\ k.terminalToLabel = h.terminalToLabel
  <2>1. p \in Node /\ s \in Node /\ h \in Heaps
    BY <1>1, <1>3
  <2> QED BY <2>1, <1>4, LiftedFields
<1> HIDE DEF k
<1>6. \A n \in Node :
        /\ k.parent[n] = IF n = s THEN g ELSE h.parent[n]
        /\ k.sibling[n] = IF n = s THEN q ELSE IF n = q THEN s ELSE h.sibling[n]
  BY <1>2, <1>4, <1>5 DEF Pointers
<1>7. ASSUME NEW m \in Node
      PROVE  /\ r.left[m] = IF m = g /\ h.left[g] = p THEN s ELSE h.left[m]
             /\ r.right[m] = IF m = g /\ h.left[g] # p THEN s ELSE h.right[m]
  BY <1>1, <1>3, <1>4, RelinkChildren
<1> HIDE DEF r
<1>8. \A n \in Node : n # g => k.left[n] = h.left[n] /\ k.right[n] = h.right[n]
  BY <1>5, <1>7
<1>9. /\ k.left[g] = IF h.left[g] = p THEN s ELSE h.left[g]
      /\ k.right[g] = IF h.right[g] = p THEN s ELSE h.right[g]
  BY <1>4, <1>5, <1>7
<1>10. NoCycle(k)
  <2>1. \A n \in Node : \/ k.parent[n] = h.parent[n]
                        \/ k.parent[n] = Nil
                        \/ n = s /\ k.parent[n] = h.parent[p]
    BY <1>4, <1>6
  <2> QED BY <2>1, <1>1, <1>2, <1>3, NoCycleLifted
<1> QED BY <1>5, <1>6, <1>8, <1>9, <1>10 DEF k

(* The children of a node of the path once s is in the place of p. *)
InPlaceOf(p, s, x) == IF x = p THEN s ELSE x

LEMMA PathChildren ==
  ASSUME NEW h, NEW f, NEW c, NEW p, NEW s, NEW g, NEW q, InnerEdge(h, f, c, p, s, g, q),
         NEW m \in Above(f, p)
  PROVE  LET k == Lifted(h, p, s)
             x == k.left[m]
             y == k.right[m]
             after(n) == IF n \in Above(f, p) THEN f[n] \ f[c] ELSE f[n]
         IN  /\ h.left[m] \in DOMAIN f /\ h.right[m] \in DOMAIN f
             /\ AreChildren(f, h.left[m], h.right[m], m)
             /\ Smallest(f[h.left[m]]) < Smallest(f[h.right[m]])
             /\ x = InPlaceOf(p, s, h.left[m]) /\ y = InPlaceOf(p, s, h.right[m])
             /\ x \in DOMAIN f \ {p} /\ y \in DOMAIN f \ {p}
             /\ after(x) # {} /\ after(y) # {} /\ after(x) \intersect after(y) = {}
<1> DEFINE k == Lifted(h, p, s)
           a == h.left[m]
           b == h.right[m]
           after(n) == IF n \in Above(f, p) THEN f[n] \ f[c] ELSE f[n]
<1>1. Edge(h, f, c, p, s) /\ Stores(h, f) /\ Distinct(f) /\ Laminar(f)
  BY StoredForest DEF InnerEdge, Edge
<1>2. /\ c \in DOMAIN f /\ p \in DOMAIN f /\ s \in DOMAIN f /\ s # p
      /\ IsParent(f, p, c) /\ Below(f, c, p)
      /\ f[c] \intersect f[s] = {} /\ f[c] \union f[s] = f[p]
  BY <1>1, EdgeFacts DEF IsParent
<1>3. m \in DOMAIN f /\ m \in Node /\ f[c] \subseteq f[m] /\ f[s] \subseteq f[m]
      /\ Below(f, c, m)
  BY AboveFacts
<1>4. ~IsTerminal(f, m)
  BY <1>2, <1>3 DEF IsTerminal
<1>5. /\ a \in DOMAIN f /\ b \in DOMAIN f /\ AreChildren(f, a, b, m)
      /\ Smallest(f[a]) < Smallest(f[b]) /\ a # b /\ h.parent[a] = m /\ h.parent[b] = m
  BY <1>1, <1>3, <1>4, StoredChildren
<1>6. h.parent[p] = g
  BY InnerFacts
<1>7. k.left[m] = InPlaceOf(p, s, a) /\ k.right[m] = InPlaceOf(p, s, b)
  <2>1. /\ m # g => k.left[m] = h.left[m] /\ k.right[m] = h.right[m]
        /\ m = g => /\ k.left[m] = IF h.left[m] = p THEN s ELSE h.left[m]
                    /\ k.right[m] = IF h.right[m] = p THEN s ELSE h.right[m]
    BY <1>3, InnerLifted
  <2>2. m # g => a # p /\ b # p
    BY <1>5, <1>6
  <2> QED BY <2>1, <2>2 DEF InPlaceOf
<1>8. ASSUME NEW z \in DOMAIN f
      PROVE  /\ InPlaceOf(p, s, z) \in DOMAIN f \ {p}
             /\ after(InPlaceOf(p, s, z)) # {}
             /\ after(InPlaceOf(p, s, z)) \subseteq f[z]
  <2>1. f[z] # {} /\ f[s] # {} /\ s \notin Above(f, p)
    BY <1>1, <1>2, AboveFacts DEF Distinct
  <2>2. z \in Above(f, p) => f[s] \subseteq f[z]
    BY AboveFacts
  <2>3. CASE z = p
    BY <2>1, <2>3, <1>2 DEF InPlaceOf
  <2>4. CASE z # p
    BY <2>1, <2>2, <2>4, <1>2 DEF InPlaceOf
  <2> QED BY <2>3, <2>4
<1>9. f[a] \intersect f[b] = {}
  BY <1>5 DEF AreChildren
<1> HIDE DEF a, b, k
<1>10. /\ k.left[m] \in DOMAIN f \ {p} /\ k.right[m] \in DOMAIN f \ {p}
       /\ after(k.left[m]) # {} /\ after(k.right[m]) # {}
       /\ after(k.left[m]) \subseteq f[a] /\ after(k.right[m]) \subseteq f[b]
  BY <1>5, <1>7, <1>8
<1> HIDE DEF after
<1>11. after(k.left[m]) \intersect after(k.right[m]) = {}
  BY <1>9, <1>10
<1> QED BY <1>5, <1>7, <1>10, <1>11 DEF a, b, k, after

(* The heap when the labels of c are off the path and its children sorted. *)
Unlabelled(h, f, c, p, s) ==
  SortChildren(LessLabels(Lifted(h, p, s), Above(f, p), f[c]), Above(f, p))

LEMMA UnlabelledFields ==
  ASSUME NEW h, NEW f, NEW c, NEW p, NEW s, NEW g, NEW q, InnerEdge(h, f, c, p, s, g, q)
  PROVE  LET k == Unlabelled(h, f, c, p, s)
         IN  /\ k \in Heaps /\ NoCycle(k)
             /\ k.roots = h.roots /\ k.labelToTerminal = h.labelToTerminal
             /\ k.terminalToLabel = h.terminalToLabel
             /\ \A n \in Node :
                  /\ k.parent[n] = IF n = s THEN g ELSE h.parent[n]
                  /\ k.sibling[n] = IF n = s THEN q ELSE IF n = q THEN s ELSE h.sibling[n]
                  /\ k.terms[n] = IF n \in Above(f, p) THEN f[n] \ f[c] ELSE h.terms[n]
                  /\ n \notin Above(f, p) => k.left[n] = h.left[n] /\ k.right[n] = h.right[n]
<1> DEFINE h1 == Lifted(h, p, s)
           h2 == LessLabels(h1, Above(f, p), f[c])
           k == Unlabelled(h, f, c, p, s)
<1>1. Edge(h, f, c, p, s) /\ Stores(h, f) /\ c \in DOMAIN f
  BY EdgeFacts DEF InnerEdge, Edge
<1>2. f[c] \in SUBSET Label
  BY <1>1, StoredNode
<1>3. /\ Above(f, p) \subseteq DOMAIN f /\ g \in Above(f, p)
      /\ \A m \in Above(f, p) : f[c] \subseteq f[m]
  BY AboveFacts
<1>4. /\ h1 \in Heaps /\ NoCycle(h1)
      /\ h1.terms = h.terms /\ h1.roots = h.roots
      /\ h1.labelToTerminal = h.labelToTerminal
      /\ h1.terminalToLabel = h.terminalToLabel
      /\ \A n \in Node :
           /\ h1.parent[n] = IF n = s THEN g ELSE h.parent[n]
           /\ h1.sibling[n] = IF n = s THEN q ELSE IF n = q THEN s ELSE h.sibling[n]
           /\ n # g => h1.left[n] = h.left[n] /\ h1.right[n] = h.right[n]
  BY InnerLifted
<1> HIDE DEF h1
<1>5. /\ h2 \in Heaps
      /\ h2.parent = h1.parent /\ h2.sibling = h1.sibling
      /\ h2.left = h1.left /\ h2.right = h1.right
      /\ h2.roots = h1.roots /\ h2.labelToTerminal = h1.labelToTerminal
      /\ h2.terminalToLabel = h1.terminalToLabel
  BY <1>2, <1>4, LabelFields
<1>6. ASSUME NEW n \in Node
      PROVE  h2.terms[n] = IF n \in Above(f, p) THEN f[n] \ f[c] ELSE h.terms[n]
  <2> DEFINE T == f[c]
             U == Above(f, p)
             v == LessLabels(h1, U, T)
  <2> HIDE DEF T, U
  <2>3. v.terms[n] = IF n \in U THEN (h1.terms[n] \ T) \union (T \ h1.terms[n])
                     ELSE h1.terms[n]
    <3>1. h1 \in Heaps /\ T \in SUBSET Label
      BY <1>2, <1>4 DEF T
    <3> QED BY <3>1 DEF LessLabels, Heaps
  <2>1. h2.terms[n] = IF n \in Above(f, p) THEN (h1.terms[n] \ f[c]) \union (f[c] \ h1.terms[n])
                      ELSE h1.terms[n]
    BY <2>3 DEF T, U
  <2>2. n \in Above(f, p) => h1.terms[n] = f[n] /\ f[c] \ f[n] = {}
    BY <1>1, <1>3, <1>4, StoredNode
  <2> QED BY <2>1, <2>2, <1>4
<1> HIDE DEF h2
<1>7. k = SortChildren(h2, Above(f, p))
  BY DEF Unlabelled, h2, h1
<1>8. /\ k \in Heaps
      /\ k.parent = h2.parent /\ k.sibling = h2.sibling /\ k.terms = h2.terms
      /\ k.roots = h2.roots /\ k.labelToTerminal = h2.labelToTerminal
      /\ k.terminalToLabel = h2.terminalToLabel
      /\ \A m \in Node : m \notin Above(f, p) =>
           k.left[m] = h2.left[m] /\ k.right[m] = h2.right[m]
  <2> HIDE DEF k
  <2> DEFINE w == SortChildren(h2, Above(f, p))
  <2>1. /\ w \in Heaps
        /\ w.parent = h2.parent /\ w.sibling = h2.sibling /\ w.terms = h2.terms
        /\ w.roots = h2.roots /\ w.labelToTerminal = h2.labelToTerminal
        /\ w.terminalToLabel = h2.terminalToLabel
        /\ \A m \in Node : m \notin Above(f, p) =>
             w.left[m] = h2.left[m] /\ w.right[m] = h2.right[m]
    BY <1>5, SortFields
  <2>2. k = w
    BY <1>7
  <2> HIDE DEF w
  <2> QED BY <2>1, <2>2
<1> HIDE DEF k
<1>9. NoCycle(k)
  BY <1>4, <1>5, <1>8 DEF NoCycle
<1>10. ASSUME NEW n \in Node
       PROVE  /\ k.parent[n] = IF n = s THEN g ELSE h.parent[n]
              /\ k.sibling[n] = IF n = s THEN q ELSE IF n = q THEN s ELSE h.sibling[n]
  BY <1>4, <1>5, <1>8
<1>11. ASSUME NEW n \in Node
       PROVE  k.terms[n] = IF n \in Above(f, p) THEN f[n] \ f[c] ELSE h.terms[n]
  BY <1>6, <1>8
<1>12. ASSUME NEW n \in Node, n \notin Above(f, p)
       PROVE  k.left[n] = h.left[n] /\ k.right[n] = h.right[n]
  <2>1. k.left[n] = h2.left[n] /\ k.right[n] = h2.right[n]
    BY <1>8, <1>12
  <2> QED BY <2>1, <1>3, <1>4, <1>5, <1>12
<1>13. /\ k.roots = h.roots /\ k.labelToTerminal = h.labelToTerminal
       /\ k.terminalToLabel = h.terminalToLabel
  BY <1>4, <1>5, <1>8
<1> QED BY <1>8, <1>9, <1>10, <1>11, <1>12, <1>13 DEF k

LEMMA UnlabelledAt ==
  ASSUME NEW h, NEW f, NEW c, NEW p, NEW s, NEW g, NEW q, InnerEdge(h, f, c, p, s, g, q),
         NEW n \in Node
  PROVE  LET k == Unlabelled(h, f, c, p, s)
         IN  /\ k.parent[n] = IF n = s THEN g ELSE h.parent[n]
             /\ k.sibling[n] = IF n = s THEN q ELSE IF n = q THEN s ELSE h.sibling[n]
             /\ k.terms[n] = IF n \in Above(f, p) THEN f[n] \ f[c] ELSE h.terms[n]
             /\ n \notin Above(f, p) => k.left[n] = h.left[n] /\ k.right[n] = h.right[n]
<1> DEFINE w == Unlabelled(h, f, c, p, s)
<1>1. \A i \in Node :
         /\ w.parent[i] = IF i = s THEN g ELSE h.parent[i]
         /\ w.sibling[i] = IF i = s THEN q ELSE IF i = q THEN s ELSE h.sibling[i]
         /\ w.terms[i] = IF i \in Above(f, p) THEN f[i] \ f[c] ELSE h.terms[i]
         /\ i \notin Above(f, p) => w.left[i] = h.left[i] /\ w.right[i] = h.right[i]
  BY UnlabelledFields
<1> HIDE DEF w
<1> QED BY <1>1 DEF w

(* On the path, what was a child of m or took its place, the smaller label left. *)
LEMMA UnlabelledChildren ==
  ASSUME NEW h, NEW f, NEW c, NEW p, NEW s, NEW g, NEW q, InnerEdge(h, f, c, p, s, g, q),
         NEW m \in Above(f, p)
  PROVE  LET k == Unlabelled(h, f, c, p, s)
             x == InPlaceOf(p, s, h.left[m])
             y == InPlaceOf(p, s, h.right[m])
         IN  /\ \/ k.left[m] = x /\ k.right[m] = y
                \/ k.left[m] = y /\ k.right[m] = x
             /\ Smallest(k.terms[k.left[m]]) < Smallest(k.terms[k.right[m]])
<1> DEFINE h1 == Lifted(h, p, s)
           h2 == LessLabels(h1, Above(f, p), f[c])
           k == Unlabelled(h, f, c, p, s)
           x == InPlaceOf(p, s, h.left[m])
           y == InPlaceOf(p, s, h.right[m])
           after(n) == IF n \in Above(f, p) THEN f[n] \ f[c] ELSE f[n]
<1>1. Edge(h, f, c, p, s) /\ Stores(h, f) /\ c \in DOMAIN f
  BY EdgeFacts DEF InnerEdge, Edge
<1>2. f[c] \in SUBSET Label
  BY <1>1, StoredNode
<1>3. /\ h1.left[m] = x /\ h1.right[m] = y
      /\ x \in DOMAIN f \ {p} /\ y \in DOMAIN f \ {p}
      /\ after(x) # {} /\ after(y) # {} /\ after(x) \intersect after(y) = {}
  BY PathChildren
<1>4. x \in Node /\ y \in Node /\ h.terms[x] = f[x] /\ h.terms[y] = f[y] /\ m \in Node
  BY <1>1, <1>3, StoredNode DEF Above
<1> HIDE DEF x, y
<1>5. h1 \in Heaps
  BY InnerLifted
<1> HIDE DEF h1
<1>6. h2 \in Heaps /\ h2.left = h1.left /\ h2.right = h1.right
  BY <1>2, <1>5, LabelFields
<1>7. k = SortChildren(h2, Above(f, p))
  BY DEF Unlabelled, h2, h1
<1>8. k.terms = h2.terms
  BY <1>6, <1>7, SortFields
<1>9. ASSUME NEW n \in Node
      PROVE  k.terms[n] = IF n \in Above(f, p) THEN f[n] \ f[c] ELSE h.terms[n]
  BY UnlabelledAt
<1>10. h2.terms[x] = after(x) /\ h2.terms[y] = after(y)
  BY <1>4, <1>8, <1>9
<1> HIDE DEF h2, after, k
<1> DEFINE w == SortChildren(h2, Above(f, p))
<1>11. /\ \/ w.left[m] = h2.left[m] /\ w.right[m] = h2.right[m]
          \/ w.left[m] = h2.right[m] /\ w.right[m] = h2.left[m]
       /\ Smallest(h2.terms[w.left[m]]) < Smallest(h2.terms[w.right[m]])
  <2>1. /\ h2.left[m] \in Node /\ h2.right[m] \in Node
        /\ h2.terms[h2.left[m]] # {} /\ h2.terms[h2.right[m]] # {}
        /\ h2.terms[h2.left[m]] \intersect h2.terms[h2.right[m]] = {}
    BY <1>3, <1>4, <1>6, <1>10
  <2> QED BY <2>1, <1>4, <1>6, SortPair
<1> QED BY <1>3, <1>6, <1>7, <1>8, <1>11 DEF k, x, y

LEMMA ReplacedBySame ==
  ASSUME NEW S, NEW s \in Seq(S), NEW i \in 1..Len(s)
  PROVE  ReplaceAt(s, i, s[i]) = s
<1>1. s[i] \in S
  OBVIOUS
<1>2. ReplaceAt(s, i, s[i]) \in Seq(S) /\ Len(ReplaceAt(s, i, s[i])) = Len(s)
  BY <1>1, Replaced
<1>3. ASSUME NEW j \in 1..Len(s)
      PROVE  ReplaceAt(s, i, s[i])[j] = s[j]
  BY <1>1, ReplacedAt
<1> HIDE DEF ReplaceAt
<1> QED BY <1>2, <1>3

(* A root r above the cut and the child c take the place of r. *)
InnerSplits(h, f, c, p, s, r, at, first, second) ==
  /\ r \in Roots(f) /\ f[p] \subseteq f[r]
  /\ at \in 1..Len(h.roots) /\ h.roots[at] = r
  /\ \/ first = r /\ second = c
     \/ first = c /\ second = r
  /\ Smallest(Unlabelled(h, f, c, p, s).terms[first])
       < Smallest(Unlabelled(h, f, c, p, s).terms[second])

LEMMA InnerSplit ==
  ASSUME NEW h, NEW f, NEW c, NEW p, NEW s, NEW g, NEW q, InnerEdge(h, f, c, p, s, g, q),
         NEW r, NEW at, NEW first, NEW second, InnerSplits(h, f, c, p, s, r, at, first, second)
  PROVE  SplitsInto(Unlabelled(h, f, c, p, s), h.terms, h.roots, at, first, second)
<1> DEFINE k == Unlabelled(h, f, c, p, s)
<1>0. /\ r \in Roots(f) /\ f[p] \subseteq f[r]
      /\ at \in 1..Len(h.roots) /\ h.roots[at] = r
      /\ \/ first = r /\ second = c
         \/ first = c /\ second = r
      /\ Smallest(k.terms[first]) < Smallest(k.terms[second])
  BY DEF InnerSplits
<1>1. Edge(h, f, c, p, s) /\ Stores(h, f) /\ Distinct(f) /\ Laminar(f)
      /\ Range(h.roots) = Roots(f) /\ Ascending(h.terms, h.roots) /\ h \in Heaps
  BY StoredForest DEF InnerEdge, Edge
<1>2. /\ h.terms \in [Node -> SUBSET Label] /\ h.roots \in Seq(Node)
      /\ DOMAIN h.roots = 1..Len(h.roots)
  BY <1>1, HeapFields
<1>3. /\ c \in DOMAIN f /\ p \in DOMAIN f /\ s \in DOMAIN f /\ c \in Node
      /\ f[c] \intersect f[s] = {} /\ f[c] \union f[s] = f[p]
  BY <1>1, EdgeFacts
<1>4. r \in DOMAIN f /\ r \in Node /\ r \in Above(f, p) /\ c \notin Above(f, p)
  <2>1. r \in DOMAIN f
    BY <1>0 DEF Roots
  <2> QED BY <2>1, <1>0, <1>1, StoredNode, AboveFacts DEF Above
<1>5. k \in Heaps
  BY UnlabelledFields
<1>6. ASSUME NEW n \in Node
      PROVE  k.terms[n] = IF n \in Above(f, p) THEN f[n] \ f[c] ELSE h.terms[n]
  BY UnlabelledAt
<1> HIDE DEF k
<1>7. k.terms[r] = f[r] \ f[c] /\ k.terms[c] = f[c]
  BY <1>1, <1>3, <1>4, <1>6, StoredNode
<1>8. f[c] # {} /\ f[s] # {} /\ f[r] # {} /\ h.terms[r] = f[r]
  BY <1>1, <1>3, <1>4, StoredNode
<1>9. /\ first \in Node /\ second \in Node
      /\ k.terms[first] # {} /\ k.terms[second] # {}
      /\ k.terms[first] \intersect k.terms[second] = {}
      /\ h.terms[h.roots[at]] = k.terms[first] \union k.terms[second]
  BY <1>0, <1>3, <1>4, <1>7, <1>8
<1>10. ASSUME NEW j \in 1..Len(h.roots), j # at
       PROVE  /\ k.terms[h.roots[j]] = h.terms[h.roots[j]] /\ h.terms[h.roots[j]] # {}
              /\ h.terms[h.roots[j]] \intersect h.terms[h.roots[at]] = {}
  <2> DEFINE t == h.roots[j]
  <2>1. t \in Roots(f) /\ at \in DOMAIN h.roots /\ j \in DOMAIN h.roots
    BY <1>0, <1>1, <1>2 DEF Range
  <2>2. t # r
    <3>1. (CHOOSE y \in DOMAIN h.roots : h.roots[y] = r) = at
      BY <1>0, <1>1, <2>1, RootIndex
    <3>2. h.roots[j] = r => (CHOOSE y \in DOMAIN h.roots : h.roots[y] = r) = j
      BY <1>0, <1>1, <2>1, RootIndex
    <3> QED BY <3>1, <3>2, <1>10
  <2>3. f[t] \intersect f[r] = {} /\ t \in DOMAIN f /\ t \in Node /\ f[t] # {}
        /\ h.terms[t] = f[t]
    <3>1. t \in DOMAIN f
      BY <2>1 DEF Roots
    <3> QED BY <3>1, <2>1, <2>2, <1>0, <1>1, RootsApart, StoredNode
  <2>4. t \notin Above(f, p)
    BY <2>3, <1>0, <1>3, <1>8 DEF Above
  <2> HIDE DEF t
  <2>5. k.terms[t] = h.terms[t]
    BY <2>3, <2>4, <1>6
  <2> QED BY <2>3, <2>5, <1>0, <1>8 DEF t
<1>11. k.terms \in [Node -> SUBSET Label]
  BY <1>5, HeapFields
<1>12. SplitsInto(k, h.terms, h.roots, at, first, second)
  BY <1>0, <1>1, <1>2, <1>9, <1>10, <1>11 DEF SplitsInto
<1> QED BY <1>12 DEF k

(* What the cut below an inner node makes of h. *)
InnerDone(h, f, c, p, s, k, left, right) ==
  LET u == Unlabelled(h, f, c, p, s)
  IN  /\ k \in Heaps
      /\ k.terms = u.terms /\ k.left = u.left /\ k.right = u.right
      /\ k.labelToTerminal = h.labelToTerminal /\ k.terminalToLabel = h.terminalToLabel
      /\ k.parent = [u.parent EXCEPT ![c] = Nil]
      /\ k.sibling = [u.sibling EXCEPT ![c] = Nil]
      /\ Range(k.roots) = Roots(f) \union {c} /\ Ascending(k.terms, k.roots)
      /\ \E r \in Roots(f) :
           f[p] \subseteq f[r] /\ RemoveAt(ReplaceAt(k.roots, left, r), right) = h.roots

LEMMA DetachFields ==
  ASSUME NEW h \in Heaps, NEW c \in Node, NEW s \in Seq(Node)
  PROVE  LET k == [Detach(h, c) EXCEPT !.roots = s]
         IN  /\ k \in Heaps
             /\ k.parent = [h.parent EXCEPT ![c] = Nil]
             /\ k.sibling = [h.sibling EXCEPT ![c] = Nil]
             /\ k.left = h.left /\ k.right = h.right /\ k.terms = h.terms
             /\ k.roots = s /\ k.labelToTerminal = h.labelToTerminal
             /\ k.terminalToLabel = h.terminalToLabel
<1> DEFINE P == [h.parent EXCEPT ![c] = Nil]
           S == [h.sibling EXCEPT ![c] = Nil]
           k == [Detach(h, c) EXCEPT !.roots = s]
<1>1. P \in Pointers /\ S \in Pointers
  BY DEF Heaps, Pointers
<1>2. k = [h EXCEPT !.parent = P, !.sibling = S, !.roots = s]
  BY DEF Detach, Heaps
<1> HIDE DEF P, S, k
<1> QED BY <1>1, <1>2 DEF Heaps, k, P, S

LEMMA InnerRecord ==
  ASSUME NEW h, NEW f, NEW c, NEW p, NEW s, NEW g, NEW q, InnerEdge(h, f, c, p, s, g, q)
  PROVE  /\ EdgeAbove(h, c).child = c /\ EdgeAbove(h, c).sibling = s
         /\ EdgeAbove(h, c).parent = p /\ ~EdgeAbove(h, c).parentIsRoot
<1>1. Edge(h, f, c, p, s) /\ p \notin Roots(f) /\ Range(h.roots) = Roots(f)
  BY StoredForest DEF InnerEdge, Edge
<1>2. h.parent[c] = p /\ h.sibling[c] = s
  BY <1>1, EdgeFacts
<1>3. {x \in DOMAIN h.roots : h.roots[x] = p} = {}
  BY <1>1 DEF Range
<1> QED BY <1>2, <1>3 DEF EdgeAbove

LEMMA InnerFields ==
  ASSUME NEW h, NEW f, NEW c, NEW p, NEW s, NEW g, NEW q, InnerEdge(h, f, c, p, s, g, q)
  PROVE  LET done == DoDelete(h, EdgeAbove(h, c))
         IN  InnerDone(h, f, c, p, s, done.heap, done.left, done.right)
<1> DEFINE a == EdgeAbove(h, c)
           done == DoDelete(h, a)
           h1 == Lifted(h, p, s)
           path == PathUp(h1, p)
           u == Unlabelled(h, f, c, p, s)
           r == RootOfPath(u, p)
           at == CHOOSE x \in DOMAIN u.roots : u.roots[x] = r
           rootFirst == HasSmallestTerminal(u.terms[r], u.terms[c])
           first == IF rootFirst THEN r ELSE c
           second == IF rootFirst THEN c ELSE r
           s0 == IF rootFirst THEN u.roots ELSE ReplaceAt(u.roots, at, c)
           right == LowerBound(u, s0, at, u.terms[second])
           new == InsertAt(s0, right, second)
           k == [Detach(u, c) EXCEPT !.roots = new]
<1>1. a.child = c /\ a.sibling = s /\ a.parent = p /\ ~a.parentIsRoot
  <2> HIDE DEF a
  <2> QED BY InnerRecord DEF a
<1>2. h.parent[p] = g /\ h.sibling[p] = q
  BY InnerFacts
<1>3. /\ Edge(h, f, c, p, s) /\ Stores(h, f) /\ h \in Heaps
      /\ Distinct(f) /\ Laminar(f) /\ Range(h.roots) = Roots(f)
  BY StoredForest DEF InnerEdge, Edge
<1>4. /\ c \in DOMAIN f /\ p \in DOMAIN f /\ s \in DOMAIN f /\ c \in Node
      /\ f[c] \intersect f[s] = {} /\ f[c] \union f[s] = f[p]
  BY <1>3, EdgeFacts
<1>5. h1 \in Heaps /\ NoCycle(h1) /\ h1.terms = h.terms
  BY InnerLifted
<1>6. path = Above(f, p)
  <2>1. h1.parent \in Pointers
    BY <1>5, HeapFields
  <2>2. ASSUME NEW m \in Above(f, p)
        PROVE  h1.parent[m] = h.parent[m]
    <3>1. m \in Node /\ m # s
      BY AboveFacts
    <3>2. \A n \in Node : h1.parent[n] = IF n = s THEN g ELSE h.parent[n]
      BY InnerLifted
    <3> QED BY <3>1, <3>2
  <2> HIDE DEF h1
  <2> QED BY <2>1, <2>2, <1>5, AbovePath
<1>7. h1.terms[c] = f[c]
  BY <1>3, <1>4, <1>5, StoredNode
<1>8. SortChildren(LessLabels(h1, path, h1.terms[c]), path) = u
  BY <1>6, <1>7 DEF Unlabelled
<1>9. done = [heap |-> k, left |-> at, right |-> right]
  <2>1. done = SplitRoot(u, r, c)
    <3> HIDE DEF a, u, h1
    <3> QED BY <1>1, <1>8 DEF DoDelete, DoParentIsInner, h1
  <2> HIDE DEF a, done, u, r
  <2> QED BY <2>1 DEF SplitRoot
<1>0. ASSUME NEW n \in Node
      PROVE  /\ u.parent[n] = IF n = s THEN g ELSE h.parent[n]
             /\ u.terms[n] = IF n \in Above(f, p) THEN f[n] \ f[c] ELSE h.terms[n]
  BY UnlabelledAt
<1>10. /\ u \in Heaps /\ NoCycle(u) /\ u.roots = h.roots
       /\ u.labelToTerminal = h.labelToTerminal /\ u.terminalToLabel = h.terminalToLabel
  BY UnlabelledFields
<1>11. r \in Roots(f) /\ f[p] \subseteq f[r]
  <2>1. u.parent \in Pointers
    BY <1>10, HeapFields
  <2>2. ASSUME NEW m \in Above(f, p)
        PROVE  u.parent[m] = h.parent[m]
    <3>1. m \in Node /\ m # s
      BY AboveFacts
    <3>2. u.parent[m] = IF m = s THEN g ELSE h.parent[m]
      BY <3>1, <1>0
    <3> QED BY <3>1, <3>2
  <2> HIDE DEF u, r
  <2>3. RootOfPath(u, p) \in Roots(f) /\ f[p] \subseteq f[RootOfPath(u, p)]
    BY <2>1, <2>2, <1>10, AbovePath
  <2> QED BY <2>3 DEF r
<1>12. at \in 1..Len(h.roots) /\ h.roots[at] = r
  <2> HIDE DEF r, u
  <2>1. h.roots \in Seq(Node) /\ DOMAIN h.roots = 1..Len(h.roots)
    BY <1>3, HeapFields
  <2>2. PICK x \in DOMAIN h.roots : h.roots[x] = r
    BY <1>3, <1>11 DEF Range
  <2> QED BY <2>1, <2>2, <1>10
<1>13. u.terms[r] = f[r] \ f[c] /\ u.terms[c] = f[c]
  <2> HIDE DEF r
  <2>1. r \in DOMAIN f /\ r \in Node /\ r \in Above(f, p)
    <3>1. r \in DOMAIN f
      BY <1>11 DEF Roots
    <3> QED BY <3>1, <1>3, <1>11, StoredNode DEF Above
  <2>2. c \notin Above(f, p) /\ h.terms[c] = f[c]
    BY <1>3, <1>4, AboveFacts, StoredNode
  <2>3. u.terms[r] = IF r \in Above(f, p) THEN f[r] \ f[c] ELSE h.terms[r]
    BY <2>1, <1>0
  <2>4. u.terms[c] = IF c \in Above(f, p) THEN f[c] \ f[c] ELSE h.terms[c]
    BY <1>4, <1>0
  <2> QED BY <2>1, <2>2, <2>3, <2>4
<1> HIDE DEF at, r, u
<1>14. Smallest(u.terms[first]) < Smallest(u.terms[second])
  <2> DEFINE A == u.terms[r]
             B == u.terms[c]
  <2>1. A \in SUBSET Label /\ B \in SUBSET Label /\ A # {} /\ B # {} /\ A \intersect B = {}
    <3>1. r \in DOMAIN f
      BY <1>11 DEF Roots
    <3>2. f[r] \in SUBSET Label /\ f[c] \in SUBSET Label /\ f[c] # {} /\ f[s] # {}
      BY <3>1, <1>3, <1>4, StoredNode
    <3> QED BY <3>2, <1>4, <1>11, <1>13
  <2> HIDE DEF A, B
  <2>2. A \subseteq Nat /\ B \subseteq Nat
    BY <2>1, HeapAssumption
  <2>3. HasSmallestTerminal(A, B) <=> Smallest(A) < Smallest(B)
    BY <2>1, ComparesSmallest
  <2>4. Smallest(A) \in A /\ Smallest(B) \in B /\ Smallest(A) \in Nat /\ Smallest(B) \in Nat
    BY <2>1, <2>2, SmallestIsLeast
  <2>5. Smallest(A) # Smallest(B)
    BY <2>1, <2>4
  <2>6. rootFirst <=> Smallest(A) < Smallest(B)
    BY <2>3 DEF A, B
  <2>7. ~rootFirst => Smallest(B) < Smallest(A)
    BY <2>4, <2>5, <2>6
  <2> HIDE DEF rootFirst
  <2>8. CASE rootFirst
    BY <2>6, <2>8 DEF A, B
  <2>9. CASE ~rootFirst
    BY <2>7, <2>9 DEF A, B
  <2> QED BY <2>8, <2>9
<1> HIDE DEF rootFirst
<1>15. InnerSplits(h, f, c, p, s, r, at, first, second)
  BY <1>11, <1>12, <1>14 DEF InnerSplits, u
<1>16. (first = r /\ second = c) \/ (first = c /\ second = r)
  OBVIOUS
<1>17. s0 = ReplaceAt(h.roots, at, first)
  <2>1. h.roots \in Seq(Node)
    BY <1>3, HeapFields
  <2>2. ReplaceAt(h.roots, at, h.roots[at]) = h.roots
    BY <2>1, <1>12, ReplacedBySame
  <2> QED BY <2>2, <1>10, <1>12
<1> HIDE DEF first, second, s0
<1>18. SplitsInto(u, h.terms, h.roots, at, first, second)
  BY <1>15, InnerSplit DEF u
<1>19. SplitDone(u, h.roots, at, first, second, right, new)
  <2>1. LET s1 == ReplaceAt(h.roots, at, first)
            x == LowerBound(u, s1, at, u.terms[second])
        IN  SplitDone(u, h.roots, at, first, second, x, InsertAt(s1, x, second))
    BY <1>18, RootSplit
  <2> QED BY <2>1, <1>17
<1> HIDE DEF right, new
<1>20. /\ new \in Seq(Node) /\ Ascending(u.terms, new)
       /\ Range(new) = Roots(f) \union {c}
       /\ RemoveAt(ReplaceAt(new, at, r), right) = h.roots
  BY <1>3, <1>11, <1>12, <1>16, <1>19 DEF SplitDone
<1>21. /\ k \in Heaps
       /\ k.parent = [u.parent EXCEPT ![c] = Nil]
       /\ k.sibling = [u.sibling EXCEPT ![c] = Nil]
       /\ k.left = u.left /\ k.right = u.right /\ k.terms = u.terms
       /\ k.roots = new /\ k.labelToTerminal = u.labelToTerminal
       /\ k.terminalToLabel = u.terminalToLabel
  BY <1>4, <1>10, <1>20, DetachFields
<1>22. done.heap = k /\ done.left = at /\ done.right = right
  <2> HIDE DEF done
  <2> QED BY <1>9
<1> HIDE DEF k
<1>23. InnerDone(h, f, c, p, s, k, at, right)
  BY <1>10, <1>11, <1>20, <1>21 DEF InnerDone, u
<1> HIDE DEF done
<1>24. InnerDone(h, f, c, p, s, done.heap, done.left, done.right)
  BY <1>22, <1>23
<1> QED BY <1>24 DEF done, a

(* The same at the node n. *)
InnerNode(h, f, c, p, s, g, q, k, n) ==
  /\ k.parent[n] = IF n = c THEN Nil ELSE IF n = s THEN g ELSE h.parent[n]
  /\ k.sibling[n] = IF n = c THEN Nil ELSE IF n = s THEN q
                    ELSE IF n = q THEN s ELSE h.sibling[n]
  /\ k.terms[n] = IF n \in Above(f, p) THEN f[n] \ f[c] ELSE h.terms[n]
  /\ n \notin Above(f, p) => k.left[n] = h.left[n] /\ k.right[n] = h.right[n]

LEMMA InnerAt ==
  ASSUME NEW h, NEW f, NEW c, NEW p, NEW s, NEW g, NEW q, InnerEdge(h, f, c, p, s, g, q),
         NEW k, NEW left, NEW right, InnerDone(h, f, c, p, s, k, left, right), NEW n \in Node
  PROVE  InnerNode(h, f, c, p, s, g, q, k, n)
<1> DEFINE u == Unlabelled(h, f, c, p, s)
<1>1. /\ u.parent[n] = IF n = s THEN g ELSE h.parent[n]
      /\ u.sibling[n] = IF n = s THEN q ELSE IF n = q THEN s ELSE h.sibling[n]
      /\ u.terms[n] = IF n \in Above(f, p) THEN f[n] \ f[c] ELSE h.terms[n]
      /\ n \notin Above(f, p) => u.left[n] = h.left[n] /\ u.right[n] = h.right[n]
  BY UnlabelledAt
<1>2. u \in Heaps
  BY UnlabelledFields
<1>3. u.parent \in Pointers /\ u.sibling \in Pointers
  BY <1>2, HeapFields
<1>4. c \in Node
  BY EdgeFacts DEF InnerEdge
<1>5. /\ k.terms = u.terms /\ k.left = u.left /\ k.right = u.right
      /\ k.parent = [u.parent EXCEPT ![c] = Nil] /\ k.sibling = [u.sibling EXCEPT ![c] = Nil]
  BY DEF InnerDone
<1> HIDE DEF u
<1>6. /\ k.parent[n] = IF n = c THEN Nil ELSE u.parent[n]
      /\ k.sibling[n] = IF n = c THEN Nil ELSE u.sibling[n]
  BY <1>3, <1>4, <1>5 DEF Pointers
<1> QED BY <1>1, <1>5, <1>6 DEF InnerNode

LEMMA InnerChildren ==
  ASSUME NEW h, NEW f, NEW c, NEW p, NEW s, NEW g, NEW q, InnerEdge(h, f, c, p, s, g, q),
         NEW k, NEW left, NEW right, InnerDone(h, f, c, p, s, k, left, right),
         NEW m \in Above(f, p)
  PROVE  LET x == InPlaceOf(p, s, h.left[m])
             y == InPlaceOf(p, s, h.right[m])
         IN  /\ \/ k.left[m] = x /\ k.right[m] = y
                \/ k.left[m] = y /\ k.right[m] = x
             /\ Smallest(k.terms[k.left[m]]) < Smallest(k.terms[k.right[m]])
<1> DEFINE u == Unlabelled(h, f, c, p, s)
           x == InPlaceOf(p, s, h.left[m])
           y == InPlaceOf(p, s, h.right[m])
<1>1. /\ \/ u.left[m] = x /\ u.right[m] = y
         \/ u.left[m] = y /\ u.right[m] = x
      /\ Smallest(u.terms[u.left[m]]) < Smallest(u.terms[u.right[m]])
  BY UnlabelledChildren
<1>2. k.terms = u.terms /\ k.left = u.left /\ k.right = u.right
  BY DEF InnerDone
<1> HIDE DEF u, x, y
<1> QED BY <1>1, <1>2 DEF x, y

(* The children of a node above the cut, before and after it. *)
LEMMA CutChildren ==
  ASSUME NEW h, NEW f, NEW c, NEW p, NEW s, NEW g, NEW q, InnerEdge(h, f, c, p, s, g, q),
         NEW e, e = CutEdge(f, c, p), NEW a \in DOMAIN f, NEW b \in DOMAIN f,
         NEW m \in DOMAIN f \ {p}, AreChildren(f, a, b, m)
  PROVE  AreChildren(e, InPlaceOf(p, s, a), InPlaceOf(p, s, b), m)
<1>1. Edge(h, f, c, p, s) /\ Distinct(f) /\ Laminar(f)
  BY StoredForest DEF InnerEdge, Edge
<1>2. /\ c \in DOMAIN f /\ p \in DOMAIN f /\ s \in DOMAIN f
      /\ IsParent(f, p, c) /\ AreChildren(f, c, s, p)
  BY <1>1, EdgeFacts
<1>3. a # b
  BY <1>1 DEF AreChildren, Below, Distinct
<1>4. CASE a = p
  <2>1. AreChildren(e, s, b, m)
    BY <1>1, <1>2, <1>4, CutLiftsSibling
  <2> QED BY <2>1, <1>3, <1>4 DEF InPlaceOf
<1>5. CASE b = p
  <2>1. AreChildren(f, b, a, m)
    BY ChildrenSwap
  <2>2. AreChildren(e, s, a, m)
    BY <2>1, <1>1, <1>2, <1>5, CutLiftsSibling
  <2>3. AreChildren(e, a, s, m)
    BY <2>2, ChildrenSwap
  <2> QED BY <2>3, <1>3, <1>5 DEF InPlaceOf
<1>6. CASE a # p /\ b # p
  <2>1. AreChildren(e, a, b, m)
    BY <1>1, <1>2, <1>6, CutKeepsChildren
  <2> QED BY <2>1, <1>6 DEF InPlaceOf
<1> QED BY <1>4, <1>5, <1>6

LEMMA InnerParentFits ==
  ASSUME NEW h, NEW f, NEW c, NEW p, NEW s, NEW g, NEW q, InnerEdge(h, f, c, p, s, g, q),
         NEW k, NEW left, NEW right, InnerDone(h, f, c, p, s, k, left, right),
         NEW e, e = CutEdge(f, c, p), NEW n \in DOMAIN f \ {p}
  PROVE  ParentFits(k, e, n)
<1>1. /\ Edge(h, f, c, p, s) /\ Stores(h, f) /\ Distinct(f) /\ Laminar(f)
      /\ c \in DOMAIN f /\ p \in DOMAIN f /\ s \in DOMAIN f /\ c # p /\ s # p /\ c # s
      /\ IsParent(f, p, c) /\ AreChildren(f, c, s, p)
  BY StoredForest, EdgeFacts DEF InnerEdge, Edge
<1>2. /\ g \in DOMAIN f \ {p} /\ q \in DOMAIN f \ {p} /\ AreChildren(f, p, q, g)
      /\ c # q /\ s # q /\ h.parent[q] = g
      /\ \A j \in DOMAIN f : h.sibling[j] = p => j = q
  BY InnerFacts
<1>3. DOMAIN e = DOMAIN f \ {p} /\ n \in Node
  BY <1>1, StoredNode DEF CutEdge
<1>4. Distinct(e) /\ Laminar(e)
  BY <1>1, CutDistinct, CutLaminar
<1>5. /\ k.parent[n] = IF n = c THEN Nil ELSE IF n = s THEN g ELSE h.parent[n]
      /\ k.sibling[n] = IF n = c THEN Nil ELSE IF n = s THEN q
                        ELSE IF n = q THEN s ELSE h.sibling[n]
  <2>1. InnerNode(h, f, c, p, s, g, q, k, n)
    BY <1>3, InnerAt
  <2> QED BY <2>1 DEF InnerNode
<1>6. AreChildren(e, s, q, g) /\ AreChildren(e, q, s, g)
  <2>1. AreChildren(e, s, q, g)
    BY <1>1, <1>2, CutLiftsSibling
  <2> QED BY <2>1, ChildrenSwap
<1>7. CASE n = c
  <2>1. c \in Roots(e)
    BY <1>1, CutMakesRoot
  <2> QED BY <2>1, <1>5, <1>7 DEF ParentFits, Roots
<1>8. CASE n = s
  <2>1. IsParent(e, g, s) /\ ~IsRoot(e, s)
    BY <1>1, <1>2, <1>3, <1>4, <1>6, ChildrenHaveParent DEF AreChildren, IsRoot
  <2> QED BY <2>1, <1>1, <1>2, <1>3, <1>5, <1>6, <1>8 DEF ParentFits
<1>9. CASE n = q
  <2>1. IsParent(e, g, q) /\ ~IsRoot(e, q)
    BY <1>1, <1>2, <1>3, <1>4, <1>6, ChildrenHaveParent DEF AreChildren, IsRoot
  <2> QED BY <2>1, <1>1, <1>2, <1>3, <1>5, <1>6, <1>9 DEF ParentFits
<1>10. CASE n # c /\ n # s /\ n # q
  <2>1. k.parent[n] = h.parent[n] /\ k.sibling[n] = h.sibling[n] /\ h.sibling[n] # p
    BY <1>2, <1>5, <1>10
  <2> QED BY <2>1, <1>1, <1>10, CutParentKept
<1> QED BY <1>7, <1>8, <1>9, <1>10

LEMMA InnerChildrenFit ==
  ASSUME NEW h, NEW f, NEW c, NEW p, NEW s, NEW g, NEW q, InnerEdge(h, f, c, p, s, g, q),
         NEW k, NEW left, NEW right, InnerDone(h, f, c, p, s, k, left, right),
         NEW e, e = CutEdge(f, c, p), NEW n \in DOMAIN f \ {p},
         \A m \in DOMAIN e : e[m] = k.terms[m]
  PROVE  ChildrenFit(k, e, n)
<1>1. /\ Edge(h, f, c, p, s) /\ Stores(h, f) /\ Distinct(f) /\ Laminar(f)
      /\ c \in DOMAIN f /\ p \in DOMAIN f /\ s \in DOMAIN f /\ c # p /\ s # p /\ c # s
      /\ IsParent(f, p, c) /\ AreChildren(f, c, s, p)
  BY StoredForest, EdgeFacts DEF InnerEdge, Edge
<1>2. DOMAIN e = DOMAIN f \ {p} /\ n \in Node
  BY <1>1, StoredNode DEF CutEdge
<1>3. IsTerminal(e, n) <=> IsTerminal(f, n)
  BY <1>1, CutTerminals
<1> DEFINE a == h.left[n]
           b == h.right[n]
           x == InPlaceOf(p, s, a)
           y == InPlaceOf(p, s, b)
<1>4. CASE n \in Above(f, p)
  <2>1. /\ a \in DOMAIN f /\ b \in DOMAIN f /\ AreChildren(f, a, b, n)
        /\ x \in DOMAIN f \ {p} /\ y \in DOMAIN f \ {p}
    BY <1>4, PathChildren
  <2>2. AreChildren(e, x, y, n)
    BY <2>1, CutChildren
  <2>3. AreChildren(e, y, x, n)
    BY <2>2, ChildrenSwap
  <2>4. /\ \/ k.left[n] = x /\ k.right[n] = y
           \/ k.left[n] = y /\ k.right[n] = x
        /\ Smallest(k.terms[k.left[n]]) < Smallest(k.terms[k.right[n]])
    BY <1>4, InnerChildren
  <2>5. ~IsTerminal(e, n)
    BY <2>1, <1>3 DEF AreChildren, IsTerminal
  <2> HIDE DEF x, y
  <2> QED BY <2>1, <2>2, <2>3, <2>4, <2>5, <1>2 DEF ChildrenFit
<1>5. CASE n \notin Above(f, p)
  <2>1. k.left[n] = a /\ k.right[n] = b
    <3>1. InnerNode(h, f, c, p, s, g, q, k, n)
      BY <1>2, InnerAt
    <3> QED BY <3>1, <1>5 DEF InnerNode
  <2>2. CASE IsTerminal(f, n)
    <3>1. a = Nil /\ b = Nil
      BY <2>2, <1>1, StoredChildren
    <3> QED BY <3>1, <2>1, <2>2, <1>3 DEF ChildrenFit
  <2>3. CASE ~IsTerminal(f, n)
    <3>1. /\ a \in DOMAIN f /\ b \in DOMAIN f /\ AreChildren(f, a, b, n)
          /\ Smallest(f[a]) < Smallest(f[b])
      BY <2>3, <1>1, StoredChildren
    <3>2. f[a] \subseteq f[n] /\ f[b] \subseteq f[n]
      BY <3>1 DEF AreChildren
    <3>3. a \notin Above(f, p) /\ b \notin Above(f, p) /\ a # p /\ b # p
      BY <3>1, <3>2, <1>5 DEF Above
    <3>4. AreChildren(e, a, b, n)
      BY <3>1, <3>3, <1>1, CutKeepsChildren
    <3>5. a \in Node /\ b \in Node /\ h.terms[a] = f[a] /\ h.terms[b] = f[b]
      BY <3>1, <1>1, StoredNode
    <3>6. k.terms[a] = h.terms[a] /\ k.terms[b] = h.terms[b]
      <4>1. InnerNode(h, f, c, p, s, g, q, k, a) /\ InnerNode(h, f, c, p, s, g, q, k, b)
        BY <3>5, InnerAt
      <4> QED BY <4>1, <3>3 DEF InnerNode
    <3>7. e[a] = f[a] /\ e[b] = f[b]
      BY <3>1, <3>3, <3>5, <3>6, <1>2
    <3> HIDE DEF a, b
    <3> QED BY <2>1, <2>3, <3>1, <3>3, <3>4, <3>7, <1>2, <1>3 DEF ChildrenFit
  <2> QED BY <2>2, <2>3
<1> QED BY <1>4, <1>5

(* The heap of the cut stores the forest of the cut. *)
LEMMA InnerCutStores ==
  ASSUME NEW h, NEW f, NEW c, NEW p, NEW s, NEW g, NEW q, InnerEdge(h, f, c, p, s, g, q)
  PROVE  Stores(DoDelete(h, EdgeAbove(h, c)).heap, CutEdge(f, c, p))
<1> DEFINE done == DoDelete(h, EdgeAbove(h, c))
           k == done.heap
           left == done.left
           right == done.right
           e == CutEdge(f, c, p)
<1>1. InnerDone(h, f, c, p, s, k, left, right)
  BY InnerFields
<1> HIDE DEF done, k, left, right
<1>2. /\ k \in Heaps
      /\ k.labelToTerminal = h.labelToTerminal /\ k.terminalToLabel = h.terminalToLabel
      /\ Range(k.roots) = Roots(f) \union {c} /\ Ascending(k.terms, k.roots)
  BY <1>1 DEF InnerDone
<1>3. /\ Edge(h, f, c, p, s) /\ Stores(h, f) /\ Distinct(f) /\ Laminar(f)
      /\ WellFormed(f, Label) /\ h \in Heaps /\ NoCycle(h) /\ DOMAIN f \subseteq Node
      /\ p \notin Roots(f)
  BY StoredForest DEF InnerEdge, Edge
<1>4. /\ c \in DOMAIN f /\ p \in DOMAIN f /\ s \in DOMAIN f /\ c # p /\ s # p /\ c # s
      /\ p \in Node /\ s \in Node
      /\ IsParent(f, p, c) /\ AreChildren(f, c, s, p) /\ h.parent[s] = p
  BY <1>3, EdgeFacts
<1>5. h.parent[p] = g
  BY InnerFacts
<1>6. DOMAIN e = DOMAIN f \ {p} /\ DOMAIN e \subseteq Node
  BY <1>3 DEF CutEdge
<1>7. ASSUME NEW n \in Node
      PROVE  InnerNode(h, f, c, p, s, g, q, k, n)
  BY <1>1, InnerAt
<1>8. ASSUME NEW n \in DOMAIN e
      PROVE  e[n] = k.terms[n]
  <2>1. e[n] = IF Below(f, c, n) THEN f[n] \ f[c] ELSE f[n]
    BY <1>6 DEF CutEdge
  <2>2. Below(f, c, n) <=> n \in Above(f, p)
    BY <1>6, AboveFacts
  <2>3. h.terms[n] = f[n]
    BY <1>3, <1>6, StoredNode
  <2>4. k.terms[n] = IF n \in Above(f, p) THEN f[n] \ f[c] ELSE h.terms[n]
    BY <1>6, <1>7 DEF InnerNode
  <2> QED BY <2>1, <2>2, <2>3, <2>4
<1>9. e = [n \in DOMAIN e |-> k.terms[n]]
  <2>1. e = [n \in DOMAIN e |-> e[n]]
    BY DEF CutEdge
  <2> HIDE DEF e
  <2> QED BY <2>1, <1>8
<1>10. WellFormed(e, Label)
  BY <1>3, <1>4, CutWellFormed
<1>11. NoCycle(k)
  <2>1. h.parent \in Pointers
    BY <1>3, HeapFields
  <2>2. \A n \in Node : \/ k.parent[n] = h.parent[n]
                        \/ k.parent[n] = Nil
                        \/ n = s /\ k.parent[n] = h.parent[p]
    BY <1>5, <1>7 DEF InnerNode
  <2> QED BY <2>1, <2>2, <1>3, <1>4, NoCycleLifted
<1>12. Roots(e) = Roots(f) \union {c}
  <2>1. ASSUME NEW n \in Roots(f)
        PROVE  n \in Roots(e)
    BY <1>3, <1>4, CutKeepsRoots
  <2>2. c \in Roots(e)
    BY <1>3, <1>4, CutMakesRoot
  <2>3. ASSUME NEW n \in Roots(e), n # c, n \notin Roots(f)
        PROVE  FALSE
    <3>1. n = s /\ p \in Roots(f)
      BY <2>3, <1>3, <1>4, CutMakesNoOther
    <3> QED BY <3>1, <1>3
  <2> HIDE DEF e
  <2> QED BY <2>1, <2>2, <2>3
<1>13. RootsFit(k, e)
  BY <1>2, <1>12 DEF RootsFit, Ascending
<1>14. LabelsFit(k, e)
  BY <1>2, <1>3, CutLabels
<1>15. ASSUME NEW n \in DOMAIN e
       PROVE  ParentFits(k, e, n)
  BY <1>1, <1>6, InnerParentFits
<1>16. ASSUME NEW n \in DOMAIN e
       PROVE  ChildrenFit(k, e, n)
  BY <1>1, <1>6, <1>8, InnerChildrenFit
<1> HIDE DEF e
<1>17. Stores(k, e)
  BY <1>2, <1>6, <1>9, <1>10, <1>11, <1>13, <1>14, <1>15, <1>16 DEF Stores
<1> QED BY <1>17 DEF k, done, e

(* The undo puts p back above s and c: *)
LoweredNode(h, f, p, v, n) ==
  /\ n \notin Above(f, p) => v.left[n] = h.left[n] /\ v.right[n] = h.right[n]
  /\ n \in Above(f, p) => \/ v.left[n] = h.left[n] /\ v.right[n] = h.right[n]
                          \/ v.left[n] = h.right[n] /\ v.right[n] = h.left[n]

LEMMA InnerLowered ==
  ASSUME NEW h, NEW f, NEW c, NEW p, NEW s, NEW g, NEW q, InnerEdge(h, f, c, p, s, g, q),
         NEW k, NEW left, NEW right, InnerDone(h, f, c, p, s, k, left, right)
  PROVE  LET v == Lowered(k, c, p, s)
         IN  /\ v \in Heaps /\ v.parent = h.parent /\ v.sibling = h.sibling
             /\ v.terms = k.terms /\ v.roots = k.roots
             /\ v.labelToTerminal = h.labelToTerminal
             /\ v.terminalToLabel = h.terminalToLabel
             /\ \A n \in Node : LoweredNode(h, f, p, v, n)
<1> DEFINE v == Lowered(k, c, p, s)
           r == Relink(k, g, s, p)
<1>1. /\ k \in Heaps
      /\ k.labelToTerminal = h.labelToTerminal /\ k.terminalToLabel = h.terminalToLabel
  BY DEF InnerDone
<1>2. /\ Edge(h, f, c, p, s) /\ Stores(h, f) /\ h \in Heaps
      /\ c \in Node /\ p \in Node /\ s \in Node /\ c # p /\ s # p /\ c # s
      /\ h.parent[c] = p /\ h.sibling[c] = s /\ h.parent[s] = p /\ h.sibling[s] = c
  BY StoredForest, EdgeFacts DEF InnerEdge, Edge
<1>3. /\ g \in Node /\ q \in Node /\ h.parent[p] = g /\ h.sibling[p] = q /\ h.sibling[q] = p
      /\ q # p /\ q # c /\ q # s
      /\ \/ h.left[g] = p /\ h.right[g] = q
         \/ h.left[g] = q /\ h.right[g] = p
      /\ c # g
  BY InnerFacts
<1>4. ASSUME NEW n \in Node
      PROVE  InnerNode(h, f, c, p, s, g, q, k, n)
  BY InnerAt
<1>5. k.parent[p] = g /\ k.sibling[p] = q
  BY <1>2, <1>3, <1>4 DEF InnerNode
<1>6. /\ v \in Heaps
      /\ v.parent = [[k.parent EXCEPT ![s] = p] EXCEPT ![c] = p]
      /\ v.sibling = [[[k.sibling EXCEPT ![s] = c] EXCEPT ![c] = s] EXCEPT ![q] = p]
      /\ v.left = r.left /\ v.right = r.right /\ v.terms = k.terms
      /\ v.roots = k.roots /\ v.labelToTerminal = k.labelToTerminal
      /\ v.terminalToLabel = k.terminalToLabel
  <2>1. k \in Heaps /\ c \in Node /\ p \in Node /\ s \in Node /\ g \in Node /\ q \in Node
    BY <1>1, <1>2, <1>3
  <2>2. LoweredHeap(k, c, p, s, g, q, Lowered(k, c, p, s))
    BY <2>1, <1>5, LoweredFields
  <2> HIDE DEF v
  <2>3. LoweredHeap(k, c, p, s, g, q, v)
    BY <2>2 DEF v
  <2> QED BY <2>3 DEF LoweredHeap
<1>7. ASSUME NEW m \in Node
      PROVE  /\ r.left[m] = IF m = g /\ k.left[g] = s THEN p ELSE k.left[m]
             /\ r.right[m] = IF m = g /\ k.left[g] # s THEN p ELSE k.right[m]
  <2>1. k \in Heaps /\ p \in Node /\ s \in Node /\ g \in Node
    BY <1>1, <1>2, <1>3
  <2> QED BY <2>1, RelinkChildren
<1> HIDE DEF v, r
<1>8. k.parent \in Pointers /\ k.sibling \in Pointers /\ h.parent \in Pointers /\ h.sibling \in Pointers
      /\ v.parent \in Pointers /\ v.sibling \in Pointers
  BY <1>1, <1>2, <1>6, HeapFields
<1>9. v.parent = h.parent
  <2>1. \A n \in Node : k.parent[n] = IF n = c THEN Nil ELSE IF n = s THEN g ELSE h.parent[n]
    BY <1>4 DEF InnerNode
  <2>2. \A n \in Node : v.parent[n] = h.parent[n]
    BY <2>1, <1>2, <1>6, <1>8 DEF Pointers
  <2> QED BY <2>2, <1>8 DEF Pointers
<1>10. v.sibling = h.sibling
  <2>1. \A n \in Node : k.sibling[n] = IF n = c THEN Nil ELSE IF n = s THEN q
                                       ELSE IF n = q THEN s ELSE h.sibling[n]
    BY <1>4 DEF InnerNode
  <2>2. \A n \in Node : v.sibling[n] = h.sibling[n]
    BY <2>1, <1>2, <1>3, <1>6, <1>8 DEF Pointers
  <2> QED BY <2>2, <1>8 DEF Pointers
<1>11. g \in Above(f, p) /\ Above(f, p) \subseteq Node
  BY AboveFacts
<1>12. ASSUME NEW n \in Node
       PROVE  LoweredNode(h, f, p, v, n)
  <2>1. CASE n \notin Above(f, p)
    <3>1. k.left[n] = h.left[n] /\ k.right[n] = h.right[n]
      BY <2>1, <1>4 DEF InnerNode
    <3> QED BY <3>1, <2>1, <1>6, <1>7, <1>11 DEF LoweredNode
  <2>2. CASE n \in Above(f, p)
    <3> DEFINE x == InPlaceOf(p, s, h.left[n])
               y == InPlaceOf(p, s, h.right[n])
    <3>1. \/ k.left[n] = x /\ k.right[n] = y
          \/ k.left[n] = y /\ k.right[n] = x
      BY <2>2, InnerChildren
    <3>2. CASE n = g
      <4>1. (x = s /\ y = q) \/ (x = q /\ y = s)
        BY <3>2, <1>3 DEF InPlaceOf
      <4> HIDE DEF x, y
      <4>2. (k.left[g] = s /\ k.right[g] = q) \/ (k.left[g] = q /\ k.right[g] = s)
        BY <3>1, <3>2, <4>1
      <4>3. (v.left[g] = p /\ v.right[g] = q) \/ (v.left[g] = q /\ v.right[g] = p)
        BY <4>2, <1>3, <1>6, <1>7
      <4> QED BY <4>3, <3>2, <2>2, <1>3 DEF LoweredNode
    <3>3. CASE n # g
      <4>1. /\ h.left[n] \in DOMAIN f /\ h.right[n] \in DOMAIN f
            /\ AreChildren(f, h.left[n], h.right[n], n)
        BY <2>2, PathChildren
      <4>2. h.left[n] # p /\ h.right[n] # p
        <5>1. n \in DOMAIN f /\ ~IsTerminal(f, n)
          BY <2>2, <4>1 DEF Above, IsTerminal, AreChildren
        <5>2. h.parent[h.left[n]] = n /\ h.parent[h.right[n]] = n
          BY <5>1, <1>2, StoredChildren
        <5> QED BY <5>2, <3>3, <1>3
      <4>3. x = h.left[n] /\ y = h.right[n]
        BY <4>2 DEF InPlaceOf
      <4> HIDE DEF x, y
      <4>4. v.left[n] = k.left[n] /\ v.right[n] = k.right[n]
        BY <3>3, <1>6, <1>7
      <4> QED BY <2>2, <3>1, <4>3, <4>4 DEF LoweredNode
    <3> QED BY <3>2, <3>3
  <2> QED BY <2>1, <2>2
<1> QED BY <1>1, <1>6, <1>9, <1>10, <1>12 DEF v

(* ... and, with the labels and the order of the children, all of h but the roots. *)
LEMMA InnerRelabelled ==
  ASSUME NEW h, NEW f, NEW c, NEW p, NEW s, NEW g, NEW q, InnerEdge(h, f, c, p, s, g, q),
         NEW k, NEW left, NEW right, InnerDone(h, f, c, p, s, k, left, right),
         NEW v, v = Lowered(k, c, p, s),
         NEW w, w = SortChildren(MoreLabels(v, Above(f, p), f[c]), Above(f, p))
  PROVE  /\ w \in Heaps /\ w.parent = h.parent /\ w.sibling = h.sibling
         /\ w.left = h.left /\ w.right = h.right /\ w.terms = h.terms /\ w.roots = k.roots
         /\ w.labelToTerminal = h.labelToTerminal
         /\ w.terminalToLabel = h.terminalToLabel
<1> DEFINE U == Above(f, p)
           T == f[c]
           o == MoreLabels(v, U, T)
<1>1. /\ v \in Heaps /\ v.parent = h.parent /\ v.sibling = h.sibling
      /\ v.terms = k.terms /\ v.roots = k.roots
      /\ v.labelToTerminal = h.labelToTerminal
      /\ v.terminalToLabel = h.terminalToLabel
      /\ \A n \in Node : LoweredNode(h, f, p, v, n)
  BY InnerLowered
<1>2. /\ Edge(h, f, c, p, s) /\ Stores(h, f) /\ h \in Heaps /\ c \in DOMAIN f
  BY StoredForest, EdgeFacts DEF InnerEdge, Edge
<1>3. T \in SUBSET Label
  BY <1>2, StoredNode
<1>4. /\ U \in SUBSET Node /\ U \subseteq DOMAIN f /\ \A m \in U : T \subseteq f[m]
  BY AboveFacts
<1>5. ASSUME NEW n \in Node
      PROVE  k.terms[n] = IF n \in U THEN f[n] \ T ELSE h.terms[n]
  <2>1. InnerNode(h, f, c, p, s, g, q, k, n)
    BY InnerAt
  <2> QED BY <2>1 DEF InnerNode
<1> HIDE DEF U, T
<1>6. /\ o \in Heaps
      /\ o.parent = v.parent /\ o.sibling = v.sibling /\ o.left = v.left /\ o.right = v.right
      /\ o.roots = v.roots /\ o.labelToTerminal = v.labelToTerminal
      /\ o.terminalToLabel = v.terminalToLabel
  BY <1>1, <1>3, LabelFields
<1>7. o.terms = h.terms
  <2>1. h.terms \in [Node -> SUBSET Label] /\ o.terms \in [Node -> SUBSET Label]
    BY <1>2, <1>6, HeapFields
  <2>2. ASSUME NEW n \in Node
        PROVE  o.terms[n] = h.terms[n]
    <3>1. o.terms[n] = IF n \in U THEN v.terms[n] \union T ELSE v.terms[n]
      BY <1>1 DEF MoreLabels, Heaps
    <3>2. n \in U => h.terms[n] = f[n]
      BY <1>2, <1>4, StoredNode
    <3> HIDE DEF o
    <3> QED BY <3>1, <3>2, <1>1, <1>4, <1>5
  <2> HIDE DEF o
  <2> QED BY <2>1, <2>2
<1>8. w = SortChildren(o, U)
  BY DEF U, T
<1> HIDE DEF o
<1> DEFINE x == SortChildren(o, U)
<1>9. /\ x \in Heaps
      /\ x.parent = o.parent /\ x.sibling = o.sibling /\ x.terms = o.terms
      /\ x.roots = o.roots /\ x.labelToTerminal = o.labelToTerminal
      /\ x.terminalToLabel = o.terminalToLabel
      /\ \A m \in Node : m \notin U => x.left[m] = o.left[m] /\ x.right[m] = o.right[m]
  BY <1>6, SortFields
<1>10. ASSUME NEW n \in Node
       PROVE  x.left[n] = h.left[n] /\ x.right[n] = h.right[n]
  <2>1. LoweredNode(h, f, p, v, n)
    BY <1>1
  <2>2. CASE n \notin U
    <3> HIDE DEF x
    <3> QED BY <2>1, <2>2, <1>6, <1>9 DEF LoweredNode, U
  <2>3. CASE n \in U
    <3> DEFINE a == h.left[n]
               b == h.right[n]
    <3>1. /\ a \in DOMAIN f /\ b \in DOMAIN f /\ AreChildren(f, a, b, n)
          /\ Smallest(f[a]) < Smallest(f[b])
      BY <2>3, PathChildren DEF U
    <3>2. /\ a \in Node /\ b \in Node /\ h.terms[a] = f[a] /\ h.terms[b] = f[b]
          /\ f[a] # {} /\ f[b] # {} /\ f[a] \intersect f[b] = {}
          /\ Smallest(f[a]) \in Nat /\ Smallest(f[b]) \in Nat
      BY <3>1, <1>2, StoredNode DEF AreChildren
    <3>3. \/ o.left[n] = a /\ o.right[n] = b
          \/ o.left[n] = b /\ o.right[n] = a
      BY <2>1, <2>3, <1>6 DEF LoweredNode, U
    <3> HIDE DEF a, b
    <3>4. /\ o.left[n] \in Node /\ o.right[n] \in Node
          /\ o.terms[o.left[n]] # {} /\ o.terms[o.right[n]] # {}
          /\ o.terms[o.left[n]] \intersect o.terms[o.right[n]] = {}
      BY <3>2, <3>3, <1>7
    <3>5. /\ \/ x.left[n] = o.left[n] /\ x.right[n] = o.right[n]
             \/ x.left[n] = o.right[n] /\ x.right[n] = o.left[n]
          /\ Smallest(o.terms[x.left[n]]) < Smallest(o.terms[x.right[n]])
      BY <3>4, <2>3, <1>6, SortPair
    <3> HIDE DEF x
    <3>6. \/ x.left[n] = a /\ x.right[n] = b
          \/ x.left[n] = b /\ x.right[n] = a
      BY <3>3, <3>5
    <3>7. CASE x.left[n] = b /\ x.right[n] = a
      <4>1. Smallest(f[b]) < Smallest(f[a])
        BY <3>2, <3>5, <3>7, <1>7
      <4> QED BY <4>1, <3>1, <3>2 DEF a, b
    <3> QED BY <3>6, <3>7 DEF a, b
  <2> QED BY <2>2, <2>3
<1> HIDE DEF x
<1>11. x.left = h.left /\ x.right = h.right
  <2>1. h.left \in Pointers /\ h.right \in Pointers /\ x.left \in Pointers /\ x.right \in Pointers
    BY <1>2, <1>9, HeapFields
  <2> QED BY <2>1, <1>10 DEF Pointers
<1>12. w = x
  BY <1>8 DEF x
<1> QED BY <1>1, <1>6, <1>7, <1>9, <1>11, <1>12

(* The undo gives the heap of before. *)
LEMMA InnerCutUndone ==
  ASSUME NEW h, NEW f, NEW c, NEW p, NEW s, NEW g, NEW q, InnerEdge(h, f, c, p, s, g, q),
         NEW b, b.child = c, b.sibling = s, b.parent = p,
         b.leftIndex = DoDelete(h, EdgeAbove(h, c)).left,
         b.rightIndex = DoDelete(h, EdgeAbove(h, c)).right
  PROVE  UndoParentIsInner(DoDelete(h, EdgeAbove(h, c)).heap, b) = h
<1> DEFINE done == DoDelete(h, EdgeAbove(h, c))
           k == done.heap
           left == done.left
           right == done.right
           v == Lowered(k, c, p, s)
           w == SortChildren(MoreLabels(v, Above(f, p), f[c]), Above(f, p))
           u == UndoParentIsInner(k, b)
<1>1. InnerDone(h, f, c, p, s, k, left, right)
  BY InnerFields
<1>2. b.leftIndex = left /\ b.rightIndex = right
  OBVIOUS
<1> HIDE DEF done, k, left, right
<1>3. /\ Edge(h, f, c, p, s) /\ Stores(h, f) /\ h \in Heaps /\ NoCycle(h) /\ h.parent \in Pointers
      /\ Distinct(f) /\ Laminar(f) /\ c \in DOMAIN f /\ p \in DOMAIN f /\ c \in Node
  BY StoredForest, EdgeFacts, HeapFields DEF InnerEdge, Edge
<1>4. v \in Heaps /\ v.parent = h.parent /\ v.terms = k.terms
  BY <1>1, InnerLowered
<1>5. PathUp(v, p) = Above(f, p)
  <2>1. PathUp(v, p) = PathUp(h, p)
    BY <1>4, PathUpSame
  <2>2. PathUp(h, p) = Above(f, p)
    BY <1>3, PathUpIsAbove DEF Above
  <2> QED BY <2>1, <2>2
<1>6. v.terms[c] = f[c]
  <2>1. InnerNode(h, f, c, p, s, g, q, k, c)
    BY <1>1, <1>3, InnerAt
  <2>2. c \notin Above(f, p) /\ h.terms[c] = f[c]
    BY <1>3, AboveFacts, StoredNode
  <2> QED BY <2>1, <2>2, <1>4 DEF InnerNode
<1>7. /\ w \in Heaps /\ w.parent = h.parent /\ w.sibling = h.sibling
      /\ w.left = h.left /\ w.right = h.right /\ w.terms = h.terms /\ w.roots = k.roots
      /\ w.labelToTerminal = h.labelToTerminal
      /\ w.terminalToLabel = h.terminalToLabel
  BY <1>1, InnerRelabelled
<1>8. u = [w EXCEPT !.roots = RemoveAt(ReplaceAt(@, left, RootOfPath(w, p)), right)]
  <2>1. w = SortChildren(MoreLabels(v, PathUp(v, p), v.terms[c]), PathUp(v, p))
    BY <1>5, <1>6
  <2> HIDE DEF w, v
  <2> QED BY <2>1, <1>2 DEF UndoParentIsInner, v
<1> HIDE DEF w, v, u
<1>9. PICK r \in Roots(f) : f[p] \subseteq f[r] /\ RemoveAt(ReplaceAt(k.roots, left, r), right) = h.roots
  BY <1>1 DEF InnerDone
<1>10. RootOfPath(w, p) = r
  <2>1. w.parent \in Pointers /\ NoCycle(w) /\ \A m \in Above(f, p) : w.parent[m] = h.parent[m]
    BY <1>3, <1>7 DEF NoCycle
  <2>2. RootOfPath(w, p) \in Roots(f) /\ f[p] \subseteq f[RootOfPath(w, p)]
    BY <2>1, AbovePath
  <2>3. f[p] # {}
    BY <1>3 DEF Distinct
  <2> QED BY <2>2, <2>3, <1>3, <1>9, RootsApart
<1>11. u = [w EXCEPT !.roots = h.roots]
  BY <1>7, <1>8, <1>9, <1>10 DEF Heaps
<1>12. u = h
  <2>1. h.roots \in Seq(Node)
    BY <1>3, HeapFields
  <2>2. /\ u \in Heaps /\ u.parent = h.parent /\ u.sibling = h.sibling
        /\ u.left = h.left /\ u.right = h.right /\ u.terms = h.terms /\ u.roots = h.roots
        /\ u.labelToTerminal = h.labelToTerminal /\ u.terminalToLabel = h.terminalToLabel
    BY <2>1, <1>7, <1>11 DEF Heaps
  <2> QED BY <2>2, <1>3, HeapsEqual
<1> QED BY <1>12 DEF u, k, done

(* Cutting an edge stores the forest of the cut; *)
LEMMA CutStores ==
  ASSUME NEW h, NEW f, Stores(h, f), NEW c \in DOMAIN f, h.parent[c] # Nil
  PROVE  Stores(DoDelete(h, EdgeAbove(h, c)).heap, CutEdge(f, c, h.parent[c]))
<1> DEFINE p == h.parent[c]
           s == h.sibling[c]
<1>1. Edge(h, f, c, p, s)
  BY DEF Edge
<1> HIDE DEF p, s
<1>2. CASE p \in Roots(f)
  BY <1>1, <1>2, RootCutStores DEF p
<1>3. CASE p \notin Roots(f)
  <2>1. InnerEdge(h, f, c, p, s, h.parent[p], h.sibling[p])
    BY <1>1, <1>3 DEF InnerEdge
  <2> QED BY <2>1, InnerCutStores DEF p
<1> QED BY <1>2, <1>3

(* and what the action remembers brings back the heap of before. *)
CutRecorded(h, c, b) ==
  LET a == EdgeAbove(h, c)
      done == DoDelete(h, a)
  IN  /\ b.child = c /\ b.sibling = a.sibling /\ b.parent = a.parent
      /\ b.parentIsRoot = a.parentIsRoot
      /\ b.leftIndex = done.left /\ b.rightIndex = done.right

UndoCut(h, b) == IF b.parentIsRoot THEN UndoParentIsRoot(h, b) ELSE UndoParentIsInner(h, b)

LEMMA CutUndone ==
  ASSUME NEW h, NEW f, Stores(h, f), NEW c \in DOMAIN f, h.parent[c] # Nil,
         NEW b, CutRecorded(h, c, b)
  PROVE  UndoCut(DoDelete(h, EdgeAbove(h, c)).heap, b) = h
<1> DEFINE p == h.parent[c]
           s == h.sibling[c]
           a == EdgeAbove(h, c)
<1>1. Edge(h, f, c, p, s)
  BY DEF Edge
<1>2. a.sibling = s /\ a.parent = p
  BY DEF EdgeAbove
<1> HIDE DEF p, s, a
<1>3. /\ b.child = c /\ b.sibling = s /\ b.parent = p /\ b.parentIsRoot = a.parentIsRoot
      /\ b.leftIndex = DoDelete(h, EdgeAbove(h, c)).left
      /\ b.rightIndex = DoDelete(h, EdgeAbove(h, c)).right
  BY <1>2 DEF CutRecorded, a
<1>4. CASE p \in Roots(f)
  <2>1. a.parentIsRoot
    BY <1>1, <1>4, RootFields DEF a
  <2>2. UndoParentIsRoot(DoDelete(h, EdgeAbove(h, c)).heap, b) = h
    BY <1>1, <1>3, <1>4, RootCutUndone
  <2> QED BY <2>1, <2>2, <1>3 DEF UndoCut
<1>5. CASE p \notin Roots(f)
  <2>1. InnerEdge(h, f, c, p, s, h.parent[p], h.sibling[p])
    BY <1>1, <1>5 DEF InnerEdge
  <2>2. ~a.parentIsRoot
    BY <2>1, InnerRecord DEF a
  <2>3. UndoParentIsInner(DoDelete(h, EdgeAbove(h, c)).heap, b) = h
    BY <2>1, <1>3, InnerCutUndone
  <2> QED BY <2>2, <2>3, <1>3 DEF UndoCut
<1> QED BY <1>4, <1>5

-----------------------------------------------------------------------------
(* Collapsing a subtree.  The terminals below n: *)
TerminalsBelow(f, n) == {o \in Terminals(f) : f[o] \subseteq f[n]}

LEMMA TerminalsApart ==
  ASSUME NEW f, Distinct(f), Laminar(f), NEW o \in Terminals(f), NEW t \in Terminals(f),
         f[o] \intersect f[t] # {}
  PROVE  o = t
BY DEF Terminals, IsTerminal, Below, Laminar

LEMMA TerminalsOfLabels ==
  ASSUME NEW h, NEW f, Stores(h, f), NEW n \in DOMAIN f
  PROVE  /\ {h.labelToTerminal[x] : x \in f[n]} = TerminalsBelow(f, n)
         /\ \A o \in TerminalsBelow(f, n) : {x \in f[n] : h.labelToTerminal[x] = o} = f[o]
         /\ \A x \in Label : h.labelToTerminal[x] \in TerminalsBelow(f, n) <=> x \in f[n]
         /\ ~IsTerminal(f, n) => n \notin TerminalsBelow(f, n)
<1>1. Distinct(f) /\ Laminar(f) /\ LabelsFit(h, f) /\ Covers(f, Label)
  BY StoredForest
<1>2. f[n] \subseteq Label
  BY <1>1 DEF Covers
<1>3. ASSUME NEW x \in Label
      PROVE  h.labelToTerminal[x] \in Terminals(f) /\ x \in f[h.labelToTerminal[x]]
  BY <1>1 DEF LabelsFit
<1>4. ASSUME NEW x \in Label, NEW o \in Terminals(f), x \in f[o]
      PROVE  h.labelToTerminal[x] = o
  BY <1>1, <1>3, <1>4, TerminalsApart
<1>5. ASSUME NEW x \in f[n]
      PROVE  h.labelToTerminal[x] \in TerminalsBelow(f, n)
  <2> DEFINE t == h.labelToTerminal[x]
  <2>1. t \in Terminals(f) /\ x \in f[t]
    BY <1>2, <1>3
  <2>2. t \in DOMAIN f /\ ~Below(f, n, t)
    BY <2>1 DEF Terminals, IsTerminal
  <2>3. f[t] \subseteq f[n]
    BY <2>1, <2>2, <1>1 DEF Laminar, Below
  <2> QED BY <2>1, <2>3 DEF TerminalsBelow
<1>6. ASSUME NEW o \in TerminalsBelow(f, n)
      PROVE  /\ o \in {h.labelToTerminal[x] : x \in f[n]}
             /\ {x \in f[n] : h.labelToTerminal[x] = o} = f[o]
  <2>1. o \in Terminals(f) /\ f[o] \subseteq f[n] /\ o \in DOMAIN f /\ f[o] # {}
    BY <1>1 DEF TerminalsBelow, Terminals, Distinct
  <2>2. \A x \in f[o] : h.labelToTerminal[x] = o
    BY <2>1, <1>2, <1>4
  <2>3. \A x \in f[n] : h.labelToTerminal[x] = o => x \in f[o]
    BY <1>2, <1>3
  <2> QED BY <2>1, <2>2, <2>3
<1>7. ASSUME NEW x \in Label, h.labelToTerminal[x] \in TerminalsBelow(f, n)
      PROVE  x \in f[n]
  BY <1>3, <1>7 DEF TerminalsBelow
<1>8. ~IsTerminal(f, n) => n \notin TerminalsBelow(f, n)
  BY DEF TerminalsBelow, Terminals
<1>9. {h.labelToTerminal[x] : x \in f[n]} = TerminalsBelow(f, n)
  BY <1>5, <1>6
<1> QED BY <1>5, <1>6, <1>7, <1>8, <1>9

(* What the collapse of n makes of h, *)
Collapsed(h, f, n, k) ==
  /\ k \in Heaps /\ k.parent = h.parent /\ k.sibling = h.sibling
  /\ k.terms = h.terms /\ k.roots = h.roots
  /\ k.left = [h.left EXCEPT ![n] = Nil] /\ k.right = [h.right EXCEPT ![n] = Nil]
  /\ k.labelToTerminal = [x \in Label |-> IF x \in f[n] THEN n ELSE h.labelToTerminal[x]]
  /\ k.terminalToLabel = [m \in (Terminals(f) \ TerminalsBelow(f, n)) \union {n} |->
                            IF m = n THEN Smallest(f[n]) ELSE h.terminalToLabel[m]]

(* and what its action remembers. *)
CollapseRecorded(h, n, a) ==
  LET done == DoCollapse(h, n)
  IN  /\ a.label = Smallest(h.terms[n]) /\ a.left = h.left[n] /\ a.right = h.right[n]
      /\ a.labelTerminals = done.labelTerminals /\ a.terminalLabels = done.terminalLabels

LEMMA LabelMapTypes ==
  ASSUME NEW h, NEW f, Stores(h, f)
  PROVE  /\ h.terminalToLabel \in [Terminals(f) -> Label]
         /\ h.labelToTerminal \in [Label -> Node]
         /\ Terminals(f) \subseteq Node
<1>1. h \in Heaps /\ LabelsFit(h, f) /\ DOMAIN f \subseteq Node
  BY StoredForest
<1>2. h.terminalToLabel \in UNION {[S -> Label] : S \in SUBSET Node}
  BY <1>1, HeapFields
<1>3. PICK S \in SUBSET Node : h.terminalToLabel \in [S -> Label]
  BY <1>2
<1>4. S = Terminals(f)
  BY <1>1, <1>3 DEF LabelsFit
<1> QED BY <1>1, <1>3, <1>4, HeapFields DEF Terminals

LEMMA CollapseFields ==
  ASSUME NEW h, NEW f, Stores(h, f), NEW n \in DOMAIN f, ~IsTerminal(f, n)
  PROVE  /\ Collapsed(h, f, n, DoCollapse(h, n).heap)
         /\ DoCollapse(h, n).labelTerminals = [x \in f[n] |-> h.labelToTerminal[x]]
         /\ DoCollapse(h, n).terminalLabels =
              [o \in TerminalsBelow(f, n) |-> h.terminalToLabel[o]]
<1> DEFINE T == f[n]
           gone == TerminalsBelow(f, n)
           old == {o \in {h.labelToTerminal[x] : x \in T} :
                     /\ o \in DOMAIN h.terminalToLabel
                     /\ h.terminalToLabel[o] = Smallest({x \in T : h.labelToTerminal[x] = o})}
           kept == DOMAIN h.terminalToLabel \ {h.labelToTerminal[x] : x \in T}
           L == [h.left EXCEPT ![n] = Nil]
           R == [h.right EXCEPT ![n] = Nil]
           l2t == [x \in Label |-> IF x \in T THEN n ELSE h.labelToTerminal[x]]
           t2l == [m \in kept \union {n} |->
                     IF m \in kept THEN h.terminalToLabel[m] ELSE Smallest(T)]
           k == [h EXCEPT !.left = L, !.right = R, !.labelToTerminal = l2t,
                          !.terminalToLabel = t2l]
<1>1. h \in Heaps /\ LabelsFit(h, f) /\ Distinct(f)
  BY StoredForest
<1>2. n \in Node /\ h.terms[n] = T /\ T \in SUBSET Label /\ Smallest(T) \in T
  BY StoredNode
<1>3. /\ {h.labelToTerminal[x] : x \in T} = gone /\ n \notin gone
      /\ \A o \in gone : {x \in T : h.labelToTerminal[x] = o} = f[o]
  BY TerminalsOfLabels
<1>4. h.terminalToLabel \in [Terminals(f) -> Label] /\ h.labelToTerminal \in [Label -> Node]
      /\ Terminals(f) \subseteq Node
  BY LabelMapTypes
<1>5. n \notin Terminals(f) /\ \A o \in gone : o \in Terminals(f)
  BY DEF Terminals, TerminalsBelow
<1>6. old = gone
  <2>1. \A o \in gone : h.terminalToLabel[o] = Smallest(f[o])
    BY <1>1, <1>5 DEF LabelsFit
  <2>2. \A o \in gone : h.terminalToLabel[o] = Smallest({x \in T : h.labelToTerminal[x] = o})
    BY <2>1, <1>3
  <2> HIDE DEF T, gone
  <2> QED BY <2>2, <1>3, <1>4, <1>5
<1>7. kept = Terminals(f) \ gone
  BY <1>3, <1>4
<1>8. DoCollapse(h, n).heap = [h EXCEPT !.left[n] = Nil, !.right[n] = Nil,
                                        !.labelToTerminal = l2t, !.terminalToLabel = t2l]
  BY <1>1, <1>2 DEF DoCollapse, Heaps
<1>9. /\ DoCollapse(h, n).labelTerminals = [x \in T |-> h.labelToTerminal[x]]
      /\ DoCollapse(h, n).terminalLabels = [o \in old |-> h.terminalToLabel[o]]
  BY <1>2 DEF DoCollapse
<1>10. DoCollapse(h, n).heap = k
  BY <1>1, <1>8 DEF Heaps
<1>11. L \in Pointers /\ R \in Pointers
  BY <1>1, HeapFields DEF Pointers
<1>12. l2t \in [Label -> Node]
  BY <1>2, <1>4
<1>13. t2l \in UNION {[S -> Label] : S \in SUBSET Node}
  <2>1. kept \union {n} \in SUBSET Node
    BY <1>2, <1>4, <1>7
  <2>2. t2l \in [kept \union {n} -> Label]
    BY <1>2, <1>4, <1>7
  <2> HIDE DEF kept, t2l
  <2> QED BY <2>1, <2>2
<1>14. t2l = [m \in (Terminals(f) \ gone) \union {n} |->
                IF m = n THEN Smallest(T) ELSE h.terminalToLabel[m]]
  <2>1. n \notin kept
    BY <1>5, <1>7
  <2> HIDE DEF kept
  <2> QED BY <2>1, <1>7
<1> HIDE DEF L, R, l2t, t2l
<1>15. /\ k \in Heaps /\ k.parent = h.parent /\ k.sibling = h.sibling
       /\ k.terms = h.terms /\ k.roots = h.roots
       /\ k.left = L /\ k.right = R /\ k.labelToTerminal = l2t /\ k.terminalToLabel = t2l
  BY <1>1, <1>11, <1>12, <1>13 DEF Heaps
<1> HIDE DEF k
<1>16. Collapsed(h, f, n, k)
  BY <1>14, <1>15 DEF Collapsed, L, R, l2t
<1> QED BY <1>6, <1>9, <1>10, <1>16

LEMMA CollapseNodes ==
  ASSUME NEW f, NEW n, NEW e, e = CollapseSubtree(f, n)
  PROVE  /\ \A m : m \in DOMAIN e <=> m \in DOMAIN f /\ ~Below(f, m, n)
         /\ \A m \in DOMAIN e : e[m] = f[m]
BY DEF CollapseSubtree

(* Children come with their parent, unless it is n; parents with their children. *)
LEMMA CollapseKeepsChildren ==
  ASSUME NEW f, Distinct(f), Laminar(f), NEW n \in DOMAIN f,
         NEW e, e = CollapseSubtree(f, n), NEW m \in DOMAIN e, m # n,
         NEW a \in DOMAIN f, NEW b \in DOMAIN f, AreChildren(f, a, b, m)
  PROVE  a \in DOMAIN e /\ b \in DOMAIN e /\ AreChildren(e, a, b, m)
<1>1. /\ \A x : x \in DOMAIN e <=> x \in DOMAIN f /\ ~Below(f, x, n)
      /\ \A x \in DOMAIN e : e[x] = f[x]
  BY CollapseNodes
<1>2. m \in DOMAIN f /\ ~Below(f, m, n)
  BY <1>1
<1>3. AreChildren(f, b, a, m)
  BY ChildrenSwap
<1>4. IsParent(f, m, a) /\ IsParent(f, m, b)
  BY <1>2, <1>3, ChildrenHaveParent
<1>5. ASSUME NEW x \in DOMAIN f, IsParent(f, m, x)
      PROVE  ~Below(f, x, n)
  <2> SUFFICES ASSUME Below(f, x, n) PROVE FALSE
    OBVIOUS
  <2>1. f[m] \subseteq f[n]
    BY <1>5 DEF IsParent
  <2> QED BY <2>1, <1>2 DEF Below
<1>6. a \in DOMAIN e /\ b \in DOMAIN e
  BY <1>1, <1>4, <1>5
<1> QED BY <1>1, <1>6 DEF AreChildren, Below

LEMMA CollapseKeepsParent ==
  ASSUME NEW f, Distinct(f), Laminar(f), NEW n \in DOMAIN f,
         NEW e, e = CollapseSubtree(f, n), NEW m \in DOMAIN e,
         NEW s \in DOMAIN f, NEW g \in DOMAIN f, AreChildren(f, m, s, g)
  PROVE  g \in DOMAIN e /\ s \in DOMAIN e /\ AreChildren(e, m, s, g)
<1>1. /\ \A x : x \in DOMAIN e <=> x \in DOMAIN f /\ ~Below(f, x, n)
      /\ \A x \in DOMAIN e : e[x] = f[x]
  BY CollapseNodes
<1>2. m \in DOMAIN f /\ ~Below(f, m, n) /\ f[m] \subseteq f[g] /\ m # g /\ f[m] # f[g]
  BY <1>1 DEF AreChildren, Below, Distinct
<1>3. g # n /\ ~Below(f, g, n)
  BY <1>2 DEF Below
<1>4. g \in DOMAIN e
  BY <1>1, <1>3
<1> QED BY <1>2, <1>3, <1>4, CollapseKeepsChildren

LEMMA CollapseRoots ==
  ASSUME NEW f, Distinct(f), NEW n \in DOMAIN f, NEW e, e = CollapseSubtree(f, n)
  PROVE  Roots(e) = Roots(f)
<1>1. /\ \A x : x \in DOMAIN e <=> x \in DOMAIN f /\ ~Below(f, x, n)
      /\ \A x \in DOMAIN e : e[x] = f[x]
  BY CollapseNodes
<1>2. n \in DOMAIN e
  BY <1>1 DEF Below
<1>3. ASSUME NEW m \in Roots(f)
      PROVE  m \in Roots(e)
  BY <1>1 DEF Roots, IsRoot, Below
<1>4. ASSUME NEW m \in Roots(e)
      PROVE  m \in Roots(f)
  <2>1. m \in DOMAIN e /\ m \in DOMAIN f /\ ~Below(f, m, n)
    BY <1>1 DEF Roots
  <2>2. ASSUME NEW x \in DOMAIN f, Below(f, m, x)
        PROVE  FALSE
    <3>1. CASE Below(f, x, n)
      <4>1. f[m] \subseteq f[n] /\ m # n
        BY <2>2, <3>1 DEF Below, Distinct
      <4> QED BY <4>1, <2>1 DEF Below
    <3>2. CASE ~Below(f, x, n)
      <4>1. x \in DOMAIN e
        BY <3>2, <1>1
      <4>2. Below(e, m, x)
        BY <4>1, <2>1, <2>2, <1>1 DEF Below
      <4> QED BY <4>1, <4>2 DEF Roots, IsRoot
    <3> QED BY <3>1, <3>2
  <2> QED BY <2>1, <2>2 DEF Roots, IsRoot
<1> QED BY <1>3, <1>4

LEMMA CollapseTerminals ==
  ASSUME NEW f, Distinct(f), Laminar(f), Binary(f), NEW n \in DOMAIN f,
         NEW e, e = CollapseSubtree(f, n)
  PROVE  /\ n \in DOMAIN e /\ IsTerminal(e, n)
         /\ \A m \in DOMAIN e : m # n => (IsTerminal(e, m) <=> IsTerminal(f, m))
         /\ ~IsTerminal(f, n) => Terminals(e) = (Terminals(f) \ TerminalsBelow(f, n)) \union {n}
<1>1. /\ \A x : x \in DOMAIN e <=> x \in DOMAIN f /\ ~Below(f, x, n)
      /\ \A x \in DOMAIN e : e[x] = f[x]
  BY CollapseNodes
<1>2. n \in DOMAIN e /\ IsTerminal(e, n)
  BY <1>1 DEF Below, IsTerminal
<1>3. ASSUME NEW m \in DOMAIN e, m # n
      PROVE  IsTerminal(e, m) <=> IsTerminal(f, m)
  <2>1. m \in DOMAIN f
    BY <1>1
  <2>2. IsTerminal(f, m) => IsTerminal(e, m)
    BY <1>1 DEF IsTerminal, Below
  <2>3. ASSUME ~IsTerminal(f, m)
        PROVE  ~IsTerminal(e, m)
    <3>1. PICK a \in DOMAIN f, b \in DOMAIN f : AreChildren(f, a, b, m)
      BY <2>1, <2>3 DEF Binary
    <3>2. a \in DOMAIN e /\ AreChildren(e, a, b, m)
      BY <3>1, <1>3, CollapseKeepsChildren
    <3> QED BY <3>2 DEF AreChildren, IsTerminal
  <2> QED BY <2>2, <2>3
<1>4. ASSUME ~IsTerminal(f, n)
      PROVE  Terminals(e) = (Terminals(f) \ TerminalsBelow(f, n)) \union {n}
  <2>1. ASSUME NEW m \in Terminals(e), m # n
        PROVE  m \in Terminals(f) \ TerminalsBelow(f, n)
    <3>1. m \in DOMAIN e /\ m \in DOMAIN f /\ ~Below(f, m, n) /\ IsTerminal(f, m)
      BY <2>1, <1>1, <1>3 DEF Terminals
    <3> QED BY <3>1, <2>1 DEF Terminals, TerminalsBelow, Below
  <2>2. ASSUME NEW m \in Terminals(f), m \notin TerminalsBelow(f, n)
        PROVE  m \in Terminals(e)
    <3>1. m \in DOMAIN f /\ IsTerminal(f, m) /\ ~Below(f, m, n) /\ m # n
      BY <2>2, <1>4 DEF Terminals, TerminalsBelow, Below
    <3> QED BY <3>1, <1>1, <1>3 DEF Terminals
  <2> QED BY <2>1, <2>2, <1>2 DEF Terminals
<1> QED BY <1>2, <1>3, <1>4

(* Collapsing a subtree stores the forest with n for a terminal. *)
LEMMA CollapseStores ==
  ASSUME NEW h, NEW f, Stores(h, f), NEW n \in DOMAIN f, ~IsTerminal(f, n)
  PROVE  Stores(DoCollapse(h, n).heap, CollapseSubtree(f, n))
<1> DEFINE k == DoCollapse(h, n).heap
           e == CollapseSubtree(f, n)
<1>1. Collapsed(h, f, n, k)
  BY CollapseFields
<1> HIDE DEF k
<1>2. /\ k \in Heaps /\ k.parent = h.parent /\ k.sibling = h.sibling
      /\ k.terms = h.terms /\ k.roots = h.roots
      /\ k.left = [h.left EXCEPT ![n] = Nil] /\ k.right = [h.right EXCEPT ![n] = Nil]
      /\ k.labelToTerminal = [x \in Label |-> IF x \in f[n] THEN n ELSE h.labelToTerminal[x]]
      /\ k.terminalToLabel = [m \in (Terminals(f) \ TerminalsBelow(f, n)) \union {n} |->
                            IF m = n THEN Smallest(f[n]) ELSE h.terminalToLabel[m]]
  BY <1>1 DEF Collapsed
<1>3. /\ h \in Heaps /\ NoCycle(h) /\ DOMAIN f \subseteq Node /\ WellFormed(f, Label)
      /\ Distinct(f) /\ Laminar(f) /\ Binary(f) /\ LabelsFit(h, f)
      /\ Range(h.roots) = Roots(f) /\ Ascending(h.terms, h.roots)
  BY StoredForest
<1>4. /\ \A x : x \in DOMAIN e <=> x \in DOMAIN f /\ ~Below(f, x, n)
      /\ \A x \in DOMAIN e : e[x] = f[x]
  BY CollapseNodes
<1>5. /\ n \in DOMAIN e /\ IsTerminal(e, n)
      /\ \A m \in DOMAIN e : m # n => (IsTerminal(e, m) <=> IsTerminal(f, m))
      /\ Terminals(e) = (Terminals(f) \ TerminalsBelow(f, n)) \union {n}
  BY <1>3, CollapseTerminals
<1>6. Roots(e) = Roots(f)
  BY <1>3, CollapseRoots
<1>7. WellFormed(e, Label)
  BY <1>3, CollapseWellFormed
<1>8. Distinct(e) /\ Laminar(e)
  BY <1>7 DEF WellFormed
<1>9. e = [m \in DOMAIN e |-> k.terms[m]]
  <2>1. e = [m \in DOMAIN e |-> e[m]]
    BY DEF CollapseSubtree
  <2>2. \A m \in DOMAIN e : e[m] = k.terms[m]
    BY <1>2, <1>4, StoredNode
  <2> HIDE DEF e
  <2> QED BY <2>1, <2>2
<1>10. ASSUME NEW m \in DOMAIN e
       PROVE  ParentFits(k, e, m)
  <2>1. m \in DOMAIN f
    BY <1>4
  <2>2. CASE IsRoot(f, m)
    <3>1. h.parent[m] = Nil /\ h.sibling[m] = Nil
      BY <2>1, <2>2, StoredParent
    <3>2. IsRoot(e, m)
      BY <2>1, <2>2, <1>6 DEF Roots
    <3> QED BY <3>1, <3>2, <1>2 DEF ParentFits
  <2>3. CASE ~IsRoot(f, m)
    <3> DEFINE g == h.parent[m]
               s == h.sibling[m]
    <3>1. g \in DOMAIN f /\ s \in DOMAIN f /\ AreChildren(f, m, s, g)
      BY <2>1, <2>3, StoredParent
    <3> HIDE DEF g, s, e
    <3>2. g \in DOMAIN e /\ s \in DOMAIN e /\ AreChildren(e, m, s, g)
      BY <3>1, <1>3, CollapseKeepsParent DEF e
    <3>3. IsParent(e, g, m) /\ ~IsRoot(e, m)
      BY <3>2, <1>8, ChildrenHaveParent DEF IsRoot, AreChildren
    <3> QED BY <3>2, <3>3, <1>2 DEF ParentFits, g, s
  <2> QED BY <2>2, <2>3
<1>11. ASSUME NEW m \in DOMAIN e
       PROVE  ChildrenFit(k, e, m)
  <2>1. m \in DOMAIN f /\ m \in Node /\ h.left \in Pointers /\ h.right \in Pointers
    BY <1>3, <1>4, HeapFields
  <2>2. /\ k.left[m] = IF m = n THEN Nil ELSE h.left[m]
        /\ k.right[m] = IF m = n THEN Nil ELSE h.right[m]
    BY <2>1, <1>2 DEF Pointers
  <2>3. CASE m = n
    BY <2>2, <2>3, <1>5 DEF ChildrenFit
  <2>4. CASE m # n /\ IsTerminal(f, m)
    <3>1. h.left[m] = Nil /\ h.right[m] = Nil
      BY <2>1, <2>4, StoredChildren
    <3> QED BY <3>1, <2>2, <2>4, <1>5 DEF ChildrenFit
  <2>5. CASE m # n /\ ~IsTerminal(f, m)
    <3> DEFINE a == h.left[m]
               b == h.right[m]
    <3>1. /\ a \in DOMAIN f /\ b \in DOMAIN f /\ AreChildren(f, a, b, m)
          /\ Smallest(f[a]) < Smallest(f[b])
      BY <2>1, <2>5, StoredChildren
    <3> HIDE DEF a, b, e
    <3>2. a \in DOMAIN e /\ b \in DOMAIN e /\ AreChildren(e, a, b, m)
      BY <3>1, <2>5, <1>3, CollapseKeepsChildren DEF e
    <3> QED BY <3>1, <3>2, <2>2, <2>5, <1>4, <1>5 DEF ChildrenFit, a, b
  <2> QED BY <2>3, <2>4, <2>5
<1>12. RootsFit(k, e)
  BY <1>2, <1>3, <1>6 DEF RootsFit, Ascending
<1>13. LabelsFit(k, e)
  <2>1. DOMAIN k.terminalToLabel = Terminals(e)
    BY <1>2, <1>5
  <2>2. ASSUME NEW m \in Terminals(e)
        PROVE  k.terminalToLabel[m] = Smallest(e[m])
    <3>1. e[m] = f[m]
      BY <1>4 DEF Terminals
    <3> HIDE DEF e
    <3> QED BY <3>1, <1>2, <1>3, <1>5 DEF LabelsFit
  <2>3. ASSUME NEW x \in Label
        PROVE  k.labelToTerminal[x] \in Terminals(e) /\ x \in e[k.labelToTerminal[x]]
    <3>1. CASE x \in f[n]
      BY <3>1, <1>2, <1>4, <1>5
    <3>2. CASE x \notin f[n]
      <4> DEFINE t == h.labelToTerminal[x]
      <4>1. t \in Terminals(f) /\ x \in f[t]
        BY <1>3 DEF LabelsFit
      <4>2. t \notin TerminalsBelow(f, n)
        BY <3>2, TerminalsOfLabels
      <4>3. t \in Terminals(e)
        BY <4>1, <4>2, <1>5
      <4>4. e[t] = f[t]
        BY <4>3, <1>4 DEF Terminals
      <4>5. k.labelToTerminal[x] = t
        BY <3>2, <1>2
      <4> QED BY <4>1, <4>3, <4>4, <4>5
    <3> QED BY <3>1, <3>2
  <2> QED BY <2>1, <2>2, <2>3 DEF LabelsFit
<1>14. NoCycle(k)
  BY <1>2, <1>3 DEF NoCycle
<1>15. DOMAIN e \subseteq Node
  BY <1>3, <1>4
<1> HIDE DEF e
<1>16. Stores(k, e)
  BY <1>2, <1>7, <1>9, <1>10, <1>11, <1>12, <1>13, <1>14, <1>15 DEF Stores
<1> QED BY <1>16 DEF k, e

-----------------------------------------------------------------------------
(* Undoing a collapse: of k, the subtree of n in h comes back. *)
Expanded(k, h, f, n, w) ==
  /\ w \in Heaps /\ w.parent = k.parent /\ w.sibling = k.sibling
  /\ w.terms = k.terms /\ w.roots = k.roots
  /\ w.left = [k.left EXCEPT ![n] = h.left[n]] /\ w.right = [k.right EXCEPT ![n] = h.right[n]]
  /\ w.labelToTerminal =
       [x \in Label |-> IF x \in f[n] THEN h.labelToTerminal[x] ELSE k.labelToTerminal[x]]
  /\ w.terminalToLabel =
       [m \in (DOMAIN k.terminalToLabel \union TerminalsBelow(f, n)) \ {n} |->
          IF m \in TerminalsBelow(f, n) THEN h.terminalToLabel[m] ELSE k.terminalToLabel[m]]

LEMMA ExpandFields ==
  ASSUME NEW h, NEW f, Stores(h, f), NEW n \in DOMAIN f, ~IsTerminal(f, n),
         NEW a, CollapseRecorded(h, n, a),
         NEW k \in Heaps, k.labelToTerminal[a.label] = n,
         k.parent[h.left[n]] = n, k.parent[h.right[n]] = n
  PROVE  Expanded(k, h, f, n, UndoCollapse(k, a))
<1> DEFINE gone == TerminalsBelow(f, n)
           K == DOMAIN k.terminalToLabel
           x == h.left[n]
           y == h.right[n]
           L == [k.left EXCEPT ![n] = x]
           R == [k.right EXCEPT ![n] = y]
           l2t == [z \in Label |-> IF z \in f[n] THEN h.labelToTerminal[z]
                                   ELSE k.labelToTerminal[z]]
           t2l == [m \in (K \union gone) \ {n} |->
                     IF m \in gone THEN h.terminalToLabel[m] ELSE k.terminalToLabel[m]]
           w == UndoCollapse(k, a)
<1>1. /\ DoCollapse(h, n).labelTerminals = [z \in f[n] |-> h.labelToTerminal[z]]
      /\ DoCollapse(h, n).terminalLabels = [o \in gone |-> h.terminalToLabel[o]]
  BY CollapseFields
<1>2. /\ a.left = x /\ a.right = y
      /\ a.labelTerminals = [z \in f[n] |-> h.labelToTerminal[z]]
      /\ a.terminalLabels = [o \in gone |-> h.terminalToLabel[o]]
  BY <1>1 DEF CollapseRecorded
<1>3. x \in DOMAIN f /\ y \in DOMAIN f
  BY StoredChildren
<1>4. n \in Node /\ x \in Node /\ y \in Node /\ f[n] \in SUBSET Label
  BY <1>3, StoredNode
<1>5. /\ h.terminalToLabel \in [Terminals(f) -> Label] /\ h.labelToTerminal \in [Label -> Node]
      /\ Terminals(f) \subseteq Node /\ gone \subseteq Terminals(f)
  BY LabelMapTypes DEF TerminalsBelow
<1>6. PICK S \in SUBSET Node : k.terminalToLabel \in [S -> Label]
  <2>1. k.terminalToLabel \in UNION {[S -> Label] : S \in SUBSET Node}
    BY HeapFields
  <2> QED BY <2>1
<1>7. /\ k.parent \in Pointers /\ k.left \in Pointers /\ k.right \in Pointers
      /\ k.labelToTerminal \in [Label -> Node]
  BY HeapFields
<1> HIDE DEF gone
<1>8. [[k.parent EXCEPT ![x] = n] EXCEPT ![y] = n] = k.parent
  BY <1>4, <1>7 DEF Pointers
<1>9. [m \in DOMAIN [m \in K \union DOMAIN a.terminalLabels |->
                       IF m \in DOMAIN a.terminalLabels THEN a.terminalLabels[m]
                       ELSE k.terminalToLabel[m]] \ {n} |->
         [m1 \in K \union DOMAIN a.terminalLabels |->
            IF m1 \in DOMAIN a.terminalLabels THEN a.terminalLabels[m1]
            ELSE k.terminalToLabel[m1]][m]] = t2l
  BY <1>2
<1>10. [z \in Label |-> IF z \in DOMAIN a.labelTerminals THEN a.labelTerminals[z]
                        ELSE k.labelToTerminal[z]] = l2t
  BY <1>2
<1>11. w = [k EXCEPT !.left = L, !.right = R, !.labelToTerminal = l2t, !.terminalToLabel = t2l]
  <2>1. w = [k EXCEPT !.left[n] = x, !.right[n] = y, !.parent[x] = n, !.parent[y] = n,
                      !.labelToTerminal = l2t, !.terminalToLabel = t2l]
    <3> HIDE DEF l2t, t2l, x, y
    <3> QED BY <1>2, <1>9, <1>10 DEF UndoCollapse
  <2>2. w = [k EXCEPT !.left = L, !.right = R,
                      !.parent = [[k.parent EXCEPT ![x] = n] EXCEPT ![y] = n],
                      !.labelToTerminal = l2t, !.terminalToLabel = t2l]
    <3> HIDE DEF l2t, t2l, w, x, y
    <3> QED BY <2>1 DEF Heaps
  <2>3. w = [k EXCEPT !.left = L, !.right = R, !.parent = k.parent,
                      !.labelToTerminal = l2t, !.terminalToLabel = t2l]
    BY <2>2, <1>8
  <2> HIDE DEF l2t, t2l, w, x, y, L, R
  <2> QED BY <2>3 DEF Heaps
<1>12. L \in Pointers /\ R \in Pointers
  BY <1>4, <1>7 DEF Pointers
<1>13. l2t \in [Label -> Node]
  BY <1>5, <1>7
<1>14. t2l \in UNION {[S1 -> Label] : S1 \in SUBSET Node}
  <2>1. K = S
    BY <1>6
  <2>2. (K \union gone) \ {n} \in SUBSET Node
    BY <2>1, <1>5
  <2>3. t2l \in [(K \union gone) \ {n} -> Label]
    BY <2>1, <1>5, <1>6
  <2> HIDE DEF t2l, K
  <2> QED BY <2>2, <2>3
<1> HIDE DEF l2t, t2l, w, L, R
<1>15. /\ w \in Heaps /\ w.parent = k.parent /\ w.sibling = k.sibling
       /\ w.terms = k.terms /\ w.roots = k.roots
       /\ w.left = L /\ w.right = R /\ w.labelToTerminal = l2t /\ w.terminalToLabel = t2l
  BY <1>11, <1>12, <1>13, <1>14 DEF Heaps
<1>16. Expanded(k, h, f, n, w)
  BY <1>15 DEF Expanded, L, R, l2t, t2l, gone
<1> QED BY <1>16 DEF w

(* The action done last: everything is as it was. *)
LEMMA CollapseUndone ==
  ASSUME NEW h, NEW f, Stores(h, f), NEW n \in DOMAIN f, ~IsTerminal(f, n),
         NEW a, CollapseRecorded(h, n, a)
  PROVE  UndoCollapse(DoCollapse(h, n).heap, a) = h
<1> DEFINE k == DoCollapse(h, n).heap
           w == UndoCollapse(k, a)
           gone == TerminalsBelow(f, n)
<1>1. Collapsed(h, f, n, k)
  BY CollapseFields
<1> HIDE DEF k
<1>2. /\ k \in Heaps /\ k.parent = h.parent /\ k.sibling = h.sibling
      /\ k.terms = h.terms /\ k.roots = h.roots
      /\ k.left = [h.left EXCEPT ![n] = Nil] /\ k.right = [h.right EXCEPT ![n] = Nil]
      /\ k.labelToTerminal = [x \in Label |-> IF x \in f[n] THEN n ELSE h.labelToTerminal[x]]
      /\ k.terminalToLabel = [m \in (Terminals(f) \ gone) \union {n} |->
                            IF m = n THEN Smallest(f[n]) ELSE h.terminalToLabel[m]]
  BY <1>1 DEF Collapsed
<1>3. h \in Heaps /\ h.left \in Pointers /\ h.right \in Pointers
  BY StoredForest, HeapFields
<1>4. n \in Node /\ h.terms[n] = f[n] /\ f[n] \in SUBSET Label /\ Smallest(f[n]) \in f[n]
  BY StoredNode
<1>5. /\ h.terminalToLabel \in [Terminals(f) -> Label] /\ h.labelToTerminal \in [Label -> Node]
      /\ gone \subseteq Terminals(f) /\ n \notin Terminals(f)
  BY LabelMapTypes DEF TerminalsBelow, Terminals
<1>6. h.parent[h.left[n]] = n /\ h.parent[h.right[n]] = n
  BY StoredChildren
<1>7. a.label = Smallest(f[n])
  BY <1>4 DEF CollapseRecorded
<1>8. k.labelToTerminal[a.label] = n
  BY <1>2, <1>4, <1>7
<1>9. Expanded(k, h, f, n, w)
  BY <1>2, <1>6, <1>8, ExpandFields
<1> HIDE DEF w, gone
<1>10. /\ w \in Heaps /\ w.parent = h.parent /\ w.sibling = h.sibling
       /\ w.terms = h.terms /\ w.roots = h.roots
       /\ w.left = [k.left EXCEPT ![n] = h.left[n]]
       /\ w.right = [k.right EXCEPT ![n] = h.right[n]]
       /\ w.labelToTerminal =
            [x \in Label |-> IF x \in f[n] THEN h.labelToTerminal[x] ELSE k.labelToTerminal[x]]
       /\ w.terminalToLabel =
            [m \in (DOMAIN k.terminalToLabel \union gone) \ {n} |->
               IF m \in gone THEN h.terminalToLabel[m] ELSE k.terminalToLabel[m]]
  BY <1>2, <1>9 DEF Expanded, gone
<1>11. w.left = h.left /\ w.right = h.right
  BY <1>2, <1>3, <1>4, <1>10 DEF Pointers
<1>12. w.labelToTerminal = h.labelToTerminal
  <2>1. \A x \in Label : (IF x \in f[n] THEN h.labelToTerminal[x] ELSE k.labelToTerminal[x])
                           = h.labelToTerminal[x]
    BY <1>2
  <2> QED BY <2>1, <1>5, <1>10
<1>13. w.terminalToLabel = h.terminalToLabel
  <2>1. (DOMAIN k.terminalToLabel \union gone) \ {n} = Terminals(f)
    BY <1>2, <1>5
  <2>2. \A m \in Terminals(f) :
          (IF m \in gone THEN h.terminalToLabel[m] ELSE k.terminalToLabel[m])
            = h.terminalToLabel[m]
    BY <1>2, <1>5
  <2> QED BY <2>1, <2>2, <1>5, <1>10
<1>14. w = h
  BY <1>3, <1>10, <1>11, <1>12, <1>13, HeapsEqual
<1> QED BY <1>14 DEF w, k

(* The nodes that are in no tree while n is collapsed. *)
Hidden(f, n) == {m \in DOMAIN f : Below(f, m, n)}

(* n is a terminal of g that was collapsed in the forest f. *)
Expandable(g, f, n) ==
  /\ WellFormed(g, Label) /\ WellFormed(f, Label)
  /\ n \in DOMAIN g /\ IsTerminal(g, n) /\ n \in DOMAIN f /\ ~IsTerminal(f, n)
  /\ g[n] = f[n] /\ Hidden(f, n) \intersect DOMAIN g = {}

(* Its nodes, when the subtree is back. *)
ExpandedNodes(g, f, n, e) ==
  /\ DOMAIN e = DOMAIN g \union Hidden(f, n)
  /\ \A m \in DOMAIN g : m \notin Hidden(f, n) /\ e[m] = g[m]
  /\ \A m \in Hidden(f, n) :
       /\ m \in DOMAIN f /\ m # n /\ m \notin DOMAIN g /\ e[m] = f[m]
       /\ e[m] \subseteq g[n] /\ e[m] # g[n] /\ e[m] # {}
  /\ Distinct(e) /\ Laminar(e) /\ WellFormed(e, Label)

LEMMA ExpandNodes ==
  ASSUME NEW g, NEW f, NEW n, Expandable(g, f, n)
  PROVE  ExpandedNodes(g, f, n, ExpandSubtree(g, f, n))
<1> DEFINE e == ExpandSubtree(g, f, n)
<1>1. /\ WellFormed(g, Label) /\ WellFormed(f, Label)
      /\ n \in DOMAIN g /\ IsTerminal(g, n) /\ n \in DOMAIN f /\ ~IsTerminal(f, n)
      /\ g[n] = f[n] /\ \A m \in DOMAIN f : Below(f, m, n) => m \notin DOMAIN g
  BY DEF Expandable, Hidden
<1>2. WellFormed(e, Label)
  BY <1>1, ExpandWellFormed
<1>3. /\ DOMAIN e = DOMAIN g \union Hidden(f, n)
      /\ \A m \in DOMAIN g : e[m] = g[m]
      /\ \A m \in Hidden(f, n) : m \notin DOMAIN g => e[m] = f[m]
  BY DEF ExpandSubtree, Hidden
<1>4. ASSUME NEW m \in Hidden(f, n)
      PROVE  /\ m \in DOMAIN f /\ m # n /\ m \notin DOMAIN g
             /\ f[m] \subseteq g[n] /\ f[m] # g[n] /\ f[m] # {}
  BY <1>1 DEF Hidden, Below, WellFormed, Distinct
<1>5. Distinct(e) /\ Laminar(e)
  BY <1>2 DEF WellFormed
<1> HIDE DEF e
<1>6. ExpandedNodes(g, f, n, e)
  BY <1>2, <1>3, <1>4, <1>5 DEF ExpandedNodes
<1> QED BY <1>6 DEF e

LEMMA ExpandRoots ==
  ASSUME NEW g, NEW f, NEW n, Expandable(g, f, n), NEW e, e = ExpandSubtree(g, f, n)
  PROVE  /\ \A m \in DOMAIN g : IsRoot(e, m) <=> IsRoot(g, m)
         /\ Roots(e) = Roots(g)
<1>1. /\ DOMAIN e = DOMAIN g \union Hidden(f, n)
      /\ \A m \in DOMAIN g : m \notin Hidden(f, n) /\ e[m] = g[m]
      /\ \A m \in Hidden(f, n) :
           m \in DOMAIN f /\ m # n /\ m \notin DOMAIN g /\ e[m] \subseteq g[n] /\ e[m] # g[n]
  <2>1. ExpandedNodes(g, f, n, e)
    BY ExpandNodes
  <2> QED BY <2>1 DEF ExpandedNodes
<1>2. n \in DOMAIN g /\ IsTerminal(g, n) /\ Distinct(g)
  BY DEF Expandable, WellFormed
<1>3. ASSUME NEW m \in DOMAIN g
      PROVE  IsRoot(e, m) <=> IsRoot(g, m)
  <2>1. IsRoot(e, m) => IsRoot(g, m)
    BY <1>1 DEF IsRoot, Below
  <2>2. ASSUME IsRoot(g, m), NEW x \in Hidden(f, n), Below(e, m, x)
        PROVE  FALSE
    <3>1. g[m] \subseteq g[n] /\ g[m] # g[n]
      BY <2>2, <1>1 DEF Below
    <3>2. Below(g, m, n)
      BY <3>1 DEF Below
    <3> QED BY <3>2, <1>2 DEF IsTerminal
  <2>3. IsRoot(g, m) => IsRoot(e, m)
    BY <2>2, <1>1 DEF IsRoot, Below
  <2> QED BY <2>1, <2>3
<1>4. ASSUME NEW m \in Hidden(f, n)
      PROVE  ~IsRoot(e, m)
  <2>1. Below(e, m, n) /\ n \in DOMAIN e
    BY <1>1, <1>2 DEF Below
  <2> QED BY <2>1 DEF IsRoot
<1> QED BY <1>1, <1>3, <1>4 DEF Roots

LEMMA ExpandTerminals ==
  ASSUME NEW g, NEW f, NEW n, Expandable(g, f, n), NEW e, e = ExpandSubtree(g, f, n)
  PROVE  /\ \A m \in DOMAIN g : m # n => (IsTerminal(e, m) <=> IsTerminal(g, m))
         /\ ~IsTerminal(e, n)
         /\ \A m \in Hidden(f, n) : IsTerminal(e, m) <=> IsTerminal(f, m)
         /\ Terminals(e) = (Terminals(g) \ {n}) \union TerminalsBelow(f, n)
<1>1. /\ DOMAIN e = DOMAIN g \union Hidden(f, n)
      /\ \A m \in DOMAIN g : m \notin Hidden(f, n) /\ e[m] = g[m]
      /\ \A m \in Hidden(f, n) :
           /\ m \in DOMAIN f /\ m # n /\ m \notin DOMAIN g /\ e[m] = f[m]
           /\ e[m] \subseteq g[n] /\ e[m] # g[n] /\ e[m] # {}
  <2>1. ExpandedNodes(g, f, n, e)
    BY ExpandNodes
  <2> QED BY <2>1 DEF ExpandedNodes
<1>2. /\ n \in DOMAIN g /\ IsTerminal(g, n) /\ Distinct(g) /\ Laminar(g)
      /\ n \in DOMAIN f /\ ~IsTerminal(f, n) /\ g[n] = f[n] /\ Distinct(f)
  BY DEF Expandable, WellFormed
<1>3. ASSUME NEW m \in DOMAIN g, m # n
      PROVE  IsTerminal(e, m) <=> IsTerminal(g, m)
  <2>1. IsTerminal(e, m) => IsTerminal(g, m)
    BY <1>1 DEF IsTerminal, Below
  <2>2. ASSUME IsTerminal(g, m), NEW x \in Hidden(f, n), Below(e, x, m)
        PROVE  FALSE
    <3>1. g[m] \intersect g[n] # {}
      BY <2>2, <1>1 DEF Below
    <3> QED BY <3>1, <2>2, <1>2, <1>3, TerminalsApart DEF Terminals
  <2>3. IsTerminal(g, m) => IsTerminal(e, m)
    BY <2>2, <1>1 DEF IsTerminal, Below
  <2> QED BY <2>1, <2>3
<1>4. ~IsTerminal(e, n)
  <2>1. PICK x \in DOMAIN f : Below(f, x, n)
    BY <1>2 DEF IsTerminal
  <2>2. x \in Hidden(f, n) /\ Below(e, x, n)
    BY <2>1, <1>1, <1>2 DEF Hidden, Below
  <2> QED BY <2>2, <1>1 DEF IsTerminal
<1>5. ASSUME NEW m \in Hidden(f, n)
      PROVE  IsTerminal(e, m) <=> IsTerminal(f, m)
  <2>1. ASSUME NEW x \in DOMAIN f, Below(f, x, m)
        PROVE  x \in DOMAIN e /\ Below(e, x, m)
    <3>1. Below(f, x, n)
      BY <2>1, <1>1, <1>2 DEF Below, Distinct
    <3> QED BY <3>1, <2>1, <1>1 DEF Hidden, Below
  <2>2. ASSUME NEW x \in DOMAIN e, Below(e, x, m)
        PROVE  x \in DOMAIN f /\ Below(f, x, m)
    <3>1. CASE x \in DOMAIN g
      <4>1. g[x] \subseteq g[n] /\ g[x] # g[n]
        BY <2>2, <3>1, <1>1 DEF Below
      <4>2. Below(g, x, n)
        BY <4>1 DEF Below
      <4> QED BY <4>2, <3>1, <1>2 DEF IsTerminal
    <3>2. CASE x \in Hidden(f, n)
      BY <2>2, <3>2, <1>1 DEF Below
    <3> QED BY <3>1, <3>2, <1>1
  <2> QED BY <2>1, <2>2 DEF IsTerminal
<1>6. \A m : m \in TerminalsBelow(f, n) <=> m \in Hidden(f, n) /\ IsTerminal(f, m)
  BY <1>2 DEF TerminalsBelow, Terminals, Hidden, Below
<1> QED BY <1>1, <1>3, <1>4, <1>5, <1>6 DEF Terminals

(* Children stay children; those of n and of hidden nodes are hidden. *)
LEMMA ExpandChildren ==
  ASSUME NEW g, NEW f, NEW n, Expandable(g, f, n), NEW e, e = ExpandSubtree(g, f, n),
         NEW a, NEW b, NEW m,
         \/ a \in DOMAIN g /\ b \in DOMAIN g /\ m \in DOMAIN g /\ AreChildren(g, a, b, m)
         \/ /\ a \in DOMAIN f /\ b \in DOMAIN f /\ m \in Hidden(f, n) \union {n}
            /\ AreChildren(f, a, b, m)
  PROVE  /\ a \in DOMAIN e /\ b \in DOMAIN e /\ m \in DOMAIN e /\ AreChildren(e, a, b, m)
         /\ IsParent(e, m, a) /\ ~IsRoot(e, a) /\ ~IsTerminal(e, m)
         /\ m \in Hidden(f, n) \union {n} /\ a \in DOMAIN f /\ b \in DOMAIN f
            /\ AreChildren(f, a, b, m) => a \in Hidden(f, n) /\ b \in Hidden(f, n)
<1>1. /\ DOMAIN e = DOMAIN g \union Hidden(f, n)
      /\ \A x \in DOMAIN g : x \notin Hidden(f, n) /\ e[x] = g[x]
      /\ \A x \in Hidden(f, n) : x \in DOMAIN f /\ x # n /\ e[x] = f[x]
      /\ Distinct(e) /\ Laminar(e)
  <2>1. ExpandedNodes(g, f, n, e)
    BY ExpandNodes
  <2> QED BY <2>1 DEF ExpandedNodes
<1>2. n \in DOMAIN g /\ n \in DOMAIN f /\ g[n] = f[n] /\ Distinct(f)
  BY DEF Expandable, WellFormed
<1>3. ASSUME m \in Hidden(f, n) \union {n}, NEW x \in DOMAIN f, Below(f, x, m)
      PROVE  x \in Hidden(f, n)
  <2>1. m \in DOMAIN f /\ f[m] \subseteq f[n]
    BY <1>2, <1>3 DEF Hidden, Below
  <2>2. f[x] \subseteq f[n] /\ f[x] # f[m]
    <3>1. f[x] \subseteq f[m] /\ x # m
      BY <1>3 DEF Below
    <3> QED BY <2>1, <3>1, <1>2 DEF Distinct
  <2>3. x # n
    BY <2>1, <2>2, <1>3 DEF Below
  <2> QED BY <2>2, <2>3 DEF Hidden, Below
<1>4. m \in Hidden(f, n) \union {n} /\ a \in DOMAIN f /\ b \in DOMAIN f
        /\ AreChildren(f, a, b, m) => a \in Hidden(f, n) /\ b \in Hidden(f, n)
  BY <1>3 DEF AreChildren
<1>5. a \in DOMAIN e /\ b \in DOMAIN e /\ m \in DOMAIN e /\ AreChildren(e, a, b, m)
  <2>1. CASE a \in DOMAIN g /\ b \in DOMAIN g /\ m \in DOMAIN g /\ AreChildren(g, a, b, m)
    BY <2>1, <1>1 DEF AreChildren, Below
  <2>2. CASE /\ a \in DOMAIN f /\ b \in DOMAIN f /\ m \in Hidden(f, n) \union {n}
             /\ AreChildren(f, a, b, m)
    <3>1. a \in Hidden(f, n) /\ b \in Hidden(f, n)
      BY <2>2, <1>4
    <3>2. e[a] = f[a] /\ e[b] = f[b] /\ e[m] = f[m] /\ m \in DOMAIN e
      BY <2>2, <3>1, <1>1, <1>2
    <3> QED BY <2>2, <3>1, <3>2, <1>1 DEF AreChildren, Below
  <2> QED BY <2>1, <2>2
<1>6. IsParent(e, m, a)
  BY <1>1, <1>5, ChildrenHaveParent
<1>7. ~IsRoot(e, a) /\ ~IsTerminal(e, m)
  BY <1>5 DEF IsRoot, IsTerminal, AreChildren
<1> QED BY <1>4, <1>5, <1>6, <1>7

SameNode(k, h, m) ==
  /\ k.parent[m] = h.parent[m] /\ k.sibling[m] = h.sibling[m]
  /\ k.left[m] = h.left[m] /\ k.right[m] = h.right[m] /\ k.terms[m] = h.terms[m]

(* While n is collapsed, the pointers of its subtree wait for the undo. *)
Pending(k, h, f, n) ==
  /\ \A m \in Hidden(f, n) : SameNode(k, h, m) /\ m \notin Reachable(k)
  /\ k.terms[n] = h.terms[n] /\ k.left[n] = Nil /\ k.right[n] = Nil

LEMMA PendingExpandable ==
  ASSUME NEW h, NEW f, Stores(h, f), NEW n \in DOMAIN f, ~IsTerminal(f, n),
         NEW k, NEW g, Stores(k, g), n \in DOMAIN g, Pending(k, h, f, n)
  PROVE  /\ Expandable(g, f, n)
         /\ h.left[n] \in Hidden(f, n) /\ h.right[n] \in Hidden(f, n)
         /\ k.parent[h.left[n]] = n /\ k.parent[h.right[n]] = n
         /\ k.labelToTerminal[Smallest(f[n])] = n
<1>1. WellFormed(g, Label) /\ WellFormed(f, Label) /\ Distinct(g) /\ Laminar(g) /\ LabelsFit(k, g)
  BY StoredForest
<1>2. g[n] = f[n] /\ Smallest(f[n]) \in f[n] /\ f[n] \in SUBSET Label
  BY StoredNode DEF Pending
<1>3. IsTerminal(g, n)
  BY StoredChildren DEF Pending
<1>4. Expandable(g, f, n)
  <2>1. Reachable(k) = DOMAIN g
    BY ReachableIsDomain
  <2> QED BY <1>1, <1>2, <1>3, <2>1 DEF Expandable, Pending
<1>5. /\ h.left[n] \in DOMAIN f /\ h.right[n] \in DOMAIN f
      /\ AreChildren(f, h.left[n], h.right[n], n)
      /\ h.parent[h.left[n]] = n /\ h.parent[h.right[n]] = n
  BY StoredChildren
<1>6. h.left[n] \in Hidden(f, n) /\ h.right[n] \in Hidden(f, n)
  BY <1>5 DEF Hidden, AreChildren
<1>7. k.parent[h.left[n]] = n /\ k.parent[h.right[n]] = n
  BY <1>5, <1>6 DEF Pending, SameNode
<1>8. k.labelToTerminal[Smallest(f[n])] = n
  <2> DEFINE t == k.labelToTerminal[Smallest(f[n])]
  <2>1. t \in Terminals(g) /\ Smallest(f[n]) \in g[t]
    BY <1>1, <1>2 DEF LabelsFit
  <2>2. n \in Terminals(g)
    BY <1>3 DEF Terminals
  <2> HIDE DEF t
  <2>3. t = n
    BY <2>1, <2>2, <1>1, <1>2, TerminalsApart
  <2> QED BY <2>3 DEF t
<1> QED BY <1>4, <1>6, <1>7, <1>8

(* A collapse that is undone after later edits gives back the subtree alone. *)
LEMMA ExpandStores ==
  ASSUME NEW h, NEW f, Stores(h, f), NEW n \in DOMAIN f, ~IsTerminal(f, n),
         NEW a, CollapseRecorded(h, n, a),
         NEW k, NEW g, Stores(k, g), n \in DOMAIN g, Pending(k, h, f, n)
  PROVE  /\ Stores(UndoCollapse(k, a), ExpandSubtree(g, f, n))
         /\ Expanded(k, h, f, n, UndoCollapse(k, a))
<1> DEFINE w == UndoCollapse(k, a)
           e == ExpandSubtree(g, f, n)
           gone == TerminalsBelow(f, n)
<1>1. /\ Expandable(g, f, n) /\ h.left[n] \in Hidden(f, n) /\ h.right[n] \in Hidden(f, n)
      /\ k.parent[h.left[n]] = n /\ k.parent[h.right[n]] = n
      /\ k.labelToTerminal[Smallest(f[n])] = n
  BY PendingExpandable
<1>2. a.label = Smallest(f[n])
  BY StoredNode DEF CollapseRecorded
<1>3. /\ k \in Heaps /\ NoCycle(k) /\ DOMAIN g \subseteq Node /\ LabelsFit(k, g)
      /\ Range(k.roots) = Roots(g) /\ Ascending(k.terms, k.roots) /\ Distinct(g) /\ Laminar(g)
  BY StoredForest
<1>4. Expanded(k, h, f, n, w)
  BY <1>1, <1>2, <1>3, ExpandFields
<1> HIDE DEF w
<1>5. /\ w \in Heaps /\ w.parent = k.parent /\ w.sibling = k.sibling
      /\ w.terms = k.terms /\ w.roots = k.roots
      /\ w.left = [k.left EXCEPT ![n] = h.left[n]]
      /\ w.right = [k.right EXCEPT ![n] = h.right[n]]
      /\ w.labelToTerminal =
           [x \in Label |-> IF x \in f[n] THEN h.labelToTerminal[x] ELSE k.labelToTerminal[x]]
      /\ w.terminalToLabel =
           [m \in (DOMAIN k.terminalToLabel \union gone) \ {n} |->
              IF m \in gone THEN h.terminalToLabel[m] ELSE k.terminalToLabel[m]]
  BY <1>4 DEF Expanded
<1>6. /\ DOMAIN e = DOMAIN g \union Hidden(f, n)
      /\ \A m \in DOMAIN g : m \notin Hidden(f, n) /\ e[m] = g[m]
      /\ \A m \in Hidden(f, n) : m \in DOMAIN f /\ m # n /\ e[m] = f[m]
      /\ Distinct(e) /\ Laminar(e) /\ WellFormed(e, Label)
  <2>1. ExpandedNodes(g, f, n, e)
    BY <1>1, ExpandNodes
  <2> HIDE DEF e
  <2> QED BY <2>1 DEF ExpandedNodes
<1>7. (\A m \in DOMAIN g : IsRoot(e, m) <=> IsRoot(g, m)) /\ Roots(e) = Roots(g)
  BY <1>1, ExpandRoots
<1>8. /\ \A m \in DOMAIN g : m # n => (IsTerminal(e, m) <=> IsTerminal(g, m))
      /\ ~IsTerminal(e, n)
      /\ \A m \in Hidden(f, n) : IsTerminal(e, m) <=> IsTerminal(f, m)
      /\ Terminals(e) = (Terminals(g) \ {n}) \union gone
  BY <1>1, ExpandTerminals
<1>9. /\ LabelsFit(h, f) /\ DOMAIN f \subseteq Node /\ Distinct(f) /\ Laminar(f)
      /\ n \notin Terminals(f) /\ gone \subseteq Terminals(f) /\ gone \subseteq Hidden(f, n)
  <2>1. LabelsFit(h, f) /\ DOMAIN f \subseteq Node /\ Distinct(f) /\ Laminar(f)
    BY StoredForest
  <2> QED BY <2>1 DEF Terminals, TerminalsBelow, Hidden, Below
<1>10. \A m \in Hidden(f, n) :
         /\ k.parent[m] = h.parent[m] /\ k.sibling[m] = h.sibling[m]
         /\ k.left[m] = h.left[m] /\ k.right[m] = h.right[m] /\ k.terms[m] = h.terms[m]
  BY DEF Pending, SameNode
<1>11. DOMAIN e \subseteq Node
  BY <1>3, <1>6, <1>9
<1>12. e = [m \in DOMAIN e |-> w.terms[m]]
  <2>1. e = [m \in DOMAIN e |-> e[m]]
    BY DEF ExpandSubtree
  <2>2. \A m \in DOMAIN g : g[m] = k.terms[m]
    BY StoredNode
  <2>3. \A m \in DOMAIN f : f[m] = h.terms[m]
    BY StoredNode
  <2> HIDE DEF e
  <2>4. \A m \in DOMAIN e : e[m] = w.terms[m]
    BY <2>2, <2>3, <1>5, <1>6, <1>10
  <2> QED BY <2>1, <2>4
<1>13. ASSUME NEW m \in DOMAIN e
       PROVE  ParentFits(w, e, m)
  <2>1. CASE m \in DOMAIN g /\ IsRoot(g, m)
    <3>1. k.parent[m] = Nil /\ k.sibling[m] = Nil
      BY <2>1, StoredParent
    <3> QED BY <2>1, <3>1, <1>5, <1>7 DEF ParentFits
  <2>2. CASE m \in DOMAIN g /\ ~IsRoot(g, m)
    <3> DEFINE q == k.parent[m]
               s == k.sibling[m]
    <3>1. q \in DOMAIN g /\ s \in DOMAIN g /\ AreChildren(g, m, s, q)
      BY <2>2, StoredParent
    <3> HIDE DEF q, s, e
    <3>2. /\ q \in DOMAIN e /\ s \in DOMAIN e /\ AreChildren(e, m, s, q)
          /\ IsParent(e, q, m) /\ ~IsRoot(e, m)
      BY <2>2, <3>1, <1>1, ExpandChildren DEF e
    <3> QED BY <3>2, <1>5 DEF ParentFits, q, s
  <2>3. CASE m \in Hidden(f, n)
    <3> DEFINE q == h.parent[m]
               s == h.sibling[m]
    <3>1. m \in DOMAIN f /\ Below(f, m, n)
      BY <2>3 DEF Hidden
    <3>2. h.parent[m] # Nil
      BY <3>1, StoredParent DEF IsRoot
    <3>3. q \in DOMAIN f /\ s \in DOMAIN f /\ AreChildren(f, m, s, q) /\ IsParent(f, q, m)
      BY <3>1, <3>2, StoredParent
    <3>4. k.parent[m] = q /\ k.sibling[m] = s
      BY <2>3, <1>10
    <3> HIDE DEF q, s, e
    <3>5. q \in Hidden(f, n) \union {n}
      BY <3>1, <3>3 DEF IsParent, Hidden, Below
    <3>6. /\ q \in DOMAIN e /\ s \in DOMAIN e /\ AreChildren(e, m, s, q)
          /\ IsParent(e, q, m) /\ ~IsRoot(e, m)
      BY <3>1, <3>3, <3>5, <1>1, ExpandChildren DEF e
    <3> QED BY <3>4, <3>6, <1>5 DEF ParentFits
  <2> QED BY <2>1, <2>2, <2>3, <1>6
<1>14. ASSUME NEW m \in DOMAIN e
       PROVE  ChildrenFit(w, e, m)
  <2> DEFINE x == w.left[m]
             y == w.right[m]
  <2>1. k.left \in Pointers /\ k.right \in Pointers /\ m \in Node
    BY <1>3, <1>11, HeapFields
  <2>2. /\ x = IF m = n THEN h.left[m] ELSE k.left[m]
        /\ y = IF m = n THEN h.right[m] ELSE k.right[m]
    BY <2>1, <1>5 DEF Pointers
  <2>3. CASE m \in DOMAIN g /\ m # n /\ IsTerminal(g, m)
    <3>1. k.left[m] = Nil /\ k.right[m] = Nil
      BY <2>3, StoredChildren
    <3> QED BY <2>2, <2>3, <3>1, <1>8 DEF ChildrenFit
  <2>4. CASE m \in DOMAIN g /\ m # n /\ ~IsTerminal(g, m)
    <3>1. /\ x \in DOMAIN g /\ y \in DOMAIN g /\ AreChildren(g, x, y, m)
          /\ Smallest(g[x]) < Smallest(g[y])
      BY <2>2, <2>4, StoredChildren
    <3> HIDE DEF x, y, e
    <3>2. x \in DOMAIN e /\ y \in DOMAIN e /\ AreChildren(e, x, y, m) /\ ~IsTerminal(e, m)
      BY <2>4, <3>1, <1>1, ExpandChildren DEF e
    <3> QED BY <3>1, <3>2, <1>6 DEF ChildrenFit, x, y
  <2>5. CASE m \in Hidden(f, n) /\ IsTerminal(f, m)
    <3>1. h.left[m] = Nil /\ h.right[m] = Nil
      BY <2>5, <1>6, StoredChildren
    <3>2. m # n /\ IsTerminal(e, m) /\ k.left[m] = h.left[m] /\ k.right[m] = h.right[m]
      BY <2>5, <1>6, <1>8, <1>10
    <3> QED BY <2>2, <3>1, <3>2 DEF ChildrenFit
  <2>6. CASE m \in Hidden(f, n) \union {n} /\ ~IsTerminal(f, m)
    <3>1. m \in DOMAIN f
      BY <2>6, <1>6
    <3>2. x = h.left[m] /\ y = h.right[m]
      BY <2>2, <2>6, <1>10
    <3>3. /\ x \in DOMAIN f /\ y \in DOMAIN f /\ AreChildren(f, x, y, m)
          /\ Smallest(f[x]) < Smallest(f[y])
      BY <2>6, <3>1, <3>2, StoredChildren
    <3> HIDE DEF x, y, e
    <3>4. /\ x \in DOMAIN e /\ y \in DOMAIN e /\ AreChildren(e, x, y, m) /\ ~IsTerminal(e, m)
          /\ x \in Hidden(f, n) /\ y \in Hidden(f, n)
      BY <2>6, <3>3, <1>1, ExpandChildren DEF e
    <3> QED BY <3>3, <3>4, <1>6 DEF ChildrenFit, x, y
  <2>7. m = n => ~IsTerminal(f, m)
    OBVIOUS
  <2> HIDE DEF e
  <2> QED BY <2>3, <2>4, <2>5, <2>6, <2>7, <1>6
<1>15. RootsFit(w, e)
  BY <1>3, <1>5, <1>7 DEF RootsFit, Ascending
<1>16. LabelsFit(w, e)
  <2>1. DOMAIN k.terminalToLabel = Terminals(g)
    BY <1>3 DEF LabelsFit
  <2>2. n \notin gone
    BY <1>9
  <2>3. (Terminals(g) \union gone) \ {n} = Terminals(e)
    BY <2>2, <1>8
  <2>4. DOMAIN w.terminalToLabel = Terminals(e)
    BY <2>1, <2>3, <1>5
  <2>5. ASSUME NEW m \in Terminals(e)
        PROVE  w.terminalToLabel[m] = Smallest(e[m])
    <3>1. w.terminalToLabel[m] = IF m \in gone THEN h.terminalToLabel[m] ELSE k.terminalToLabel[m]
      BY <2>1, <2>3, <1>5
    <3>2. CASE m \in gone
      BY <3>1, <3>2, <1>6, <1>9 DEF LabelsFit
    <3>3. CASE m \notin gone
      <4>1. m \in Terminals(g) /\ m \in DOMAIN g
        BY <3>3, <1>8 DEF Terminals
      <4> HIDE DEF e
      <4> QED BY <3>1, <3>3, <4>1, <1>3, <1>6 DEF LabelsFit
    <3> QED BY <3>2, <3>3
  <2>6. ASSUME NEW x \in Label
        PROVE  w.labelToTerminal[x] \in Terminals(e) /\ x \in e[w.labelToTerminal[x]]
    <3>1. CASE x \in f[n]
      <4> DEFINE t == h.labelToTerminal[x]
      <4>1. t \in gone
        BY <3>1, TerminalsOfLabels
      <4>2. x \in f[t]
        BY <1>9 DEF LabelsFit
      <4>3. t \in Terminals(e) /\ e[t] = f[t]
        BY <4>1, <1>6, <1>8, <1>9
      <4>4. w.labelToTerminal[x] = t
        BY <3>1, <1>5
      <4> QED BY <4>2, <4>3, <4>4
    <3>2. CASE x \notin f[n]
      <4> DEFINE t == k.labelToTerminal[x]
      <4>1. t \in Terminals(g) /\ x \in g[t]
        BY <1>3 DEF LabelsFit
      <4>2. t # n
        BY <4>1, <3>2, <1>1 DEF Expandable
      <4>3. t \in Terminals(e) /\ e[t] = g[t]
        BY <4>1, <4>2, <1>6, <1>8 DEF Terminals
      <4>4. w.labelToTerminal[x] = t
        BY <3>2, <1>5
      <4> QED BY <4>1, <4>3, <4>4
    <3> QED BY <3>1, <3>2
  <2> QED BY <2>4, <2>5, <2>6 DEF LabelsFit
<1>17. NoCycle(w)
  BY <1>3, <1>5 DEF NoCycle
<1> HIDE DEF e
<1>18. Stores(w, e)
  BY <1>5, <1>6, <1>11, <1>12, <1>13, <1>14, <1>15, <1>16, <1>17 DEF Stores
<1> QED BY <1>4, <1>18 DEF w, e

-----------------------------------------------------------------------------
(* What an edit or its undo leaves alone: nodes that are in no tree. *)
LEMMA CutElsewhere ==
  ASSUME NEW h, NEW f, Stores(h, f), NEW c \in DOMAIN f, h.parent[c] # Nil,
         NEW m \in Node, m \notin DOMAIN f
  PROVE  SameNode(DoDelete(h, EdgeAbove(h, c)).heap, h, m)
<1> DEFINE p == h.parent[c]
           s == h.sibling[c]
           k == DoDelete(h, EdgeAbove(h, c)).heap
<1>1. Edge(h, f, c, p, s)
  BY DEF Edge
<1>2. s \in DOMAIN f /\ p \in DOMAIN f
  BY <1>1, EdgeFacts
<1> HIDE DEF p, s
<1>3. CASE p \in Roots(f)
  <2>1. /\ k.terms = h.terms /\ k.left = h.left /\ k.right = h.right
        /\ \A n \in Node : /\ k.parent[n] = IF n = c \/ n = s THEN Nil ELSE h.parent[n]
                           /\ k.sibling[n] = IF n = c \/ n = s THEN Nil ELSE h.sibling[n]
    BY <1>1, <1>3, RootFields
  <2> HIDE DEF k
  <2>2. SameNode(k, h, m)
    BY <1>2, <2>1 DEF SameNode
  <2> QED BY <2>2 DEF k
<1>4. CASE p \notin Roots(f)
  <2> DEFINE g == h.parent[p]
             q == h.sibling[p]
             done == DoDelete(h, EdgeAbove(h, c))
  <2>1. InnerEdge(h, f, c, p, s, g, q)
    BY <1>1, <1>4 DEF InnerEdge
  <2>2. InnerDone(h, f, c, p, s, done.heap, done.left, done.right)
    BY <2>1, InnerFields
  <2>3. g \in DOMAIN f /\ q \in DOMAIN f
    BY <2>1, InnerFacts
  <2> HIDE DEF g, q, done
  <2>4. InnerNode(h, f, c, p, s, g, q, done.heap, m)
    BY <2>1, <2>2, InnerAt
  <2>5. m \notin Above(f, p)
    BY DEF Above
  <2>6. SameNode(done.heap, h, m)
    BY <1>2, <2>3, <2>4, <2>5 DEF InnerNode, SameNode
  <2> QED BY <2>6 DEF done
<1> QED BY <1>3, <1>4

(* n was collapsed in the heap h and is still collapsed in k. *)
Waits(k, h, f, n) ==
  /\ Stores(h, f) /\ n \in DOMAIN f /\ ~IsTerminal(f, n)
  /\ Pending(k, h, f, n)

LEMMA WaitingNodes ==
  ASSUME NEW k, NEW h, NEW f, NEW n, Waits(k, h, f, n)
  PROVE  n \in Node /\ Hidden(f, n) \subseteq Node
BY StoredForest DEF Waits, Hidden

LEMMA CutKeepsWaiting ==
  ASSUME NEW k, NEW g, Stores(k, g), NEW c \in DOMAIN g, k.parent[c] # Nil,
         NEW h, NEW f, NEW n, Waits(k, h, f, n)
  PROVE  /\ Waits(DoDelete(k, EdgeAbove(k, c)).heap, h, f, n)
         /\ n \in Reachable(k) => n \in Reachable(DoDelete(k, EdgeAbove(k, c)).heap)
<1> DEFINE w == DoDelete(k, EdgeAbove(k, c)).heap
           p == k.parent[c]
           s == k.sibling[c]
           e == CutEdge(g, c, p)
<1>1. Stores(w, e)
  BY CutStores
<1>2. Edge(k, g, c, p, s)
  BY DEF Edge
<1>3. /\ p \in DOMAIN g /\ s \in DOMAIN g /\ AreChildren(g, c, s, p) /\ IsParent(g, p, c)
      /\ Distinct(g) /\ Laminar(g) /\ Binary(g)
  BY <1>2, EdgeFacts, StoredForest
<1>4. n \in Node /\ Hidden(f, n) \subseteq Node
  BY WaitingNodes
<1>5. \A m \in Node : m \notin DOMAIN g => SameNode(w, k, m)
  BY CutElsewhere
<1> HIDE DEF w, p, s
<1>6. Reachable(k) = DOMAIN g /\ Reachable(w) = DOMAIN e /\ DOMAIN e = DOMAIN g \ {p}
  BY <1>1, ReachableIsDomain DEF CutEdge
<1>7. \A m \in Hidden(f, n) : SameNode(w, h, m) /\ m \notin Reachable(w)
  BY <1>4, <1>5, <1>6 DEF Waits, Pending, SameNode
<1>8. ASSUME n \in DOMAIN g
      PROVE  /\ n \in DOMAIN e /\ w.terms[n] = k.terms[n] /\ w.left[n] = Nil /\ w.right[n] = Nil
  <2>1. IsTerminal(g, n)
    BY <1>8, StoredChildren DEF Waits, Pending
  <2>2. n # p /\ ~Below(g, c, n)
    BY <2>1, <1>3 DEF IsTerminal, AreChildren
  <2>3. n \in DOMAIN e /\ e[n] = g[n]
    BY <1>8, <2>2 DEF CutEdge
  <2>4. IsTerminal(e, n)
    <3>1. n \in DOMAIN g \ {p}
      BY <1>8, <2>2
    <3> QED BY <1>2, <2>1, <3>1, CutTerminals
  <2>5. w.left[n] = Nil /\ w.right[n] = Nil /\ w.terms[n] = e[n]
    BY <1>1, <2>3, <2>4, StoredChildren, StoredNode
  <2>6. k.terms[n] = g[n]
    BY <1>8, StoredNode
  <2> QED BY <2>3, <2>5, <2>6
<1>9. ASSUME n \notin DOMAIN g
      PROVE  w.terms[n] = k.terms[n] /\ w.left[n] = k.left[n] /\ w.right[n] = k.right[n]
  BY <1>4, <1>5, <1>9 DEF SameNode
<1>10. w.terms[n] = h.terms[n] /\ w.left[n] = Nil /\ w.right[n] = Nil
  BY <1>8, <1>9 DEF Waits, Pending
<1>11. Waits(w, h, f, n)
  BY <1>7, <1>10 DEF Waits, Pending
<1>12. n \in Reachable(k) => n \in Reachable(w)
  BY <1>6, <1>8
<1> QED BY <1>11, <1>12 DEF w

LEMMA CollapseKeepsWaiting ==
  ASSUME NEW k, NEW g, Stores(k, g), NEW q \in DOMAIN g, ~IsTerminal(g, q),
         NEW h, NEW f, NEW n, Waits(k, h, f, n)
  PROVE  /\ Waits(DoCollapse(k, q).heap, h, f, n)
         /\ n \in Reachable(k) => n \in Reachable(DoCollapse(k, q).heap) \union Hidden(g, q)
         /\ n # q /\ Hidden(f, n) \intersect Hidden(g, q) = {}
<1> DEFINE w == DoCollapse(k, q).heap
           e == CollapseSubtree(g, q)
<1>1. Stores(w, e) /\ Collapsed(k, g, q, w)
  BY CollapseStores, CollapseFields
<1>2. n \in Node /\ Hidden(f, n) \subseteq Node
  BY WaitingNodes
<1>3. k.left \in Pointers /\ k.right \in Pointers
  BY StoredForest, HeapFields
<1> HIDE DEF w
<1>4. /\ Reachable(k) = DOMAIN g /\ Reachable(w) = DOMAIN e
      /\ DOMAIN e \subseteq DOMAIN g /\ DOMAIN g \subseteq DOMAIN e \union Hidden(g, q)
  BY <1>1, ReachableIsDomain, CollapseNodes DEF Hidden
<1>5. \A m \in Node : m # q => SameNode(w, k, m)
  BY <1>1, <1>3 DEF Collapsed, SameNode, Pointers
<1>6. k.left[q] # Nil
  BY StoredChildren
<1>7. n # q
  BY <1>6 DEF Waits, Pending
<1>8. Hidden(f, n) \intersect DOMAIN g = {}
  BY <1>4 DEF Waits, Pending
<1>9. \A m \in Hidden(f, n) : SameNode(w, h, m) /\ m \notin Reachable(w)
  BY <1>2, <1>4, <1>5, <1>8 DEF Waits, Pending, SameNode
<1>10. w.terms[n] = h.terms[n] /\ w.left[n] = Nil /\ w.right[n] = Nil
  BY <1>2, <1>5, <1>7 DEF Waits, Pending, SameNode
<1>11. Waits(w, h, f, n)
  BY <1>9, <1>10 DEF Waits, Pending
<1>12. n \in Reachable(k) => n \in Reachable(w) \union Hidden(g, q)
  BY <1>4
<1>13. Hidden(f, n) \intersect Hidden(g, q) = {}
  BY <1>8 DEF Hidden
<1> QED BY <1>7, <1>11, <1>12, <1>13 DEF w

LEMMA CollapseWaits ==
  ASSUME NEW k, NEW g, Stores(k, g), NEW q \in DOMAIN g, ~IsTerminal(g, q)
  PROVE  /\ Waits(DoCollapse(k, q).heap, k, g, q)
         /\ q \in Reachable(DoCollapse(k, q).heap)
<1> DEFINE w == DoCollapse(k, q).heap
           e == CollapseSubtree(g, q)
<1>1. Stores(w, e) /\ Collapsed(k, g, q, w)
  BY CollapseStores, CollapseFields
<1>2. k.left \in Pointers /\ k.right \in Pointers /\ DOMAIN g \subseteq Node
  BY StoredForest, HeapFields
<1> HIDE DEF w
<1>3. Reachable(w) = DOMAIN e /\ \A m : m \in DOMAIN e <=> m \in DOMAIN g /\ ~Below(g, m, q)
  BY <1>1, ReachableIsDomain, CollapseNodes
<1>4. \A m \in Node : m # q => SameNode(w, k, m)
  BY <1>1, <1>2 DEF Collapsed, SameNode, Pointers
<1>5. \A m \in Hidden(g, q) : SameNode(w, k, m) /\ m \notin Reachable(w)
  BY <1>2, <1>3, <1>4 DEF Hidden, Below
<1>6. w.terms[q] = k.terms[q] /\ w.left[q] = Nil /\ w.right[q] = Nil
  BY <1>1, <1>2 DEF Collapsed, Pointers
<1>7. Waits(w, k, g, q)
  BY <1>5, <1>6 DEF Waits, Pending
<1>8. q \in Reachable(w)
  BY <1>3 DEF Below
<1> QED BY <1>7, <1>8 DEF w

LEMMA ExpandKeepsWaiting ==
  ASSUME NEW k, NEW g, Stores(k, g), NEW h, NEW f, NEW n, Waits(k, h, f, n), n \in DOMAIN g,
         NEW a, CollapseRecorded(h, n, a),
         NEW h2, NEW f2, NEW n2, Waits(k, h2, f2, n2), n2 # n,
         Hidden(f, n) \intersect Hidden(f2, n2) = {}
  PROVE  /\ Waits(UndoCollapse(k, a), h2, f2, n2)
         /\ n2 \in Reachable(k) \union Hidden(f, n) => n2 \in Reachable(UndoCollapse(k, a))
<1> DEFINE w == UndoCollapse(k, a)
           e == ExpandSubtree(g, f, n)
<1>1. Stores(w, e) /\ Expanded(k, h, f, n, w)
  BY ExpandStores DEF Waits
<1>2. k.left \in Pointers /\ k.right \in Pointers
  BY StoredForest, HeapFields
<1>3. n2 \in Node /\ Hidden(f2, n2) \subseteq Node
  BY WaitingNodes
<1> HIDE DEF w
<1>4. /\ Reachable(w) = DOMAIN e /\ Reachable(k) = DOMAIN g
      /\ DOMAIN e = DOMAIN g \union Hidden(f, n)
  BY <1>1, ReachableIsDomain DEF ExpandSubtree, Hidden
<1>5. \A m \in Node : m # n => SameNode(w, k, m)
  BY <1>1, <1>2 DEF Expanded, SameNode, Pointers
<1>6. n \notin Hidden(f2, n2)
  BY <1>4 DEF Waits, Pending
<1>7. \A m \in Hidden(f2, n2) : SameNode(w, h2, m) /\ m \notin Reachable(w)
  BY <1>3, <1>4, <1>5, <1>6 DEF Waits, Pending, SameNode
<1>8. w.terms[n2] = h2.terms[n2] /\ w.left[n2] = Nil /\ w.right[n2] = Nil
  BY <1>3, <1>5 DEF Waits, Pending, SameNode
<1>9. Waits(w, h2, f2, n2)
  BY <1>7, <1>8 DEF Waits, Pending
<1> QED BY <1>4, <1>9 DEF w
=============================================================================
