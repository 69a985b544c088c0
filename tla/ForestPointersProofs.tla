------------------------ MODULE ForestPointersProofs ------------------------
(***************************************************************************)
(* What the two actions keep true of the forests of an instance.           *)
(*                                                                         *)
(* The invariant speaks of the heaps before each action of the undo stack: *)
(* G[k] for the action stack[k].  They are no part of the program, which   *)
(* has only what the actions remember; the proof shows that this is        *)
(* enough, for the undo of the last action and for that of an earlier      *)
(* collapse.                                                               *)
(***************************************************************************)
EXTENDS ForestPointers, ForestStoreProofs, FiniteSetTheorems

-----------------------------------------------------------------------------
(* What the actions remember. *)

LEMMA DeleteRecordFields ==
  ASSUME NEW h, NEW i, NEW c
  PROVE  LET a == DeleteRecord(h, i, c)
         IN  /\ a.kind = "delete" /\ a.tree = i /\ a.child = c
             /\ a.sibling = h.sibling[c] /\ a.parent = h.parent[c]
             /\ CutRecorded(h, c, a)
             /\ a.svtChild = (DoDelete(h, EdgeAbove(h, c)).heap.left[c] = Nil)
             /\ a.svtSibling = (EdgeAbove(h, c).parentIsRoot /\
                  DoDelete(h, EdgeAbove(h, c)).heap.left[EdgeAbove(h, c).sibling] = Nil)
BY DEF DeleteRecord, CutRecorded, EdgeAbove

LEMMA CollapseRecordFields ==
  ASSUME NEW h, NEW i, NEW n
  PROVE  LET a == CollapseRecord(h, i, n)
         IN  /\ a.kind = "collapse" /\ a.tree = i /\ a.left = h.left[n]
             /\ CollapseRecorded(h, n, a)
             /\ a.svtNode = (h.parent[n] = Nil)
BY DEF CollapseRecord, CollapseRecorded

(* The action a was done to the heaps g. *)
Edit(g, a) ==
  \E i \in Tree : \E n \in Reachable(g[i]) :
     \/ g[i].parent[n] # Nil /\ a = DeleteRecord(g[i], i, n)
     \/ g[i].left[n] # Nil /\ a = CollapseRecord(g[i], i, n)

(* The node a collapse made a terminal, and those it hid. *)
NodeOf(g, a) == g[a.tree].parent[a.left]
HiddenBy(g, a) == Hidden(ForestOf(g[a.tree]), NodeOf(g, a))

(* The heap of the tree of a after it, and after its undo from heap h. *)
DoneTo(g, a) ==
  IF a.kind = "delete" THEN DoDelete(g[a.tree], EdgeAbove(g[a.tree], a.child)).heap
  ELSE DoCollapse(g[a.tree], NodeOf(g, a)).heap

Done(g, a) == [g EXCEPT ![a.tree] = DoneTo(g, a)]

Undone(h, a) == IF a.kind = "delete" THEN UndoCut(h, a) ELSE UndoCollapse(h, a)

HeapLists == [Tree -> Heaps]
Stored(g) == g \in HeapLists /\ \A i \in Tree : Stores(g[i], ForestOf(g[i]))

(* A cut of the tree of a, or a collapse in it. *)
IsCut(g, a, i, n) ==
  /\ i \in Tree /\ a.tree = i /\ n \in DOMAIN ForestOf(g[i])
  /\ a.kind = "delete" /\ a.child = n /\ g[i].parent[n] # Nil /\ a = DeleteRecord(g[i], i, n)

IsCollapse(g, a, i, n) ==
  /\ i \in Tree /\ a.tree = i /\ n \in DOMAIN ForestOf(g[i])
  /\ a.kind = "collapse" /\ NodeOf(g, a) = n /\ ~IsTerminal(ForestOf(g[i]), n)
  /\ g[i].left[n] # Nil /\ a = CollapseRecord(g[i], i, n)

LEMMA EditKinds ==
  ASSUME NEW g, Stored(g), NEW a, Edit(g, a)
  PROVE  \E i, n : IsCut(g, a, i, n) \/ IsCollapse(g, a, i, n)
<1>1. PICK i \in Tree : \E n \in Reachable(g[i]) :
         \/ g[i].parent[n] # Nil /\ a = DeleteRecord(g[i], i, n)
         \/ g[i].left[n] # Nil /\ a = CollapseRecord(g[i], i, n)
  BY DEF Edit
<1>2. PICK n \in Reachable(g[i]) :
         \/ g[i].parent[n] # Nil /\ a = DeleteRecord(g[i], i, n)
         \/ g[i].left[n] # Nil /\ a = CollapseRecord(g[i], i, n)
  BY <1>1
<1> DEFINE h == g[i]
           f == ForestOf(h)
<1>3. Stores(h, f) /\ n \in DOMAIN f
  BY DEF Stored, ForestOf
<1> HIDE DEF f, h
<1>4. CASE h.parent[n] # Nil /\ a = DeleteRecord(h, i, n)
  <2>1. a.kind = "delete" /\ a.tree = i /\ a.child = n
    BY <1>4, DeleteRecordFields
  <2>2. IsCut(g, a, i, n)
    BY <1>3, <1>4, <2>1 DEF IsCut, f, h
  <2> QED BY <2>2
<1>5. CASE h.left[n] # Nil /\ a = CollapseRecord(h, i, n)
  <2>1. a.kind = "collapse" /\ a.tree = i /\ a.left = h.left[n]
    BY <1>5, CollapseRecordFields
  <2>2. h.parent[h.left[n]] = n /\ ~IsTerminal(f, n)
    BY <1>3, <1>5, StoredChildren
  <2>3. NodeOf(g, a) = n
    BY <2>1, <2>2 DEF NodeOf, h
  <2>4. IsCollapse(g, a, i, n)
    BY <1>3, <1>5, <2>1, <2>2, <2>3 DEF IsCollapse, f, h
  <2> QED BY <2>4
<1> QED BY <1>2, <1>4, <1>5 DEF h

(* Every action keeps the forests stored, and its undo gives them back. *)
LEMMA EditDone ==
  ASSUME NEW g, Stored(g), NEW a, Edit(g, a)
  PROVE  /\ a.tree \in Tree /\ Stored(Done(g, a))
         /\ Done(g, a)[a.tree] = DoneTo(g, a)
         /\ \A j \in Tree : j # a.tree => Done(g, a)[j] = g[j]
         /\ [Done(g, a) EXCEPT ![a.tree] = Undone(DoneTo(g, a), a)] = g
<1> DEFINE w == DoneTo(g, a)
<1>1. PICK i, n : IsCut(g, a, i, n) \/ IsCollapse(g, a, i, n)
  BY EditKinds
<1> DEFINE h == g[i]
           f == ForestOf(h)
<1>2. i \in Tree /\ a.tree = i /\ n \in DOMAIN f /\ Stores(h, f)
  BY <1>1 DEF IsCut, IsCollapse, Stored
<1>3. (\E e : Stores(w, e)) /\ Undone(w, a) = h
  <2>1. CASE IsCut(g, a, i, n)
    <3>1. w = DoDelete(h, EdgeAbove(h, n)).heap /\ h.parent[n] # Nil
          /\ a = DeleteRecord(h, i, n) /\ a.kind = "delete"
      BY <2>1 DEF IsCut, DoneTo
    <3>2. CutRecorded(h, n, a)
      BY <3>1, DeleteRecordFields
    <3> HIDE DEF f, h, w
    <3>3. Stores(w, CutEdge(f, n, h.parent[n]))
      BY <1>2, <3>1, CutStores
    <3>4. UndoCut(w, a) = h
      BY <1>2, <3>1, <3>2, CutUndone
    <3> QED BY <3>1, <3>3, <3>4 DEF Undone
  <2>2. CASE IsCollapse(g, a, i, n)
    <3>1. w = DoCollapse(h, n).heap /\ ~IsTerminal(f, n)
          /\ a = CollapseRecord(h, i, n) /\ a.kind = "collapse"
      BY <2>2 DEF IsCollapse, DoneTo
    <3>2. CollapseRecorded(h, n, a)
      BY <3>1, CollapseRecordFields
    <3> HIDE DEF f, h, w
    <3>3. Stores(w, CollapseSubtree(f, n))
      BY <1>2, <3>1, CollapseStores
    <3>4. UndoCollapse(w, a) = h
      BY <1>2, <3>1, <3>2, CollapseUndone
    <3> QED BY <3>1, <3>3, <3>4 DEF Undone
  <2> QED BY <1>1, <2>1, <2>2
<1>4. w \in Heaps /\ Stores(w, ForestOf(w))
  BY <1>3, ForestOfStored, StoredForest
<1> HIDE DEF w, f
<1>5. Done(g, a) = [g EXCEPT ![a.tree] = w]
  BY DEF Done, w
<1>6. [Done(g, a) EXCEPT ![a.tree] = Undone(w, a)] = g
  BY <1>2, <1>3, <1>5 DEF Stored, HeapLists
<1>7. /\ Done(g, a)[a.tree] = w /\ Done(g, a) \in HeapLists
      /\ \A j \in Tree : j # a.tree => Done(g, a)[j] = g[j]
  BY <1>2, <1>4, <1>5 DEF Stored, HeapLists
<1>8. Stored(Done(g, a))
  BY <1>4, <1>7 DEF Stored
<1> QED BY <1>2, <1>6, <1>7, <1>8 DEF w

-----------------------------------------------------------------------------
(* Collapses of the stack st, done to the heaps G, that the heaps hs wait for. *)
WaitsFor(hs, g, a) == Waits(hs[a.tree], g[a.tree], ForestOf(g[a.tree]), NodeOf(g, a))

(* The terminal of collapse k is in its tree, or a later collapse has hidden it. *)
NodeKept(hs, G, st, n, k) ==
  \/ NodeOf(G[k], st[k]) \in Reachable(hs[st[k].tree])
  \/ \E j \in 1..n : /\ j > k /\ st[j].kind = "collapse" /\ st[j].tree = st[k].tree
                     /\ NodeOf(G[k], st[k]) \in HiddenBy(G[j], st[j])

Waiting(hs, G, st, n) ==
  \A k \in 1..n : st[k].kind = "collapse" => WaitsFor(hs, G[k], st[k]) /\ NodeKept(hs, G, st, n, k)

(* Two collapses in a tree hide different nodes. *)
CollapsesApart(G, st, n) ==
  \A j, k \in 1..n :
     /\ j < k /\ st[j].kind = "collapse" /\ st[k].kind = "collapse" /\ st[j].tree = st[k].tree
     => /\ HiddenBy(G[j], st[j]) \intersect HiddenBy(G[k], st[k]) = {}
        /\ NodeOf(G[j], st[j]) # NodeOf(G[k], st[k])

LEMMA WaitingSame ==
  ASSUME NEW hs, NEW G, NEW st, NEW G2, NEW st2, NEW n \in Nat, NEW m \in 0..n,
         \A k \in 1..m : G2[k] = G[k] /\ st2[k] = st[k]
  PROVE  /\ Waiting(hs, G, st, m) => Waiting(hs, G2, st2, m)
         /\ CollapsesApart(G, st, n) => CollapsesApart(G2, st2, m)
<1>1. \A k \in 1..m : NodeKept(hs, G, st, m, k) => NodeKept(hs, G2, st2, m, k)
  BY DEF NodeKept
<1>2. Waiting(hs, G, st, m) => Waiting(hs, G2, st2, m)
  BY <1>1 DEF Waiting
<1>3. 1..m \subseteq 1..n
  OBVIOUS
<1>4. CollapsesApart(G, st, n) => CollapsesApart(G2, st2, m)
  BY <1>3 DEF CollapsesApart
<1> QED BY <1>2, <1>4

(* What waits before an action waits after it. *)
LEMMA EditKeepsWaiting ==
  ASSUME NEW g, Stored(g), NEW a, Edit(g, a),
         NEW b, NEW g2, WaitsFor(g, g2, b)
  PROVE  /\ WaitsFor(Done(g, a), g2, b)
         /\ NodeOf(g2, b) \in Reachable(g[b.tree])
              => \/ NodeOf(g2, b) \in Reachable(Done(g, a)[b.tree])
                 \/ /\ a.kind = "collapse" /\ a.tree = b.tree
                    /\ NodeOf(g2, b) \in HiddenBy(g, a)
         /\ a.kind = "collapse" /\ a.tree = b.tree
              => /\ HiddenBy(g2, b) \intersect HiddenBy(g, a) = {}
                 /\ NodeOf(g2, b) # NodeOf(g, a)
<1> DEFINE w == DoneTo(g, a)
           n == NodeOf(g2, b)
           h == g2[b.tree]
           F == ForestOf(h)
<1>1. PICK i, q : IsCut(g, a, i, q) \/ IsCollapse(g, a, i, q)
  BY EditKinds
<1>2. /\ Done(g, a)[a.tree] = w
      /\ \A j \in Tree : j # a.tree => Done(g, a)[j] = g[j]
  BY EditDone
<1>3. i \in Tree /\ a.tree = i /\ q \in DOMAIN ForestOf(g[i]) /\ Stores(g[i], ForestOf(g[i]))
  BY <1>1 DEF IsCut, IsCollapse, Stored
<1>4. Waits(g[b.tree], h, F, n)
  BY DEF WaitsFor
<1> HIDE DEF w, n, h, F
<1>5. CASE b.tree # a.tree
  <2>1. Done(g, a)[b.tree] = g[b.tree]
    <3>1. Done(g, a) = [g EXCEPT ![a.tree] = w]
      BY DEF Done, w
    <3>2. g \in HeapLists
      BY DEF Stored
    <3> QED BY <3>1, <3>2, <1>5 DEF HeapLists
  <2> QED BY <1>4, <1>5, <2>1 DEF WaitsFor, n, h, F
<1>6. CASE b.tree = i /\ IsCut(g, a, i, q)
  <2>1. w = DoDelete(g[i], EdgeAbove(g[i], q)).heap /\ g[i].parent[q] # Nil
        /\ a.kind = "delete"
    BY <1>6 DEF IsCut, DoneTo, w
  <2>2. Waits(w, h, F, n) /\ (n \in Reachable(g[i]) => n \in Reachable(w))
    BY <1>3, <1>4, <1>6, <2>1, CutKeepsWaiting
  <2> QED BY <1>2, <1>3, <1>6, <2>1, <2>2 DEF WaitsFor, n, h, F
<1>7. CASE b.tree = i /\ IsCollapse(g, a, i, q)
  <2>1. /\ w = DoCollapse(g[i], q).heap /\ ~IsTerminal(ForestOf(g[i]), q)
        /\ a.kind = "collapse" /\ NodeOf(g, a) = q
    BY <1>7 DEF IsCollapse, DoneTo, w
  <2>2. /\ Waits(w, h, F, n)
        /\ n \in Reachable(g[i]) => n \in Reachable(w) \union Hidden(ForestOf(g[i]), q)
        /\ n # q /\ Hidden(F, n) \intersect Hidden(ForestOf(g[i]), q) = {}
    BY <1>3, <1>4, <1>7, <2>1, CollapseKeepsWaiting
  <2>3. HiddenBy(g, a) = Hidden(ForestOf(g[i]), q) /\ HiddenBy(g2, b) = Hidden(F, n)
    BY <1>3, <2>1 DEF HiddenBy, F, n, h
  <2> QED BY <1>2, <1>3, <1>7, <2>1, <2>2, <2>3 DEF WaitsFor, n, h, F
<1> QED BY <1>1, <1>3, <1>5, <1>6, <1>7

(* A collapse waits for its undo from then on. *)
LEMMA EditWaits ==
  ASSUME NEW g, Stored(g), NEW a, Edit(g, a), a.kind = "collapse"
  PROVE  WaitsFor(Done(g, a), g, a) /\ NodeOf(g, a) \in Reachable(Done(g, a)[a.tree])
<1> DEFINE w == DoneTo(g, a)
<1>1. PICK i, q : IsCut(g, a, i, q) \/ IsCollapse(g, a, i, q)
  BY EditKinds
<1>2. Done(g, a)[a.tree] = w
  BY EditDone
<1>3. /\ i \in Tree /\ a.tree = i /\ q \in DOMAIN ForestOf(g[i]) /\ Stores(g[i], ForestOf(g[i]))
      /\ ~IsTerminal(ForestOf(g[i]), q) /\ NodeOf(g, a) = q
      /\ w = DoCollapse(g[i], q).heap
  BY <1>1 DEF IsCut, IsCollapse, Stored, DoneTo
<1>4. Waits(w, g[i], ForestOf(g[i]), q) /\ q \in Reachable(w)
  BY <1>3, CollapseWaits
<1> QED BY <1>2, <1>3, <1>4 DEF WaitsFor

-----------------------------------------------------------------------------
(* The undo stack. *)
Edits ==
  {DeleteRecord(h, i, n) : h \in Heaps, i \in Tree, n \in Node}
    \union {CollapseRecord(h, i, n) : h \in Heaps, i \in Tree, n \in Node}

ForestsOf(g) == [i \in Tree |-> ForestOf(g[i])]

Trails == {ForestsOf(g) : g \in HeapLists}

(* At all times: what is done can be undone, and some trail knows its forests. *)
Kept(G, hs, st, tr) ==
  /\ st \in Seq(Edits) /\ tr \in Seq(Trails) /\ G \in Seq(HeapLists) /\ Len(G) = Len(st)
  /\ Stored(hs)
  /\ \A k \in 1..Len(st) : /\ Stored(G[k]) /\ Edit(G[k], st[k])
                           /\ \E t \in 1..Len(tr) : tr[t] = ForestsOf(G[k])
  /\ Waiting(hs, G, st, Len(st))
  /\ CollapsesApart(G, st, Len(st))

(* During the search: each action was done to what the one before it left. *)
After(G, hs, k) == IF k = Len(G) THEN hs ELSE G[k+1]

Chained(G, hs, st, tr) ==
  /\ Len(tr) = Len(st)
  /\ \A k \in 1..Len(st) : /\ tr[k] = ForestsOf(G[k])
                           /\ After(G, hs, k) = Done(G[k], st[k])
                           /\ Waiting(G[k], G, st, k - 1)

LEMMA EditTypes ==
  ASSUME NEW g, Stored(g), NEW a, Edit(g, a)
  PROVE  a \in Edits
<1>1. PICK i, n : IsCut(g, a, i, n) \/ IsCollapse(g, a, i, n)
  BY EditKinds
<1>2. i \in Tree /\ g[i] \in Heaps /\ n \in Node
  <2>1. i \in Tree /\ n \in DOMAIN ForestOf(g[i]) /\ Stores(g[i], ForestOf(g[i]))
    BY <1>1 DEF IsCut, IsCollapse, Stored
  <2> QED BY <2>1, StoredForest
<1> QED BY <1>1, <1>2 DEF IsCut, IsCollapse, Edits

LEMMA Pushed ==
  ASSUME NEW X, NEW s \in Seq(X), NEW x \in X
  PROVE  /\ Append(s, x) \in Seq(X) /\ Len(Append(s, x)) = Len(s) + 1 /\ Len(s) \in Nat
         /\ \A k \in 1..Len(s) : Append(s, x)[k] = s[k]
         /\ Append(s, x)[Len(s) + 1] = x
OBVIOUS

LEMMA PushKeepsWaiting ==
  ASSUME NEW G, NEW hs, NEW st, NEW n \in Nat, Stored(hs), NEW a, Edit(hs, a),
         Waiting(hs, G, st, n), CollapsesApart(G, st, n),
         NEW G2, NEW st2, \A k \in 1..n : G2[k] = G[k] /\ st2[k] = st[k],
         G2[n+1] = hs, st2[n+1] = a
  PROVE  Waiting(Done(hs, a), G2, st2, n + 1) /\ CollapsesApart(G2, st2, n + 1)
<1> DEFINE w == Done(hs, a)
<1>1. \A k \in 1..n+1 : k \in 1..n \/ k = n + 1
  OBVIOUS
<1>2. Waiting(hs, G2, st2, n) /\ CollapsesApart(G2, st2, n)
  <2>1. n \in 0..n
    OBVIOUS
  <2> QED BY <2>1, WaitingSame
<1>3. ASSUME NEW k \in 1..n, st2[k].kind = "collapse"
      PROVE  /\ WaitsFor(w, G2[k], st2[k]) /\ NodeKept(w, G2, st2, n + 1, k)
             /\ a.kind = "collapse" /\ a.tree = st2[k].tree
                  => /\ HiddenBy(G2[k], st2[k]) \intersect HiddenBy(hs, a) = {}
                     /\ NodeOf(G2[k], st2[k]) # NodeOf(hs, a)
  <2> DEFINE b == st2[k]
             m == NodeOf(G2[k], b)
  <2>1. WaitsFor(hs, G2[k], b) /\ NodeKept(hs, G2, st2, n, k)
    BY <1>2, <1>3 DEF Waiting
  <2>2. /\ WaitsFor(w, G2[k], b)
        /\ m \in Reachable(hs[b.tree])
             => \/ m \in Reachable(w[b.tree])
                \/ a.kind = "collapse" /\ a.tree = b.tree /\ m \in HiddenBy(hs, a)
        /\ a.kind = "collapse" /\ a.tree = b.tree
             => HiddenBy(G2[k], b) \intersect HiddenBy(hs, a) = {} /\ m # NodeOf(hs, a)
    BY <2>1, EditKeepsWaiting
  <2> HIDE DEF w
  <2>3. NodeKept(w, G2, st2, n + 1, k)
    <3>1. n + 1 \in 1..n+1 /\ n + 1 > k /\ 1..n \subseteq 1..n+1
      OBVIOUS
    <3>2. CASE m \in Reachable(w[b.tree])
      BY <3>2 DEF NodeKept
    <3>3. CASE a.kind = "collapse" /\ a.tree = b.tree /\ m \in HiddenBy(hs, a)
      BY <3>1, <3>3 DEF NodeKept
    <3>4. CASE \E j \in 1..n : /\ j > k /\ st2[j].kind = "collapse" /\ st2[j].tree = b.tree
                               /\ m \in HiddenBy(G2[j], st2[j])
      BY <3>1, <3>4 DEF NodeKept
    <3> QED BY <2>1, <2>2, <3>2, <3>3, <3>4 DEF NodeKept
  <2> QED BY <2>2, <2>3
<1>4. ASSUME a.kind = "collapse"
      PROVE  WaitsFor(w, hs, a) /\ NodeKept(w, G2, st2, n + 1, n + 1)
  BY <1>4, EditWaits DEF NodeKept
<1> HIDE DEF w
<1>5. Waiting(w, G2, st2, n + 1)
  BY <1>1, <1>3, <1>4 DEF Waiting
<1>6. CollapsesApart(G2, st2, n + 1)
  <2> SUFFICES ASSUME NEW j \in 1..n+1, NEW k \in 1..n+1, j < k,
                      st2[j].kind = "collapse", st2[k].kind = "collapse",
                      st2[j].tree = st2[k].tree
               PROVE  /\ HiddenBy(G2[j], st2[j]) \intersect HiddenBy(G2[k], st2[k]) = {}
                      /\ NodeOf(G2[j], st2[j]) # NodeOf(G2[k], st2[k])
    BY DEF CollapsesApart
  <2>1. j \in 1..n
    OBVIOUS
  <2>2. CASE k \in 1..n
    BY <1>2, <2>1, <2>2 DEF CollapsesApart
  <2>3. CASE k = n + 1
    BY <1>3, <2>1, <2>3
  <2> QED BY <1>1, <2>2, <2>3
<1> QED BY <1>5, <1>6 DEF w

LEMMA PushKeeps ==
  ASSUME NEW G, NEW hs, NEW st, NEW tr, Kept(G, hs, st, tr), Chained(G, hs, st, tr),
         NEW a, Edit(hs, a)
  PROVE  /\ Kept(Append(G, hs), Done(hs, a), Append(st, a), Append(tr, ForestsOf(hs)))
         /\ Chained(Append(G, hs), Done(hs, a), Append(st, a), Append(tr, ForestsOf(hs)))
<1> DEFINE n == Len(st)
           w == Done(hs, a)
           G2 == Append(G, hs)
           st2 == Append(st, a)
           tr2 == Append(tr, ForestsOf(hs))
<1>1. /\ st \in Seq(Edits) /\ tr \in Seq(Trails) /\ G \in Seq(HeapLists)
      /\ Len(G) = n /\ Len(tr) = n /\ Stored(hs)
      /\ Waiting(hs, G, st, n) /\ CollapsesApart(G, st, n)
      /\ \A k \in 1..n : /\ Stored(G[k]) /\ Edit(G[k], st[k])
                         /\ tr[k] = ForestsOf(G[k])
                         /\ After(G, hs, k) = Done(G[k], st[k])
                         /\ Waiting(G[k], G, st, k - 1)
  BY DEF Kept, Chained
<1>2. a \in Edits /\ hs \in HeapLists /\ ForestsOf(hs) \in Trails
  BY <1>1, EditTypes DEF Stored, Trails
<1>3. /\ st2 \in Seq(Edits) /\ Len(st2) = n + 1 /\ n \in Nat
      /\ \A k \in 1..n : st2[k] = st[k]
      /\ st2[n+1] = a
  BY <1>1, <1>2, Pushed
<1>4. /\ G2 \in Seq(HeapLists) /\ Len(G2) = n + 1
      /\ \A k \in 1..n : G2[k] = G[k]
      /\ G2[n+1] = hs
  BY <1>1, <1>2, Pushed
<1>5. /\ tr2 \in Seq(Trails) /\ Len(tr2) = n + 1
      /\ \A k \in 1..n : tr2[k] = tr[k]
      /\ tr2[n+1] = ForestsOf(hs)
  BY <1>1, <1>2, Pushed
<1>6. Stored(w)
  BY <1>1, EditDone
<1> HIDE DEF w, G2, st2, tr2, n
<1>7. Waiting(w, G2, st2, n + 1) /\ CollapsesApart(G2, st2, n + 1)
  BY <1>1, <1>3, <1>4, PushKeepsWaiting DEF w
<1>8. \A k \in 1..n+1 : k \in 1..n \/ k = n + 1
  BY <1>3
<1>9. ASSUME NEW k \in 1..n+1
      PROVE  Stored(G2[k]) /\ Edit(G2[k], st2[k]) /\ tr2[k] = ForestsOf(G2[k])
  BY <1>1, <1>3, <1>4, <1>5, <1>8
<1>10. Kept(G2, w, st2, tr2)
  BY <1>3, <1>4, <1>5, <1>6, <1>7, <1>9 DEF Kept
<1>11. ASSUME NEW k \in 1..n+1
       PROVE  After(G2, w, k) = Done(G2[k], st2[k]) /\ Waiting(G2[k], G2, st2, k - 1)
  <2>1. CASE k \in 1..n
    <3>1. After(G2, w, k) = After(G, hs, k)
      <4>1. CASE k = n
        BY <1>1, <1>3, <1>4, <2>1, <4>1 DEF After
      <4>2. CASE k # n
        <5>1. k + 1 \in 1..n /\ k # n + 1
          BY <1>3, <2>1, <4>2
        <5> QED BY <5>1, <4>2, <1>1, <1>4 DEF After
      <4> QED BY <4>1, <4>2
    <3>2. k - 1 \in 0..n /\ 1..k-1 \subseteq 1..n
      BY <1>3, <2>1
    <3>3. Waiting(G[k], G2, st2, k - 1)
      <4>1. Waiting(G[k], G, st, k - 1)
        BY <1>1, <2>1
      <4>2. \A j \in 1..k-1 : G2[j] = G[j] /\ st2[j] = st[j]
        BY <1>3, <1>4, <3>2
      <4> QED BY <4>1, <4>2, <3>2, <1>3, WaitingSame
    <3> QED BY <1>1, <1>3, <1>4, <2>1, <3>1, <3>3
  <2>2. CASE k = n + 1
    <3>1. After(G2, w, k) = w
      BY <1>4, <2>2 DEF After
    <3>2. Waiting(hs, G2, st2, n)
      <4>1. n \in 0..n
        BY <1>3
      <4> QED BY ZenonT(60), <4>1, <1>1, <1>3, <1>4, WaitingSame
    <3>3. k - 1 = n
      BY <1>3, <2>2
    <3> QED BY <1>3, <1>4, <2>2, <3>1, <3>2, <3>3 DEF w
  <2> QED BY <1>8, <2>1, <2>2
<1>12. Chained(G2, w, st2, tr2)
  BY <1>3, <1>5, <1>9, <1>11 DEF Chained
<1> QED BY <1>10, <1>12 DEF w, G2, st2, tr2

LEMMA Popped ==
  ASSUME NEW X, NEW s \in Seq(X), s # <<>>
  PROVE  /\ Len(s) \in Nat \ {0} /\ Last(s) = s[Len(s)] /\ Len(s) \in 1..Len(s)
         /\ Front(s) \in Seq(X) /\ Len(Front(s)) = Len(s) - 1
         /\ \A k \in 1..Len(s)-1 : k \in 1..Len(s) /\ Front(s)[k] = s[k]
<1> DEFINE n == Len(s)
           t == SubSeq(s, 1, n - 1)
<1>1. n \in Nat \ {0}
  BY EmptySeq
<1>2. t \in Seq(X) /\ Len(t) = n - 1 /\ \A k \in 1..n-1 : t[k] = s[k]
  <2>1. \A k \in 1..n-1 : s[k] \in X
    BY <1>1
  <2>2. /\ t \in Seq(X) /\ Len(t) = (IF 1 <= n - 1 THEN (n - 1) - 1 + 1 ELSE 0)
        /\ \A k \in 1..(n-1)-1+1 : t[k] = s[1 + k - 1]
    BY <1>1, <2>1, SubSeqProperties
  <2>3. (n - 1) - 1 + 1 = n - 1 /\ \A k \in 1..n-1 : 1 + k - 1 = k
    BY <1>1
  <2> HIDE DEF t, n
  <2>4. Len(t) = n - 1
    BY <1>1, <2>2
  <2> QED BY <2>2, <2>3, <2>4
<1>3. Front(s) = t /\ Last(s) = s[n]
  BY DEF Front, Last
<1> HIDE DEF t, n
<1>4. n \in 1..n /\ \A k \in 1..n-1 : k \in 1..n
  BY <1>1
<1> QED BY <1>1, <1>2, <1>3, <1>4 DEF n

LEMMA PopKeeps ==
  ASSUME NEW G, NEW hs, NEW st, NEW tr, Kept(G, hs, st, tr), Chained(G, hs, st, tr), st # <<>>
  PROVE  /\ Kept(Front(G), Last(G), Front(st), Front(tr))
         /\ Chained(Front(G), Last(G), Front(st), Front(tr))
         /\ hs = Done(Last(G), Last(st)) /\ Stored(Last(G)) /\ Edit(Last(G), Last(st))
         /\ tr # <<>> /\ Last(tr) = ForestsOf(Last(G))
<1> DEFINE n == Len(st)
           w == Last(G)
           G2 == Front(G)
           st2 == Front(st)
           tr2 == Front(tr)
<1>1. /\ st \in Seq(Edits) /\ tr \in Seq(Trails) /\ G \in Seq(HeapLists)
      /\ Len(G) = n /\ Len(tr) = n /\ Stored(hs)
      /\ Waiting(hs, G, st, n) /\ CollapsesApart(G, st, n)
      /\ \A k \in 1..n : /\ Stored(G[k]) /\ Edit(G[k], st[k])
                         /\ tr[k] = ForestsOf(G[k])
                         /\ After(G, hs, k) = Done(G[k], st[k])
                         /\ Waiting(G[k], G, st, k - 1)
  BY DEF Kept, Chained
<1>2. G # <<>> /\ tr # <<>>
  BY <1>1
<1>3. /\ n \in Nat \ {0} /\ n \in 1..n /\ Last(st) = st[n] /\ st2 \in Seq(Edits)
      /\ Len(st2) = n - 1
      /\ \A k \in 1..n-1 : k \in 1..n /\ st2[k] = st[k]
  BY <1>1, Popped
<1>4. /\ w = G[n] /\ G2 \in Seq(HeapLists) /\ Len(G2) = n - 1
      /\ \A k \in 1..n-1 : G2[k] = G[k]
  BY <1>1, <1>2, Popped
<1>5. /\ Last(tr) = tr[n] /\ tr2 \in Seq(Trails) /\ Len(tr2) = n - 1
      /\ \A k \in 1..n-1 : tr2[k] = tr[k]
  BY <1>1, <1>2, Popped
<1> HIDE DEF w, G2, st2, tr2, n
<1>6. n - 1 \in 0..n
  BY <1>3
<1>7. Waiting(w, G2, st2, n - 1) /\ CollapsesApart(G2, st2, n - 1)
  <2>1. Waiting(w, G, st, n - 1)
    BY <1>1, <1>3, <1>4
  <2>2. \A k \in 1..n-1 : G2[k] = G[k] /\ st2[k] = st[k]
    BY <1>3, <1>4
  <2>3. n \in Nat /\ CollapsesApart(G, st, n)
    BY <1>1, <1>3
  <2> QED BY <2>1, <2>2, <2>3, <1>6, WaitingSame
<1>8. Kept(G2, w, st2, tr2)
  BY <1>1, <1>3, <1>4, <1>5, <1>7 DEF Kept
<1>9. ASSUME NEW k \in 1..n-1
      PROVE  After(G2, w, k) = Done(G2[k], st2[k]) /\ Waiting(G2[k], G2, st2, k - 1)
  <2>1. After(G2, w, k) = After(G, hs, k)
    <3>1. CASE k = n - 1
      BY <1>1, <1>3, <1>4, <3>1 DEF After
    <3>2. CASE k # n - 1
      <4>1. k + 1 \in 1..n-1 /\ k # n
        BY <1>3, <3>2
      <4> QED BY <4>1, <3>2, <1>1, <1>4 DEF After
    <3> QED BY <3>1, <3>2
  <2>2. Waiting(G[k], G2, st2, k - 1)
    <3>1. Waiting(G[k], G, st, k - 1)
      BY <1>1, <1>3
    <3>2. k - 1 \in 0..n /\ 1..k-1 \subseteq 1..n-1
      BY <1>3
    <3> QED BY ZenonT(60), <3>1, <3>2, <1>3, <1>4, WaitingSame
  <2> QED BY <2>1, <2>2, <1>1, <1>3, <1>4
<1>10. Chained(G2, w, st2, tr2)
  BY <1>1, <1>3, <1>4, <1>5, <1>9 DEF Chained
<1>11. hs = Done(w, Last(st)) /\ Stored(w) /\ Edit(w, Last(st)) /\ Last(tr) = ForestsOf(w)
  BY <1>1, <1>3, <1>4, <1>5 DEF After
<1> QED BY <1>2, <1>8, <1>10, <1>11 DEF w, G2, st2, tr2

(* unapplyReductions: the last collapse, which cuts may follow. *)
LastCollapse(st, k) ==
  /\ k \in 1..Len(st) /\ st[k].kind = "collapse"
  /\ \A j \in k+1..Len(st) : st[j].kind = "delete"

LEMMA CollapseWaiting ==
  ASSUME NEW G, NEW hs, NEW st, NEW tr, Kept(G, hs, st, tr), NEW k, LastCollapse(st, k)
  PROVE  LET a == st[k]
             i == a.tree
             n == NodeOf(G[k], a)
             f == ForestOf(G[k][i])
             g == ForestOf(hs[i])
         IN  /\ i \in Tree /\ Stores(hs[i], g) /\ n \in DOMAIN g /\ CollapseRecorded(G[k][i], n, a)
             /\ a.svtNode = (G[k][i].parent[n] = Nil)
             /\ Waits(hs[i], G[k][i], f, n)
             /\ HiddenBy(G[k], a) = Hidden(f, n)
<1> DEFINE a == st[k]
           i == a.tree
           n == NodeOf(G[k], a)
           f == ForestOf(G[k][i])
           g == ForestOf(hs[i])
<1>1. Stored(G[k]) /\ Edit(G[k], a) /\ Stored(hs) /\ Waiting(hs, G, st, Len(st)) /\ k \in 1..Len(st)
  BY DEF Kept, LastCollapse
<1>2. PICK i2, n2 : IsCut(G[k], a, i2, n2) \/ IsCollapse(G[k], a, i2, n2)
  BY <1>1, EditKinds
<1>3. i \in Tree /\ a.svtNode = (G[k][i].parent[n] = Nil) /\ CollapseRecorded(G[k][i], n, a)
  <2>1. i \in Tree /\ a = CollapseRecord(G[k][i], i, n)
    BY <1>2 DEF IsCut, IsCollapse, LastCollapse
  <2> HIDE DEF a, i, n
  <2> QED BY <2>1, CollapseRecordFields
<1>4. Stores(hs[i], g)
  BY <1>1, <1>3 DEF Stored
<1>5. WaitsFor(hs, G[k], a) /\ NodeKept(hs, G, st, Len(st), k)
  BY <1>1 DEF Waiting, LastCollapse
<1>6. n \in Reachable(hs[i])
  <2>1. ASSUME NEW j \in 1..Len(st), j > k
        PROVE  st[j].kind # "collapse"
    BY <1>1, <2>1 DEF LastCollapse
  <2> QED BY <1>5, <2>1 DEF NodeKept
<1> QED BY <1>3, <1>4, <1>5, <1>6 DEF WaitsFor, HiddenBy, ForestOf

Expansion(hs, a) == [hs EXCEPT ![a.tree] = UndoCollapse(hs[a.tree], a)]

LEMMA ExpansionStores ==
  ASSUME NEW G, NEW hs, NEW st, NEW tr, Kept(G, hs, st, tr), NEW k, LastCollapse(st, k)
  PROVE  LET a == st[k]
             i == a.tree
             n == NodeOf(G[k], a)
         IN  /\ Stored(Expansion(hs, a))
             /\ Expansion(hs, a)[i] = UndoCollapse(hs[i], a)
             /\ \A j \in Tree : j # i => Expansion(hs, a)[j] = hs[j]
             /\ ForestOf(UndoCollapse(hs[i], a))
                  = ExpandSubtree(ForestOf(hs[i]), ForestOf(G[k][i]), n)
             /\ Expandable(ForestOf(hs[i]), ForestOf(G[k][i]), n)
<1> DEFINE a == st[k]
           i == a.tree
           n == NodeOf(G[k], a)
           f == ForestOf(G[k][i])
           g == ForestOf(hs[i])
           w == UndoCollapse(hs[i], a)
<1>1. /\ i \in Tree /\ Stores(hs[i], g) /\ n \in DOMAIN g /\ CollapseRecorded(G[k][i], n, a)
      /\ Waits(hs[i], G[k][i], f, n)
  BY CollapseWaiting
<1>2. hs \in HeapLists /\ \A j \in Tree : Stores(hs[j], ForestOf(hs[j]))
  BY DEF Kept, Stored
<1> HIDE DEF n, f, g
<1>3. Stores(w, ExpandSubtree(g, f, n)) /\ Expandable(g, f, n)
  BY <1>1, ExpandStores, PendingExpandable DEF Waits
<1>4. ForestOf(w) = ExpandSubtree(g, f, n) /\ w \in Heaps
  BY <1>3, ForestOfStored, StoredForest
<1> HIDE DEF w, i, a
<1>5. Expansion(hs, a) = [hs EXCEPT ![i] = w]
  BY DEF Expansion, i, w
<1>6. /\ Expansion(hs, a) \in HeapLists /\ Expansion(hs, a)[i] = w
      /\ \A j \in Tree : j # i => Expansion(hs, a)[j] = hs[j]
  BY <1>1, <1>2, <1>4, <1>5 DEF HeapLists
<1>7. Stored(Expansion(hs, a))
  BY <1>2, <1>3, <1>4, <1>6 DEF Stored
<1> QED BY <1>3, <1>4, <1>6, <1>7 DEF a, i, n, f, g, w

LEMMA ExpansionKeepsWaiting ==
  ASSUME NEW G, NEW hs, NEW st, NEW tr, Kept(G, hs, st, tr), NEW k, LastCollapse(st, k),
         NEW b, NEW g2, b.tree \in Tree, WaitsFor(hs, g2, b),
         b.tree = st[k].tree =>
           /\ HiddenBy(g2, b) \intersect HiddenBy(G[k], st[k]) = {}
           /\ NodeOf(g2, b) # NodeOf(G[k], st[k])
  PROVE  /\ WaitsFor(Expansion(hs, st[k]), g2, b)
         /\ NodeOf(g2, b) \in Reachable(hs[b.tree])
              => NodeOf(g2, b) \in Reachable(Expansion(hs, st[k])[b.tree])
         /\ b.tree = st[k].tree /\ NodeOf(g2, b) \in HiddenBy(G[k], st[k])
              => NodeOf(g2, b) \in Reachable(Expansion(hs, st[k])[b.tree])
<1> DEFINE a == st[k]
           i == a.tree
           n == NodeOf(G[k], a)
           f == ForestOf(G[k][i])
           g == ForestOf(hs[i])
           n2 == NodeOf(g2, b)
           h2 == g2[b.tree]
           F == ForestOf(h2)
           w == Expansion(hs, a)
<1>1. /\ i \in Tree /\ Stores(hs[i], g) /\ n \in DOMAIN g /\ CollapseRecorded(G[k][i], n, a)
      /\ Waits(hs[i], G[k][i], f, n) /\ HiddenBy(G[k], a) = Hidden(f, n)
  BY CollapseWaiting
<1>2. /\ w[i] = UndoCollapse(hs[i], a)
      /\ \A j \in Tree : j # i => w[j] = hs[j]
  BY ExpansionStores
<1>3. Waits(hs[b.tree], h2, F, n2) /\ HiddenBy(g2, b) = Hidden(F, n2)
  BY DEF WaitsFor, HiddenBy
<1>4. b.tree = i => Hidden(f, n) \intersect Hidden(F, n2) = {} /\ n2 # n
  BY <1>1, <1>3
<1> HIDE DEF n, f, g, n2, h2, F, w, i, a
<1>5. CASE b.tree = i
  <2>1. /\ Waits(UndoCollapse(hs[i], a), h2, F, n2)
        /\ n2 \in Reachable(hs[i]) \union Hidden(f, n)
             => n2 \in Reachable(UndoCollapse(hs[i], a))
    BY <1>1, <1>3, <1>4, <1>5, ExpandKeepsWaiting
  <2> QED BY <2>1, <1>1, <1>2, <1>5 DEF WaitsFor, n2, h2, F, w, a
<1>6. CASE b.tree # i
  BY <1>2, <1>3, <1>6 DEF WaitsFor, n2, h2, F, w, a, i
<1> QED BY <1>5, <1>6

LEMMA ExpansionKeeps ==
  ASSUME NEW G, NEW hs, NEW st, NEW tr, Kept(G, hs, st, tr), NEW k, LastCollapse(st, k)
  PROVE  Kept(RemoveAt(G, k), Expansion(hs, st[k]), RemoveAt(st, k), tr)
<1> DEFINE N == Len(st)
           w == Expansion(hs, st[k])
           G2 == RemoveAt(G, k)
           st2 == RemoveAt(st, k)
<1>1. /\ st \in Seq(Edits) /\ tr \in Seq(Trails) /\ G \in Seq(HeapLists) /\ Len(G) = N
      /\ Stored(hs) /\ Waiting(hs, G, st, N) /\ CollapsesApart(G, st, N)
      /\ \A j \in 1..N : /\ Stored(G[j]) /\ Edit(G[j], st[j])
                         /\ \E t \in 1..Len(tr) : tr[t] = ForestsOf(G[j])
  BY DEF Kept
<1>2. k \in 1..N /\ st[k].kind = "collapse" /\ \A j \in k+1..N : st[j].kind = "delete"
  BY DEF LastCollapse
<1>3. N \in Nat
  BY <1>1
<1>4. /\ st2 \in Seq(Edits) /\ Len(st2) = N - 1
      /\ \A j \in 1..N-1 : st2[j] = IF j < k THEN st[j] ELSE st[j+1]
  BY <1>1, <1>2, RemovedParts
<1>5. /\ G2 \in Seq(HeapLists) /\ Len(G2) = N - 1
      /\ \A j \in 1..N-1 : G2[j] = IF j < k THEN G[j] ELSE G[j+1]
  BY <1>1, <1>2, RemovedParts
<1>6. Stored(w)
  BY ExpansionStores
<1> HIDE DEF w, G2, st2, N
<1>7. ASSUME NEW j \in 1..N-1
      PROVE  /\ Stored(G2[j]) /\ Edit(G2[j], st2[j])
             /\ \E t \in 1..Len(tr) : tr[t] = ForestsOf(G2[j])
  <2>1. j \in 1..N /\ j + 1 \in 1..N
    BY <1>3
  <2>2. \/ G2[j] = G[j] /\ st2[j] = st[j]
        \/ G2[j] = G[j+1] /\ st2[j] = st[j+1]
    BY <1>4, <1>5
  <2> QED BY <2>1, <2>2, <1>1
<1>8. ASSUME NEW j \in 1..N-1, st2[j].kind = "collapse"
      PROVE  j < k /\ j \in 1..N /\ st2[j] = st[j] /\ G2[j] = G[j]
  <2>1. j < k
    <3> SUFFICES ASSUME j >= k PROVE FALSE
      BY <1>2, <1>3
    <3>1. st2[j] = st[j+1] /\ j + 1 \in k+1..N
      BY <1>2, <1>3, <1>4
    <3> QED BY <3>1, <1>2, <1>8
  <2> QED BY <2>1, <1>3, <1>4, <1>5
<1>9. CollapsesApart(G2, st2, N - 1)
  <2> SUFFICES ASSUME NEW i \in 1..N-1, NEW j \in 1..N-1, i < j,
                      st2[i].kind = "collapse", st2[j].kind = "collapse",
                      st2[i].tree = st2[j].tree
               PROVE  /\ HiddenBy(G2[i], st2[i]) \intersect HiddenBy(G2[j], st2[j]) = {}
                      /\ NodeOf(G2[i], st2[i]) # NodeOf(G2[j], st2[j])
    BY DEF CollapsesApart
  <2>1. /\ i \in 1..N /\ st2[i] = st[i] /\ G2[i] = G[i]
        /\ j \in 1..N /\ st2[j] = st[j] /\ G2[j] = G[j]
    BY <1>8
  <2>2. st[i].kind = "collapse" /\ st[j].kind = "collapse" /\ st[i].tree = st[j].tree
    BY <2>1
  <2>3. /\ HiddenBy(G[i], st[i]) \intersect HiddenBy(G[j], st[j]) = {}
        /\ NodeOf(G[i], st[i]) # NodeOf(G[j], st[j])
    BY <2>1, <2>2, <1>1 DEF CollapsesApart
  <2> QED BY <2>1, <2>3
<1>10. ASSUME NEW j \in 1..N-1, st2[j].kind = "collapse"
       PROVE  WaitsFor(w, G2[j], st2[j]) /\ NodeKept(w, G2, st2, N - 1, j)
  <2> DEFINE b == st[j]
             m == NodeOf(G[j], b)
  <2>1. j < k /\ j \in 1..N /\ st2[j] = b /\ G2[j] = G[j] /\ b.kind = "collapse"
    BY <1>8, <1>10
  <2>2. WaitsFor(hs, G[j], b) /\ NodeKept(hs, G, st, N, j)
    BY <2>1, <1>1 DEF Waiting
  <2>3. b.tree \in Tree
    BY <2>1, <1>1, EditDone
  <2>4. b.tree = st[k].tree =>
          HiddenBy(G[j], b) \intersect HiddenBy(G[k], st[k]) = {} /\ m # NodeOf(G[k], st[k])
    BY <2>1, <1>1, <1>2 DEF CollapsesApart
  <2> HIDE DEF b
  <2>5. /\ WaitsFor(w, G[j], b)
        /\ m \in Reachable(hs[b.tree]) => m \in Reachable(w[b.tree])
        /\ b.tree = st[k].tree /\ m \in HiddenBy(G[k], st[k]) => m \in Reachable(w[b.tree])
    BY <2>2, <2>3, <2>4, ExpansionKeepsWaiting DEF w
  <2>6. NodeKept(w, G2, st2, N - 1, j)
    <3>1. CASE m \in Reachable(w[b.tree])
      BY <2>1, <3>1 DEF NodeKept
    <3>2. CASE m \notin Reachable(hs[b.tree])
      <4>1. PICK l \in 1..N : /\ l > j /\ st[l].kind = "collapse" /\ st[l].tree = b.tree
                              /\ m \in HiddenBy(G[l], st[l])
        BY <2>2, <3>2 DEF NodeKept, b
      <4>2. CASE l = k
        BY <2>5, <3>1, <4>1, <4>2
      <4>3. CASE l # k
        <5>1. l < k
          <6> SUFFICES ASSUME l > k PROVE FALSE
            BY <4>3, <1>2, <1>3
          <6>1. l \in k+1..N
            BY <1>2, <1>3
          <6> QED BY <6>1, <4>1, <1>2
        <5>2. l \in 1..N-1 /\ st2[l] = st[l] /\ G2[l] = G[l]
          BY <5>1, <1>2, <1>3, <1>4, <1>5
        <5> QED BY <4>1, <5>2, <2>1 DEF NodeKept
      <4> QED BY <4>2, <4>3
    <3> QED BY <2>5, <3>1, <3>2
  <2> QED BY <2>1, <2>5, <2>6
<1>11. Waiting(w, G2, st2, N - 1)
  BY <1>10 DEF Waiting
<1>12. Kept(G2, w, st2, tr)
  BY <1>1, <1>4, <1>5, <1>6, <1>7, <1>9, <1>11 DEF Kept
<1> QED BY <1>12 DEF G2, w, st2

-----------------------------------------------------------------------------
(* The inductive invariant: G are the heaps before the actions of the stack. *)
KeptSince(G) == Kept(G, heap, stack, trail) /\ (~final => Chained(G, heap, stack, trail))

IInv == \E G : KeptSince(G)

(* The do of an action, whichever it is. *)
Push(a) ==
  /\ Edit(heap, a) /\ heap' = Done(heap, a) /\ ~final /\ final' = final
  /\ stack' = Append(stack, a) /\ trail' = Append(trail, ForestsOf(heap))

LEMMA ForestsNow == Forests = ForestsOf(heap)
BY DEF Forests, ForestsOf

LEMMA DeletePushes ==
  ASSUME Stored(heap), NEW i \in Tree, NEW n \in Node, DeleteEdge(i, n)
  PROVE  /\ Push(DeleteRecord(heap[i], i, n))
         /\ IsCut(heap, DeleteRecord(heap[i], i, n), i, n)
<1> DEFINE h == heap[i]
           a == DeleteRecord(h, i, n)
<1>1. /\ ~final /\ final' = final /\ n \in Reachable(h) /\ h.parent[n] # Nil
      /\ heap' = [heap EXCEPT ![i] = DoDelete(h, EdgeAbove(h, n)).heap]
      /\ stack' = Append(stack, a) /\ trail' = Append(trail, ForestsOf(heap))
  BY ForestsNow DEF DeleteEdge
<1>2. a.kind = "delete" /\ a.tree = i /\ a.child = n
  BY DeleteRecordFields
<1> HIDE DEF a
<1>3. heap' = Done(heap, a)
  BY <1>1, <1>2 DEF Done, DoneTo
<1>4. Edit(heap, a)
  BY <1>1 DEF Edit, a
<1>5. IsCut(heap, a, i, n)
  BY <1>1, <1>2 DEF IsCut, ForestOf, a
<1> QED BY <1>1, <1>3, <1>4, <1>5 DEF Push, a

LEMMA CollapsePushes ==
  ASSUME Stored(heap), NEW i \in Tree, NEW n \in Node, Collapse(i, n)
  PROVE  /\ Push(CollapseRecord(heap[i], i, n))
         /\ IsCollapse(heap, CollapseRecord(heap[i], i, n), i, n)
<1> DEFINE h == heap[i]
           a == CollapseRecord(h, i, n)
           f == ForestOf(h)
<1>1. /\ ~final /\ final' = final /\ n \in Reachable(h) /\ h.left[n] # Nil
      /\ heap' = [heap EXCEPT ![i] = DoCollapse(h, n).heap]
      /\ stack' = Append(stack, a) /\ trail' = Append(trail, ForestsOf(heap))
  BY ForestsNow DEF Collapse
<1>2. a.kind = "collapse" /\ a.tree = i /\ a.left = h.left[n]
  BY CollapseRecordFields
<1>3. Stores(h, f) /\ n \in DOMAIN f
  BY <1>1 DEF Stored, ForestOf
<1>4. h.parent[h.left[n]] = n /\ ~IsTerminal(f, n)
  BY <1>1, <1>3, StoredChildren
<1> HIDE DEF a
<1>5. NodeOf(heap, a) = n
  BY <1>2, <1>4 DEF NodeOf
<1>6. heap' = Done(heap, a)
  BY <1>1, <1>2, <1>5 DEF Done, DoneTo
<1>7. Edit(heap, a)
  BY <1>1 DEF Edit, a
<1>8. IsCollapse(heap, a, i, n)
  BY <1>1, <1>2, <1>3, <1>4, <1>5 DEF IsCollapse, a
<1> QED BY <1>1, <1>6, <1>7, <1>8 DEF Push, a

LEMMA UndoPops ==
  ASSUME NEW G, KeptSince(G), Undo
  PROVE  /\ heap' = Last(G) /\ heap = Done(Last(G), Last(stack))
         /\ Stored(Last(G)) /\ Edit(Last(G), Last(stack))
         /\ stack # <<>> /\ stack' = Front(stack)
         /\ trail # <<>> /\ Last(trail) = ForestsOf(Last(G)) /\ trail' = Front(trail)
         /\ ~final /\ final' = final
<1> DEFINE a == Last(stack)
           g == Last(G)
<1>1. /\ ~final /\ final' = final /\ stack # <<>>
      /\ stack' = Front(stack) /\ trail' = Front(trail)
      /\ \/ a.kind = "delete" /\ UndoDelete(a)
         \/ a.kind = "collapse" /\ UndoCollapseAction(a)
  BY DEF Undo
<1>2. Kept(G, heap, stack, trail) /\ Chained(G, heap, stack, trail)
  BY <1>1 DEF KeptSince
<1>3. heap = Done(g, a) /\ Stored(g) /\ Edit(g, a) /\ trail # <<>> /\ Last(trail) = ForestsOf(g)
  BY <1>1, <1>2, PopKeeps
<1>4. heap' = [heap EXCEPT ![a.tree] = Undone(heap[a.tree], a)]
  BY <1>1 DEF UndoDelete, UndoCollapseAction, Undone, UndoCut
<1>5. heap[a.tree] = DoneTo(g, a)
  BY <1>3, EditDone
<1>6. heap' = g
  BY <1>3, <1>4, <1>5, EditDone
<1> QED BY <1>1, <1>3, <1>6

LEMMA ReductionUnapplied ==
  ASSUME stack \in Seq(Edits), UnapplyReduction
  PROVE  \E k : /\ LastCollapse(stack, k) /\ heap' = Expansion(heap, stack[k])
                /\ stack' = RemoveAt(stack, k) /\ trail' = trail /\ final'
<1>1. PICK k \in DOMAIN stack :
        /\ stack[k].kind = "collapse"
        /\ \A j \in k+1..Len(stack) : stack[j].kind = "delete"
        /\ UndoCollapseAction(stack[k])
        /\ stack' = RemoveAt(stack, k) /\ final' = TRUE /\ UNCHANGED trail
  BY DEF UnapplyReduction
<1>2. k \in 1..Len(stack)
  OBVIOUS
<1>3. heap' = Expansion(heap, stack[k])
  BY <1>1 DEF Expansion, UndoCollapseAction
<1> QED BY <1>1, <1>2, <1>3 DEF LastCollapse

LEMMA InitKeeps == Init => IInv
<1> SUFFICES ASSUME Init PROVE KeptSince(<<>>)
  BY DEF IInv
<1>1. heap = Parsed /\ stack = <<>> /\ trail = <<>>
  BY DEF Init
<1>2. Stored(Parsed)
  <2>1. \A i \in Tree : Stores(Parsed[i], ForestOf(Parsed[i])) /\ Parsed[i] \in Heaps
    BY PointersAssumption, StoredForest
  <2> QED BY <2>1, PointersAssumption DEF Stored, HeapLists
<1>3. /\ <<>> \in Seq(Edits) /\ <<>> \in Seq(Trails) /\ <<>> \in Seq(HeapLists)
      /\ Len(<<>>) = 0
  OBVIOUS
<1>4. \A k \in 1..0 : FALSE
  OBVIOUS
<1>5. Waiting(heap, <<>>, <<>>, 0) /\ CollapsesApart(<<>>, <<>>, 0)
  BY <1>4 DEF Waiting, CollapsesApart
<1>6. Kept(<<>>, heap, stack, trail) /\ Chained(<<>>, heap, stack, trail)
  BY <1>1, <1>2, <1>3, <1>4, <1>5 DEF Kept, Chained
<1> QED BY <1>6 DEF KeptSince

LEMMA StepKeeps == IInv /\ [Next]_vars => IInv'
<1> SUFFICES ASSUME IInv, [Next]_vars PROVE IInv'
  OBVIOUS
<1>1. PICK G : KeptSince(G)
  BY DEF IInv
<1>2. Kept(G, heap, stack, trail) /\ Stored(heap) /\ stack \in Seq(Edits)
  BY <1>1 DEF KeptSince, Kept
<1>3. ASSUME NEW a, Push(a)
      PROVE  IInv'
  <2>1. /\ Edit(heap, a) /\ heap' = Done(heap, a) /\ ~final /\ final' = final
        /\ stack' = Append(stack, a) /\ trail' = Append(trail, ForestsOf(heap))
    BY <1>3 DEF Push
  <2>2. Chained(G, heap, stack, trail)
    BY <1>1, <2>1 DEF KeptSince
  <2>3. PICK H : H = Append(G, heap)
    OBVIOUS
  <2>4. Kept(H, heap', stack', trail') /\ Chained(H, heap', stack', trail')
    BY <1>2, <2>1, <2>2, <2>3, PushKeeps
  <2>5. KeptSince(H)'
    BY <2>4 DEF KeptSince
  <2> QED BY <2>5 DEF IInv
<1>4. CASE \E i \in Tree : \E n \in Node : DeleteEdge(i, n)
  BY <1>2, <1>3, <1>4, DeletePushes
<1>5. CASE \E i \in Tree : \E n \in Node : Collapse(i, n)
  BY <1>2, <1>3, <1>5, CollapsePushes
<1>6. CASE Undo
  <2>1. /\ heap' = Last(G) /\ stack # <<>> /\ stack' = Front(stack) /\ trail' = Front(trail)
        /\ ~final /\ final' = final
    BY <1>1, <1>6, UndoPops
  <2>2. Kept(G, heap, stack, trail) /\ Chained(G, heap, stack, trail)
    BY <1>1, <2>1 DEF KeptSince
  <2>3. KeptSince(Front(G))'
    BY <2>1, <2>2, PopKeeps DEF KeptSince
  <2> QED BY <2>3 DEF IInv
<1>7. CASE UnapplyReduction
  <2>1. PICK k : /\ LastCollapse(stack, k) /\ heap' = Expansion(heap, stack[k])
                 /\ stack' = RemoveAt(stack, k) /\ trail' = trail /\ final'
    BY <1>2, <1>7, ReductionUnapplied
  <2>2. KeptSince(RemoveAt(G, k))'
    BY <1>2, <2>1, ExpansionKeeps DEF KeptSince
  <2> QED BY <2>2 DEF IInv
<1>8. CASE UNCHANGED vars
  BY <1>8 DEF IInv, KeptSince, vars
<1> QED BY <1>4, <1>5, <1>6, <1>7, <1>8 DEF Next

LEMMA AlwaysKept == Spec => []IInv
<1> QED BY InitKeeps, StepKeeps, PTL DEF Spec

(***************************************************************************)
(* The pointers, root lists and label maps of every forest agree after     *)
(* every edit and undo, in order or not (Forest::isValid, checkTriple).    *)
(***************************************************************************)
THEOREM AlwaysPointersAgree == Spec => []PointersAgree
<1>1. IInv => PointersAgree
  BY StoredIsValid DEF IInv, KeptSince, Kept, Stored, PointersAgree
<1> QED BY <1>1, AlwaysKept, PTL

-----------------------------------------------------------------------------
(* ForestEditing, with the forests of the heaps. *)

LEMMA SameOperators ==
  ASSUME NEW f, NEW h, NEW n, NEW p
  PROVE  /\ Abstract!Below(f, n, p) = Below(f, n, p)
         /\ Abstract!IsParent(f, p, n) = IsParent(f, p, n)
         /\ Abstract!IsTerminal(f, n) = IsTerminal(f, n)
         /\ Abstract!CutEdge(f, n, p) = CutEdge(f, n, p)
         /\ Abstract!CollapseSubtree(f, n) = CollapseSubtree(f, n)
         /\ Abstract!ExpandSubtree(f, h, n) = ExpandSubtree(f, h, n)
<1>1. \A g, m, q : Abstract!Below(g, m, q) = Below(g, m, q)
  BY DEF Abstract!Below, Below
<1>2. Abstract!IsParent(f, p, n) = IsParent(f, p, n)
  BY DEF Abstract!IsParent, IsParent, Abstract!Below, Below
<1>3. Abstract!IsTerminal(f, n) = IsTerminal(f, n)
  BY DEF Abstract!IsTerminal, IsTerminal, Abstract!Below, Below
<1>4. Abstract!CutEdge(f, n, p) = CutEdge(f, n, p)
  BY DEF Abstract!CutEdge, CutEdge, Abstract!Below, Below
<1>5. Abstract!CollapseSubtree(f, n) = CollapseSubtree(f, n)
  BY DEF Abstract!CollapseSubtree, CollapseSubtree, Abstract!Below, Below
<1>6. Abstract!ExpandSubtree(f, h, n) = ExpandSubtree(f, h, n)
  BY DEF Abstract!ExpandSubtree, ExpandSubtree, Abstract!Below, Below
<1> QED BY <1>1, <1>2, <1>3, <1>4, <1>5, <1>6

LEMMA ForestsAfter ==
  ASSUME NEW g \in HeapLists, NEW i \in Tree, NEW w, NEW g2, g2 = [g EXCEPT ![i] = w]
  PROVE  ForestsOf(g2) = [ForestsOf(g) EXCEPT ![i] = ForestOf(w)]
BY DEF ForestsOf, HeapLists

LEMMA DeleteImplements ==
  ASSUME Stored(heap), NEW i \in Tree, NEW n \in Node, DeleteEdge(i, n)
  PROVE  Abstract!Next
<1> DEFINE h == heap[i]
           f == ForestOf(h)
           p == h.parent[n]
           w == DoDelete(h, EdgeAbove(h, n)).heap
<1>1. /\ ~final /\ final' = final /\ n \in DOMAIN f /\ p # Nil
      /\ heap' = [heap EXCEPT ![i] = w] /\ trail' = Append(trail, Forests)
  BY DEF DeleteEdge, ForestOf
<1>2. heap \in HeapLists /\ Stores(h, f)
  BY DEF Stored
<1> HIDE DEF f, h, w
<1>3. p \in DOMAIN f /\ IsParent(f, p, n)
  BY <1>1, <1>2, StoredParent
<1>4. ForestOf(w) = CutEdge(f, n, p)
  BY <1>1, <1>2, CutStores, ForestOfStored DEF w
<1> HIDE DEF p
<1>5. Forests = ForestsOf(heap) /\ Forests' = ForestsOf(heap') /\ Forests[i] = f
  BY DEF Forests, ForestsOf, f, h
<1>6. Forests' = [Forests EXCEPT ![i] = CutEdge(f, n, p)]
  <2>1. ForestsOf(heap') = [ForestsOf(heap) EXCEPT ![i] = ForestOf(w)]
    BY <1>1, <1>2, ForestsAfter
  <2> QED BY <2>1, <1>4, <1>5
<1>7. /\ Abstract!IsParent(Forests[i], p, n)
      /\ Forests' = [Forests EXCEPT ![i] = Abstract!CutEdge(Forests[i], n, p)]
  <2>1. Abstract!IsParent(f, p, n) /\ Abstract!CutEdge(f, n, p) = CutEdge(f, n, p)
    BY <1>3, SameOperators
  <2> QED BY <2>1, <1>5, <1>6
<1>8. Abstract!DeleteEdge(i, n, p)
  BY <1>1, <1>7 DEF Abstract!DeleteEdge
<1> QED BY <1>1, <1>3, <1>5, <1>8 DEF Abstract!Next

LEMMA CollapseImplements ==
  ASSUME Stored(heap), NEW i \in Tree, NEW n \in Node, Collapse(i, n)
  PROVE  Abstract!Next
<1> DEFINE h == heap[i]
           f == ForestOf(h)
           w == DoCollapse(h, n).heap
<1>1. /\ ~final /\ final' = final /\ n \in DOMAIN f /\ h.left[n] # Nil
      /\ heap' = [heap EXCEPT ![i] = w] /\ trail' = Append(trail, Forests)
  BY DEF Collapse, ForestOf
<1>2. heap \in HeapLists /\ Stores(h, f)
  BY DEF Stored
<1> HIDE DEF f, h, w
<1>3. ~IsTerminal(f, n)
  BY <1>1, <1>2, StoredChildren
<1>4. ForestOf(w) = CollapseSubtree(f, n)
  BY <1>1, <1>2, <1>3, CollapseStores, ForestOfStored DEF w
<1>5. Forests = ForestsOf(heap) /\ Forests' = ForestsOf(heap') /\ Forests[i] = f
  BY DEF Forests, ForestsOf, f, h
<1>6. Forests' = [Forests EXCEPT ![i] = CollapseSubtree(f, n)]
  <2>1. ForestsOf(heap') = [ForestsOf(heap) EXCEPT ![i] = ForestOf(w)]
    BY <1>1, <1>2, ForestsAfter
  <2> QED BY <2>1, <1>4, <1>5
<1>7. /\ ~Abstract!IsTerminal(Forests[i], n)
      /\ Forests' = [Forests EXCEPT ![i] = Abstract!CollapseSubtree(Forests[i], n)]
  <2>1. ~Abstract!IsTerminal(f, n) /\ Abstract!CollapseSubtree(f, n) = CollapseSubtree(f, n)
    BY <1>3, SameOperators
  <2> QED BY <2>1, <1>5, <1>6
<1>8. Abstract!Collapse(i, n)
  BY <1>1, <1>7 DEF Abstract!Collapse
<1> QED BY <1>1, <1>5, <1>8 DEF Abstract!Next

LEMMA UndoImplements ==
  ASSUME NEW G, KeptSince(G), Undo
  PROVE  Abstract!Next
<1>1. /\ heap' = Last(G) /\ trail # <<>> /\ trail' = Front(trail)
      /\ Last(trail) = ForestsOf(Last(G)) /\ ~final /\ final' = final
  BY UndoPops
<1>2. Forests' = trail[Len(trail)]
  BY <1>1 DEF Forests, ForestsOf, Last
<1>3. trail' = SubSeq(trail, 1, Len(trail) - 1)
  BY <1>1 DEF Front
<1>4. Abstract!Undo
  BY <1>1, <1>2, <1>3 DEF Abstract!Undo
<1> QED BY <1>4 DEF Abstract!Next

LEMMA UnapplyImplements ==
  ASSUME NEW G, KeptSince(G), UnapplyReduction
  PROVE  Abstract!Next
<1>1. Kept(G, heap, stack, trail) /\ Stored(heap) /\ stack \in Seq(Edits)
  BY DEF KeptSince, Kept
<1>2. PICK k : /\ LastCollapse(stack, k) /\ heap' = Expansion(heap, stack[k])
               /\ stack' = RemoveAt(stack, k) /\ trail' = trail /\ final'
  BY <1>1, ReductionUnapplied
<1> DEFINE a == stack[k]
           i == a.tree
           n == NodeOf(G[k], a)
           h == G[k][i]
           f == ForestOf(h)
           g == ForestOf(heap[i])
           w == UndoCollapse(heap[i], a)
<1>3. /\ i \in Tree /\ n \in DOMAIN g /\ Expandable(g, f, n)
      /\ ForestOf(w) = ExpandSubtree(g, f, n)
  BY <1>1, <1>2, CollapseWaiting, ExpansionStores
<1>4. PICK t \in 1..Len(trail) : trail[t] = ForestsOf(G[k])
  BY <1>1, <1>2 DEF Kept, LastCollapse
<1>5. heap \in HeapLists /\ heap' = [heap EXCEPT ![i] = w]
  BY <1>1, <1>2 DEF Stored, Expansion
<1>6. trail[t][i] = f /\ Forests[i] = g /\ Forests = ForestsOf(heap) /\ Forests' = ForestsOf(heap')
  BY <1>3, <1>4 DEF ForestsOf, Forests
<1> HIDE DEF i, n, f, g, w, h
<1>7. Forests' = [Forests EXCEPT ![i] = ExpandSubtree(g, f, n)]
  <2>1. ForestsOf(heap') = [ForestsOf(heap) EXCEPT ![i] = ForestOf(w)]
    BY <1>3, <1>5, ForestsAfter
  <2> QED BY <2>1, <1>3, <1>6
<1>8. /\ IsTerminal(g, n) /\ n \in DOMAIN f /\ f[n] = g[n] /\ ~IsTerminal(f, n)
      /\ \A m \in DOMAIN f : Below(f, m, n) => m \notin DOMAIN g
  BY <1>3 DEF Expandable, Hidden
<1>9. /\ Abstract!IsTerminal(g, n) /\ ~Abstract!IsTerminal(f, n)
      /\ Abstract!ExpandSubtree(g, f, n) = ExpandSubtree(g, f, n)
      /\ \A m : Abstract!Below(f, m, n) = Below(f, m, n)
  BY <1>8, SameOperators
<1>10. Abstract!Expand(i, n, trail[t])
  BY <1>2, <1>6, <1>7, <1>8, <1>9 DEF Abstract!Expand
<1> QED BY <1>3, <1>4, <1>6, <1>10 DEF Abstract!Next

(***************************************************************************)
(* The pointer surgery does the abstract edits, and each undo gives back   *)
(* exactly the forests of before: for every instance, every sequence of    *)
(* edits and undos, and the unapplying of reductions after it.             *)
(***************************************************************************)
THEOREM PointersImplementEditing == Spec => Implements
<1>1. Init => Abstract!Init
  BY DEF Init, Abstract!Init, Forests, Start
<1>2. IInv /\ [Next]_vars => [Abstract!Next]_(Abstract!vars)
  <2> SUFFICES ASSUME IInv, [Next]_vars PROVE [Abstract!Next]_(Abstract!vars)
    OBVIOUS
  <2>1. PICK G : KeptSince(G)
    BY DEF IInv
  <2>2. Stored(heap)
    BY <2>1 DEF KeptSince, Kept
  <2>3. CASE \E i \in Tree : \E n \in Node : DeleteEdge(i, n)
    BY <2>2, <2>3, DeleteImplements
  <2>4. CASE \E i \in Tree : \E n \in Node : Collapse(i, n)
    BY <2>2, <2>4, CollapseImplements
  <2>5. CASE Undo
    BY <2>1, <2>5, UndoImplements
  <2>6. CASE UnapplyReduction
    BY <2>1, <2>6, UnapplyImplements
  <2>7. CASE UNCHANGED vars
    BY <2>7 DEF vars, Abstract!vars, Forests
  <2> QED BY <2>3, <2>4, <2>5, <2>6, <2>7 DEF Next
<1> QED BY <1>1, <1>2, AlwaysKept, PTL DEF Spec, Implements, Abstract!Spec

-----------------------------------------------------------------------------
(* The labels that are a tree of their own. *)

Single(h, x) ==
  \E k \in DOMAIN h.roots : LET r == h.roots[k] IN h.left[r] = Nil /\ x \in h.terms[r]

SingleIn(f, x) == \E r \in Roots(f) : IsTerminal(f, r) /\ x \in f[r]

LEMMA SingleStored ==
  ASSUME NEW h, NEW f, Stores(h, f), NEW x
  PROVE  Single(h, x) <=> SingleIn(f, x)
<1>1. Range(h.roots) = Roots(f)
  BY StoredForest
<1>2. \A r \in Roots(f) : h.left[r] = Nil <=> IsTerminal(f, r)
  BY StoredChildren DEF Roots
<1>3. \A r \in Roots(f) : h.terms[r] = f[r]
  BY StoredNode DEF Roots
<1> QED BY <1>1, <1>2, <1>3 DEF Single, SingleIn, Range

LEMMA CutSingles ==
  ASSUME NEW h, NEW f, NEW c, NEW p, NEW s, Edge(h, f, c, p, s), NEW e, e = CutEdge(f, c, p), NEW x
  PROVE  LET added == \/ IsTerminal(f, c) /\ x \in f[c]
                      \/ p \in Roots(f) /\ IsTerminal(f, s) /\ x \in f[s]
         IN  /\ SingleIn(e, x) <=> SingleIn(f, x) \/ added
             /\ added => ~SingleIn(f, x)
<1>1. /\ Distinct(f) /\ Laminar(f)
      /\ c \in DOMAIN f /\ p \in DOMAIN f /\ s \in DOMAIN f /\ c # p /\ s # p
      /\ IsParent(f, p, c) /\ IsParent(f, p, s) /\ AreChildren(f, c, s, p)
  BY EdgeFacts, StoredForest DEF Edge
<1>2. DOMAIN e = DOMAIN f \ {p}
  BY CutNodes
<1>3. ~IsTerminal(f, p)
  BY <1>1 DEF IsTerminal, AreChildren
<1>4. ASSUME NEW r \in DOMAIN f, r # p
      PROVE  /\ IsTerminal(e, r) <=> IsTerminal(f, r)
             /\ IsTerminal(f, r) => e[r] = f[r]
  <2>1. r \in DOMAIN f \ {p}
    BY <1>4
  <2>2. IsTerminal(e, r) <=> IsTerminal(f, r)
    BY <2>1, CutTerminals
  <2>3. e[r] = IF Below(f, c, r) THEN f[r] \ f[c] ELSE f[r]
    BY <2>1 DEF CutEdge
  <2>4. IsTerminal(f, r) => ~Below(f, c, r)
    BY <1>1 DEF IsTerminal
  <2> QED BY <2>2, <2>3, <2>4
<1>5. ASSUME NEW r \in Roots(f), r # p
      PROVE  r \in Roots(e)
  BY <1>1, <1>5, CutKeepsRoots
<1>6. c \in Roots(e) /\ (p \in Roots(f) => s \in Roots(e))
  BY <1>1, CutMakesRoot, CutFreesSibling
<1>7. ASSUME NEW r \in Roots(e)
      PROVE  r \in DOMAIN f /\ r # p /\ (r \in Roots(f) \/ r = c \/ (r = s /\ p \in Roots(f)))
  <2>1. r \in DOMAIN f /\ r # p
    BY <1>2 DEF Roots
  <2>2. r # c /\ r \notin Roots(f) => r = s /\ p \in Roots(f)
    BY <1>1, <1>7, CutMakesNoOther
  <2> QED BY <2>1, <2>2
<1>8. Roots(f) \subseteq DOMAIN f
  BY DEF Roots
<1>9. c \notin Roots(f) /\ s \notin Roots(f)
  BY <1>1 DEF Roots, IsRoot, AreChildren
<1>10. ASSUME NEW r \in Roots(f), IsTerminal(f, r), x \in f[r],
              NEW m \in DOMAIN f, IsTerminal(f, m), x \in f[m]
       PROVE  m = r
  <2>1. f[m] \intersect f[r] # {} /\ m \in Terminals(f) /\ r \in Terminals(f)
    BY <1>8, <1>10 DEF Terminals
  <2> QED BY <2>1, <1>1, TerminalsApart
<1>11. SingleIn(e, x) => \/ SingleIn(f, x)
                         \/ IsTerminal(f, c) /\ x \in f[c]
                         \/ p \in Roots(f) /\ IsTerminal(f, s) /\ x \in f[s]
  BY <1>4, <1>7 DEF SingleIn
<1>12. SingleIn(f, x) => SingleIn(e, x)
  BY <1>3, <1>4, <1>5, <1>8 DEF SingleIn
<1>13. IsTerminal(f, c) /\ x \in f[c] => SingleIn(e, x)
  BY <1>1, <1>4, <1>6 DEF SingleIn
<1>14. p \in Roots(f) /\ IsTerminal(f, s) /\ x \in f[s] => SingleIn(e, x)
  BY <1>1, <1>4, <1>6 DEF SingleIn
<1>15. IsTerminal(f, c) /\ x \in f[c] => ~SingleIn(f, x)
  BY <1>1, <1>9, <1>10 DEF SingleIn
<1>16. IsTerminal(f, s) /\ x \in f[s] => ~SingleIn(f, x)
  BY <1>1, <1>9, <1>10 DEF SingleIn
<1> QED BY <1>11, <1>12, <1>13, <1>14, <1>15, <1>16

LEMMA CollapseSingles ==
  ASSUME NEW h, NEW f, Stores(h, f), NEW n \in DOMAIN f, ~IsTerminal(f, n),
         NEW e, e = CollapseSubtree(f, n), NEW x
  PROVE  LET added == n \in Roots(f) /\ x \in f[n]
         IN  /\ SingleIn(e, x) <=> SingleIn(f, x) \/ added
             /\ added => ~SingleIn(f, x)
<1>1. Distinct(f) /\ Laminar(f) /\ Binary(f)
  BY StoredForest
<1>2. \A m \in DOMAIN e : m \in DOMAIN f /\ e[m] = f[m]
  BY CollapseNodes
<1>3. Roots(e) = Roots(f) /\ Roots(e) \subseteq DOMAIN e
  BY <1>1, CollapseRoots DEF Roots
<1>4. IsTerminal(e, n) /\ \A m \in DOMAIN e : m # n => (IsTerminal(e, m) <=> IsTerminal(f, m))
  BY <1>1, CollapseTerminals
<1>5. SingleIn(e, x) <=> SingleIn(f, x) \/ (n \in Roots(f) /\ x \in f[n])
  BY <1>2, <1>3, <1>4 DEF SingleIn
<1>6. ASSUME n \in Roots(f), x \in f[n], NEW r \in Roots(f), IsTerminal(f, r), x \in f[r]
      PROVE  FALSE
  BY <1>1, <1>6, RootsApart DEF Roots
<1> QED BY <1>5, <1>6 DEF SingleIn

(* The labels that an action makes a tree of their own, in the heaps hs. *)
Singled(hs, a) ==
  LET h == hs[a.tree]
  IN  IF a.kind = "delete"
      THEN LabelsIf(a.svtChild, h.terms[a.child]) \union LabelsIf(a.svtSibling, h.terms[a.sibling])
      ELSE LabelsIf(a.svtNode, h.terms[h.labelToTerminal[a.label]])

(* What the do of a counts: as Singled, of the heaps before it. *)
Added(g, a) ==
  LET h == g[a.tree]
  IN  IF a.kind = "delete"
      THEN LabelsIf(a.svtChild, h.terms[a.child]) \union LabelsIf(a.svtSibling, h.terms[a.sibling])
      ELSE LabelsIf(a.svtNode, h.terms[NodeOf(g, a)])

LEMMA CutSinglesAdded ==
  ASSUME NEW g, Stored(g), NEW a, NEW i, NEW n, IsCut(g, a, i, n), NEW x \in Label
  PROVE  /\ Singled(Done(g, a), a) = Added(g, a) /\ Added(g, a) \subseteq Label
         /\ Single(DoneTo(g, a), x) <=> Single(g[i], x) \/ x \in Added(g, a)
         /\ x \in Added(g, a) => ~Single(g[i], x)
<1> DEFINE h == g[i]
           f == ForestOf(h)
           p == h.parent[n]
           s == h.sibling[n]
           w == DoneTo(g, a)
           e == CutEdge(f, n, p)
           A == Added(g, a)
<1>1. /\ i \in Tree /\ a.tree = i /\ n \in DOMAIN f /\ a.kind = "delete" /\ a.child = n
      /\ h.parent[n] # Nil /\ a = DeleteRecord(h, i, n) /\ Stores(h, f)
  BY DEF IsCut, Stored
<1>2. Edge(h, f, n, p, s)
  BY <1>1 DEF Edge
<1>3. w = DoDelete(h, EdgeAbove(h, n)).heap
  BY <1>1 DEF DoneTo
<1>4. Stores(w, e)
  BY <1>1, <1>3, CutStores
<1>5. /\ p \in DOMAIN f /\ s \in DOMAIN f /\ n # p /\ s # p
      /\ AreChildren(f, n, s, p) /\ f[n] \intersect f[s] = {} /\ f[n] # {}
  <2>1. n \in DOMAIN f /\ f[n] # {}
    BY <1>1, StoredNode
  <2> QED BY <1>2, <2>1, EdgeFacts
<1>6. EdgeAbove(h, n).sibling = s /\ (EdgeAbove(h, n).parentIsRoot <=> p \in Roots(f))
  <2>1. Range(h.roots) = Roots(f)
    BY <1>1, StoredForest
  <2> QED BY <2>1 DEF EdgeAbove, Range
<1>7. n \in DOMAIN e /\ s \in DOMAIN e /\ e[n] = f[n] /\ e[s] = f[s]
  BY <1>1, <1>5 DEF CutEdge, Below
<1>8. /\ IsTerminal(e, n) <=> IsTerminal(f, n)
      /\ IsTerminal(e, s) <=> IsTerminal(f, s)
  <2>1. n \in DOMAIN f \ {p} /\ s \in DOMAIN f \ {p}
    BY <1>1, <1>5
  <2> QED BY <1>2, <2>1, CutTerminals
<1>9. /\ a.svtChild = (w.left[n] = Nil) /\ a.sibling = s
      /\ a.svtSibling = (EdgeAbove(h, n).parentIsRoot /\ w.left[s] = Nil)
  <2>1. EdgeAbove(h, n).sibling = s
    BY DEF EdgeAbove
  <2> HIDE DEF h, w, s
  <2> QED BY <1>1, <1>3, <2>1, DeleteRecordFields DEF s
<1>10. /\ w.left[n] = Nil <=> IsTerminal(f, n)
       /\ w.left[s] = Nil <=> IsTerminal(f, s)
       /\ w.terms[n] = f[n] /\ w.terms[s] = f[s]
  BY SMTT(30), <1>4, <1>7, <1>8, StoredChildren, StoredNode
<1>11. h.terms[n] = f[n] /\ h.terms[s] = f[s] /\ f[n] \subseteq Label /\ f[s] \subseteq Label
  BY <1>1, <1>5, StoredNode
<1>12. Done(g, a)[i] = w
  BY <1>1 DEF Done, Stored, HeapLists
<1> HIDE DEF h, w, f, e, p, s
<1>13. Singled(Done(g, a), a) = LabelsIf(a.svtChild, f[n]) \union LabelsIf(a.svtSibling, f[s])
  BY <1>1, <1>9, <1>10, <1>12 DEF Singled
<1>14. A = LabelsIf(a.svtChild, f[n]) \union LabelsIf(a.svtSibling, f[s])
  BY <1>1, <1>9, <1>11 DEF Added, h
<1>15. x \in A <=> \/ IsTerminal(f, n) /\ x \in f[n]
                   \/ p \in Roots(f) /\ IsTerminal(f, s) /\ x \in f[s]
  <2>1. a.svtChild <=> IsTerminal(f, n)
    BY <1>9, <1>10
  <2>2. a.svtSibling <=> p \in Roots(f) /\ IsTerminal(f, s)
    BY <1>6, <1>9, <1>10
  <2> QED BY <1>14, <2>1, <2>2 DEF LabelsIf
<1>16. A \subseteq Label
  BY <1>11, <1>14 DEF LabelsIf
<1>17. /\ SingleIn(e, x) <=> SingleIn(f, x) \/ x \in A
       /\ x \in A => ~SingleIn(f, x)
  BY <1>2, <1>15, CutSingles DEF e
<1>18. (Single(w, x) <=> SingleIn(e, x)) /\ (Single(h, x) <=> SingleIn(f, x))
  BY <1>1, <1>4, SingleStored
<1> QED BY <1>13, <1>14, <1>16, <1>17, <1>18 DEF h, w

LEMMA CollapseSinglesAdded ==
  ASSUME NEW g, Stored(g), NEW a, NEW i, NEW n, IsCollapse(g, a, i, n), NEW x \in Label
  PROVE  /\ Singled(Done(g, a), a) = Added(g, a) /\ Added(g, a) \subseteq Label
         /\ Single(DoneTo(g, a), x) <=> Single(g[i], x) \/ x \in Added(g, a)
         /\ x \in Added(g, a) => ~Single(g[i], x)
<1> DEFINE h == g[i]
           f == ForestOf(h)
           w == DoneTo(g, a)
           e == CollapseSubtree(f, n)
           A == Added(g, a)
<1>1. /\ i \in Tree /\ a.tree = i /\ n \in DOMAIN f /\ a.kind = "collapse" /\ NodeOf(g, a) = n
      /\ ~IsTerminal(f, n) /\ a = CollapseRecord(h, i, n) /\ Stores(h, f)
  BY DEF IsCollapse, Stored
<1>2. w = DoCollapse(h, n).heap
  BY <1>1 DEF DoneTo
<1>3. Stores(w, e) /\ Collapsed(h, f, n, w)
  <2>1. Stores(DoCollapse(h, n).heap, e)
    BY <1>1, CollapseStores
  <2>2. Collapsed(h, f, n, DoCollapse(h, n).heap)
    BY <1>1, CollapseFields
  <2> QED BY <1>2, <2>1, <2>2
<1>4. h.terms[n] = f[n] /\ Smallest(f[n]) \in f[n] /\ f[n] \in SUBSET Label
  BY <1>1, StoredNode
<1>5. Done(g, a)[i] = w
  BY <1>1 DEF Done, Stored, HeapLists
<1> HIDE DEF h, w, f, e
<1>6. a.svtNode = (h.parent[n] = Nil) /\ CollapseRecorded(h, n, a)
  BY <1>1, CollapseRecordFields
<1>7. a.label = Smallest(f[n])
  BY <1>4, <1>6 DEF CollapseRecorded
<1>8. w.labelToTerminal[a.label] = n /\ w.terms[n] = f[n]
  BY <1>3, <1>4, <1>7 DEF Collapsed
<1>9. h.parent[n] = Nil <=> n \in Roots(f)
  BY <1>1, StoredParent DEF Roots
<1>10. Singled(Done(g, a), a) = LabelsIf(a.svtNode, f[n])
  BY <1>1, <1>5, <1>8 DEF Singled
<1>11. A = LabelsIf(a.svtNode, f[n])
  BY <1>1, <1>4 DEF Added, h
<1>12. x \in A <=> n \in Roots(f) /\ x \in f[n]
  BY <1>6, <1>9, <1>11 DEF LabelsIf
<1>13. A \subseteq Label
  BY <1>4, <1>11 DEF LabelsIf
<1>14. /\ SingleIn(e, x) <=> SingleIn(f, x) \/ x \in A
       /\ x \in A => ~SingleIn(f, x)
  BY <1>1, <1>12, CollapseSingles DEF e
<1>15. (Single(w, x) <=> SingleIn(e, x)) /\ (Single(h, x) <=> SingleIn(f, x))
  BY <1>1, <1>3, SingleStored
<1> QED BY <1>10, <1>11, <1>13, <1>14, <1>15 DEF h, w

-----------------------------------------------------------------------------
(* The counts of Context. *)

SingleTrees(hs, x) == {i \in Tree : Single(hs[i], x)}

LEMMA CountIsCardinality ==
  ASSUME NEW hs, NEW x
  PROVE  SingleVertexCount(hs, x) = Cardinality(SingleTrees(hs, x))
BY DEF SingleVertexCount, SingleTrees, Single

LEMMA SingleTreesFinite ==
  ASSUME NEW hs, NEW x
  PROVE  IsFiniteSet(SingleTrees(hs, x))
<1>1. SingleTrees(hs, x) \in SUBSET Tree /\ IsFiniteSet(Tree)
  BY CountAssumption DEF SingleTrees
<1> QED BY <1>1, FS_Subset

LEMMA CountBound ==
  ASSUME NEW hs, NEW x
  PROVE  SingleVertexCount(hs, x) \in Nat /\ SingleVertexCount(hs, x) < 65536
<1>1. SingleTrees(hs, x) \in SUBSET Tree /\ IsFiniteSet(Tree) /\ Cardinality(Tree) < 65536
  BY CountAssumption DEF SingleTrees
<1>2. Cardinality(SingleTrees(hs, x)) <= Cardinality(Tree)
  BY <1>1, FS_Subset
<1>3. Cardinality(Tree) \in Nat
  BY <1>1, FS_CardinalityType
<1>4. Cardinality(SingleTrees(hs, x)) \in Nat
  BY SingleTreesFinite, FS_CardinalityType
<1>5. \A k, n \in Nat : k <= n /\ n < 65536 => k < 65536
  OBVIOUS
<1>6. Cardinality(SingleTrees(hs, x)) < 65536
  BY <1>1, <1>2, <1>3, <1>4, <1>5
<1> QED BY <1>4, <1>6, CountIsCardinality

LEMMA EditSingles ==
  ASSUME NEW g, Stored(g), NEW a, Edit(g, a), NEW x \in Label
  PROVE  /\ Singled(Done(g, a), a) = Added(g, a) /\ Added(g, a) \subseteq Label
         /\ SingleVertexCount(Done(g, a), x)
              = SingleVertexCount(g, x) + (IF x \in Added(g, a) THEN 1 ELSE 0)
<1> DEFINE w == DoneTo(g, a)
           A == Added(g, a)
           i == a.tree
           g2 == Done(g, a)
<1>1. /\ Singled(g2, a) = A /\ A \subseteq Label
      /\ Single(w, x) <=> Single(g[i], x) \/ x \in A
      /\ x \in A => ~Single(g[i], x)
  <2>1. PICK j, n : IsCut(g, a, j, n) \/ IsCollapse(g, a, j, n)
    BY EditKinds
  <2>2. j = i
    BY <2>1 DEF IsCut, IsCollapse
  <2> HIDE DEF w, A, i, g2
  <2>3. CASE IsCut(g, a, j, n)
    BY <2>2, <2>3, CutSinglesAdded DEF w, A, g2
  <2>4. CASE IsCollapse(g, a, j, n)
    BY <2>2, <2>4, CollapseSinglesAdded DEF w, A, g2
  <2> QED BY <2>1, <2>3, <2>4
<1>2. i \in Tree /\ g2[i] = w /\ \A j \in Tree : j # i => g2[j] = g[j]
  BY EditDone
<1> HIDE DEF w, A, i, g2
<1>3. CASE x \in A
  <2>1. SingleTrees(g2, x) = SingleTrees(g, x) \union {i} /\ i \notin SingleTrees(g, x)
    BY <1>1, <1>2, <1>3 DEF SingleTrees
  <2>2. IsFiniteSet(SingleTrees(g, x))
    BY SingleTreesFinite
  <2>3. Cardinality(SingleTrees(g2, x)) = Cardinality(SingleTrees(g, x)) + 1
    BY <2>1, <2>2, FS_AddElement
  <2>4. SingleVertexCount(g2, x) = SingleVertexCount(g, x) + 1
    BY <2>3, CountIsCardinality
  <2> QED BY <2>4, <1>1, <1>3 DEF A, g2
<1>4. CASE x \notin A
  <2>1. SingleTrees(g2, x) = SingleTrees(g, x)
    BY <1>1, <1>2, <1>4 DEF SingleTrees
  <2>2. SingleVertexCount(g, x) \in Nat
    BY CountBound
  <2>3. SingleVertexCount(g2, x) = SingleVertexCount(g, x)
    BY <2>1, CountIsCardinality
  <2>4. SingleVertexCount(g2, x) = SingleVertexCount(g, x) + 0
    BY <2>2, <2>3
  <2> QED BY <2>4, <1>1, <1>4 DEF A, g2
<1> QED BY <1>3, <1>4

(* The number of labels in a set, when only labels in S come or go. *)
LEMMA CountChanges ==
  ASSUME NEW A, NEW B, IsFiniteSet(A), IsFiniteSet(B)
  PROVE  Cardinality(B) + Cardinality(A \ B) - Cardinality(B \ A) = Cardinality(A)
<1>1. Cardinality(A \ B) = Cardinality(A) - Cardinality(A \intersect B)
  BY FS_Difference
<1>2. Cardinality(B \ A) = Cardinality(B) - Cardinality(A \intersect B)
  <2>1. Cardinality(B \ A) = Cardinality(B) - Cardinality(B \intersect A)
    BY FS_Difference
  <2>2. A \intersect B = B \intersect A
    OBVIOUS
  <2> QED BY <2>1, <2>2
<1>3. Cardinality(A) \in Nat /\ Cardinality(B) \in Nat
  BY FS_CardinalityType
<1>4. Cardinality(A \intersect B) \in Nat
  <2>1. IsFiniteSet(A \intersect B)
    BY FS_Intersection
  <2> QED BY <2>1, FS_CardinalityType
<1>5. \A b, k, m \in Nat : b + (m - k) - (b - k) = m
  OBVIOUS
<1> QED BY <1>1, <1>2, <1>3, <1>4, <1>5

Mismatched(c) == {x \in Label : IsMismatch(c[x])}
Newly(c, d, S) == {x \in S : IsMismatch(d[x]) /\ ~IsMismatch(c[x])}

LEMMA MismatchChanges ==
  ASSUME NEW c, NEW d, NEW S \in SUBSET Label, \A x \in Label : x \notin S => d[x] = c[x]
  PROVE  Cardinality(Mismatched(c)) + Cardinality(Newly(c, d, S)) - Cardinality(Newly(d, c, S))
           = Cardinality(Mismatched(d))
<1>1. /\ Mismatched(d) \ Mismatched(c) = Newly(c, d, S)
      /\ Mismatched(c) \ Mismatched(d) = Newly(d, c, S)
  BY DEF Mismatched, Newly
<1>2. IsFiniteSet(Mismatched(c)) /\ IsFiniteSet(Mismatched(d))
  <2>1. Mismatched(c) \subseteq Label /\ Mismatched(d) \subseteq Label /\ IsFiniteSet(Label)
    BY CountAssumption DEF Mismatched
  <2> QED BY <2>1, FS_Subset
<1> QED BY <1>1, <1>2, CountChanges

(* CountsExact, with the counts as a function. *)
CountsKept ==
  ~final => /\ svtCount = [x \in Label |-> SingleVertexCount(heap, x)]
            /\ mismatch = Cardinality(Mismatched(svtCount))

LEMMA AdjustKeeps ==
  ASSUME CountsKept, ~final, NEW S \in SUBSET Label, NEW delta, AdjustSingleVertex(S, delta),
         \A x \in Label : SingleVertexCount(heap', x) =
            IF x \in S THEN (SingleVertexCount(heap, x) + delta) % 65536
            ELSE SingleVertexCount(heap, x)
  PROVE  CountsKept'
<1> DEFINE d == [x \in Label |-> IF x \in S THEN (svtCount[x] + delta) % 65536 ELSE svtCount[x]]
<1>1. /\ svtCount' = d
      /\ mismatch' = mismatch + Cardinality(Newly(svtCount, d, S))
                              - Cardinality(Newly(d, svtCount, S))
  <2>1. /\ svtCount' = d
        /\ mismatch' = mismatch
             + Cardinality({x \in S : IsMismatch(d[x]) /\ ~IsMismatch(svtCount[x])})
             - Cardinality({x \in S : ~IsMismatch(d[x]) /\ IsMismatch(svtCount[x])})
    BY DEF AdjustSingleVertex
  <2> HIDE DEF d
  <2>2. Newly(d, svtCount, S) = {x \in S : ~IsMismatch(d[x]) /\ IsMismatch(svtCount[x])}
    BY DEF Newly
  <2>3. Newly(svtCount, d, S) = {x \in S : IsMismatch(d[x]) /\ ~IsMismatch(svtCount[x])}
    BY DEF Newly
  <2> QED BY <2>1, <2>2, <2>3
<1>2. /\ svtCount = [x \in Label |-> SingleVertexCount(heap, x)]
      /\ mismatch = Cardinality(Mismatched(svtCount))
  BY DEF CountsKept
<1>3. d = [x \in Label |-> SingleVertexCount(heap', x)]
  BY <1>2
<1>4. \A x \in Label : x \notin S => d[x] = svtCount[x]
  OBVIOUS
<1> HIDE DEF d
<1>5. mismatch' = Cardinality(Mismatched(d))
  <2>1. /\ \A x \in Label : x \notin S => d[x] = svtCount[x]
        /\ S \in SUBSET Label
    BY <1>4
  <2>2. Cardinality(Mismatched(svtCount)) + Cardinality(Newly(svtCount, d, S))
           - Cardinality(Newly(d, svtCount, S)) = Cardinality(Mismatched(d))
    BY <2>1, MismatchChanges
  <2> QED BY <2>2, <1>1, <1>2
<1>6. Mismatched(svtCount)' = Mismatched(d)
  BY <1>1 DEF Mismatched, IsMismatch
<1> QED BY <1>1, <1>3, <1>5, <1>6 DEF CountsKept

(* The sets counted by the do and by the undo of an action are the same. *)
LEMMA AddedLabels ==
  ASSUME NEW g, Stored(g), NEW a, Edit(g, a)
  PROVE  Singled(Done(g, a), a) = Added(g, a) /\ Added(g, a) \in SUBSET Label
<1>1. PICK i, n : IsCut(g, a, i, n) \/ IsCollapse(g, a, i, n)
  BY EditKinds
<1>2. n \in DOMAIN ForestOf(g[i]) /\ Stores(g[i], ForestOf(g[i]))
  BY <1>1 DEF IsCut, IsCollapse, Stored
<1>3. \E x : x \in Label
  BY <1>2, StoredNode
<1> QED BY <1>3, EditSingles

LEMMA DeleteAdjusts ==
  ASSUME NEW i \in Tree, NEW n \in Node, DeleteEdge(i, n)
  PROVE  AdjustSingleVertex(Added(heap, DeleteRecord(heap[i], i, n)), 1)
<1> DEFINE h == heap[i]
           a == DeleteRecord(h, i, n)
           S == LabelsIf(a.svtChild, h.terms[n]) \union LabelsIf(a.svtSibling, h.terms[a.sibling])
<1>1. AdjustSingleVertex(S, 1)
  BY DEF DeleteEdge
<1>2. a.kind = "delete" /\ a.tree = i /\ a.child = n
  BY DeleteRecordFields
<1> HIDE DEF a
<1>3. Added(heap, a) = S
  BY <1>2 DEF Added
<1> HIDE DEF S
<1>4. AdjustSingleVertex(Added(heap, a), 1)
  BY <1>1, <1>3
<1> QED BY <1>4 DEF a

LEMMA CollapseAdjusts ==
  ASSUME Stored(heap), NEW i \in Tree, NEW n \in Node, Collapse(i, n)
  PROVE  AdjustSingleVertex(Added(heap, CollapseRecord(heap[i], i, n)), 1)
<1> DEFINE h == heap[i]
           a == CollapseRecord(h, i, n)
           S == LabelsIf(a.svtNode, h.terms[n])
<1>1. AdjustSingleVertex(S, 1)
  BY DEF Collapse
<1>2. a.kind = "collapse" /\ a.tree = i /\ NodeOf(heap, a) = n
  BY CollapsePushes DEF IsCollapse
<1> HIDE DEF a
<1>3. Added(heap, a) = S
  BY <1>2 DEF Added
<1> HIDE DEF S
<1>4. AdjustSingleVertex(Added(heap, a), 1)
  BY <1>1, <1>3
<1> QED BY <1>4 DEF a

LEMMA UndoAdjusts ==
  ASSUME Undo, stack # <<>>
  PROVE  AdjustSingleVertex(Singled(heap, Last(stack)), -1)
<1> DEFINE a == Last(stack)
<1>1. \/ a.kind = "delete" /\ UndoDelete(a)
      \/ a.kind = "collapse" /\ UndoCollapseAction(a)
  BY DEF Undo
<1> HIDE DEF a
<1>2. CASE a.kind = "delete" /\ UndoDelete(a)
  BY <1>2 DEF UndoDelete, Singled, a
<1>3. CASE a.kind = "collapse" /\ UndoCollapseAction(a)
  BY <1>3 DEF UndoCollapseAction, Singled, a
<1> QED BY <1>1, <1>2, <1>3

(* The do of an action counts up, its undo down; a count fits its counter. *)
LEMMA PushCounts ==
  ASSUME CountsKept, Stored(heap), NEW a, Push(a), AdjustSingleVertex(Added(heap, a), 1)
  PROVE  CountsKept'
<1>1. Edit(heap, a) /\ heap' = Done(heap, a) /\ ~final
  BY DEF Push
<1>2. Added(heap, a) \in SUBSET Label
  BY <1>1, AddedLabels
<1>3. ASSUME NEW x \in Label
      PROVE  SingleVertexCount(heap', x) =
               IF x \in Added(heap, a) THEN (SingleVertexCount(heap, x) + 1) % 65536
               ELSE SingleVertexCount(heap, x)
  <2> DEFINE c == SingleVertexCount(heap, x)
             d == SingleVertexCount(Done(heap, a), x)
  <2>1. d = c + (IF x \in Added(heap, a) THEN 1 ELSE 0)
    BY <1>1, EditSingles
  <2>2. c \in Nat /\ d \in Nat /\ d < 65536
    BY CountBound
  <2> HIDE DEF c, d
  <2>3. CASE x \in Added(heap, a)
    <3>1. d = c + 1
      BY <2>1, <2>3
    <3>2. (c + 1) % 65536 = c + 1
      BY <2>2, <3>1
    <3> QED BY <1>1, <2>3, <3>1, <3>2 DEF c, d
  <2>4. CASE x \notin Added(heap, a)
    <3>1. d = c
      BY <2>1, <2>2, <2>4
    <3> QED BY <1>1, <2>4, <3>1 DEF c, d
  <2> QED BY <2>3, <2>4
<1> QED BY <1>1, <1>2, <1>3, AdjustKeeps

LEMMA PopCounts ==
  ASSUME CountsKept, ~final, NEW g, Stored(g), NEW a, Edit(g, a), heap = Done(g, a), heap' = g,
         AdjustSingleVertex(Singled(heap, a), -1)
  PROVE  CountsKept'
<1>1. Singled(heap, a) = Added(g, a) /\ Added(g, a) \in SUBSET Label
  BY AddedLabels
<1>2. ASSUME NEW x \in Label
      PROVE  SingleVertexCount(heap', x) =
               IF x \in Added(g, a) THEN (SingleVertexCount(heap, x) + -1) % 65536
               ELSE SingleVertexCount(heap, x)
  <2> DEFINE c == SingleVertexCount(g, x)
             d == SingleVertexCount(Done(g, a), x)
  <2>1. d = c + (IF x \in Added(g, a) THEN 1 ELSE 0)
    BY EditSingles
  <2>2. c \in Nat /\ d \in Nat /\ c < 65536
    BY CountBound
  <2> HIDE DEF c, d
  <2>3. CASE x \in Added(g, a)
    <3>1. d + -1 = c
      BY <2>1, <2>2, <2>3
    <3>2. c % 65536 = c
      BY <2>2
    <3> QED BY <2>3, <3>1, <3>2 DEF c, d
  <2>4. CASE x \notin Added(g, a)
    <3>1. d = c
      BY <2>1, <2>2, <2>4
    <3> QED BY <2>4, <3>1 DEF c, d
  <2> QED BY <2>3, <2>4
<1>3. AdjustSingleVertex(Added(g, a), -1)
  BY <1>1
<1> QED BY <1>1, <1>2, <1>3, AdjustKeeps

LEMMA InitCounts == Init => CountsKept
BY DEF Init, CountsKept, Mismatched

LEMMA StepCounts == IInv /\ CountsKept /\ [Next]_vars => CountsKept'
<1> SUFFICES ASSUME IInv, CountsKept, [Next]_vars PROVE CountsKept'
  OBVIOUS
<1>1. PICK G : KeptSince(G)
  BY DEF IInv
<1>2. Stored(heap)
  BY <1>1 DEF KeptSince, Kept
<1>3. CASE \E i \in Tree : \E n \in Node : DeleteEdge(i, n)
  BY <1>2, <1>3, DeletePushes, DeleteAdjusts, PushCounts
<1>4. CASE \E i \in Tree : \E n \in Node : Collapse(i, n)
  BY <1>2, <1>4, CollapsePushes, CollapseAdjusts, PushCounts
<1>5. CASE Undo
  <2>1. /\ heap' = Last(G) /\ heap = Done(Last(G), Last(stack))
        /\ Stored(Last(G)) /\ Edit(Last(G), Last(stack)) /\ stack # <<>> /\ ~final
    BY <1>1, <1>5, UndoPops
  <2>2. AdjustSingleVertex(Singled(heap, Last(stack)), -1)
    BY <1>5, <2>1, UndoAdjusts
  <2> QED BY <2>1, <2>2, PopCounts
<1>6. CASE UnapplyReduction
  BY <1>6 DEF UnapplyReduction, CountsKept
<1>7. CASE UNCHANGED vars
  BY <1>7 DEF CountsKept, Mismatched, SingleVertexCount, IsMismatch, vars
<1> QED BY <1>3, <1>4, <1>5, <1>6, <1>7 DEF Next

(***************************************************************************)
(* At every point of the search, Context::singleVertexForestCount is what  *)
(* a scan of the forests would count, and singleVertexMismatchCount the    *)
(* labels that are a tree of their own in some forests only.               *)
(***************************************************************************)
THEOREM AlwaysCountsExact == Spec => []CountsExact
<1>1. CountsKept => CountsExact
  <2> SUFFICES ASSUME CountsKept, ~final PROVE CountsExact
    BY DEF CountsExact
  <2>1. /\ svtCount = [x \in Label |-> SingleVertexCount(heap, x)]
        /\ mismatch = Cardinality(Mismatched(svtCount))
    BY DEF CountsKept
  <2>2. Mismatched(svtCount) = {x \in Label : IsMismatch(SingleVertexCount(heap, x))}
    BY <2>1 DEF Mismatched
  <2> QED BY <2>1, <2>2 DEF CountsExact
<1> QED BY <1>1, InitCounts, StepCounts, AlwaysKept, PTL DEF Spec
=============================================================================
