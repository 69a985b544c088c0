-------------------------- MODULE ForestNavigation --------------------------
(***************************************************************************)
(* The pointers parent and sibling of a node, read off a laminar forest    *)
(* whose nodes are named by sets of labels.  No labels name no node: the   *)
(* null pointer.                                                           *)
(***************************************************************************)
EXTENDS LaminarForest

None == {}

Parent(f, n) ==
  LET above == IF n = None THEN {} ELSE {m \in DOMAIN f : Below(f, n, m)}
  IN  IF above = {} THEN None
      ELSE CHOOSE p \in above : \A q \in above : f[p] \subseteq f[q]

Sibling(f, n) ==
  LET p == Parent(f, n)
  IN  IF p = None THEN None
      ELSE CHOOSE m \in DOMAIN f : f[m] = f[p] \ f[n]

(* The nodes on the way from n to its root, without n. *)
Ancestors(f, n) == {m \in DOMAIN f : Below(f, n, m)}
=============================================================================
