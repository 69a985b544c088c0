----------------------------- MODULE ForestHeap -----------------------------
(***************************************************************************)
(* The forests as the code stores them: src/src/Graph/Node.hpp and         *)
(* Forest.cpp.  A forest h is a record of the pointers and terminal sets   *)
(* of its nodes, its list of roots and its label maps.  The functions here *)
(* are the pieces that every action on a forest is made of.                *)
(***************************************************************************)
EXTENDS Integers, Sequences, FiniteSets, SequencesExt

CONSTANTS
  Label,      \* a finite set of positive integers
  Node,       \* the nodes allocated for a forest, in this order
  WordSize,   \* bits in a word of the bitmask subtreeTerminals (64)
  Nil         \* the null pointer

ASSUME HeapAssumption ==
  /\ Label \subseteq Nat \ {0} /\ WordSize \in Nat \ {0}
  /\ Node \subseteq Nat /\ Nil \notin Node

Smallest(S) == CHOOSE x \in S : \A y \in S : x <= y

-----------------------------------------------------------------------------
(* Node.hpp: comparing the smallest terminals of two bitmasks. *)

Word(S, i) == {x \in S : (x - 1) \div WordSize = i}

(* __builtin_ctzll; of a zero word it is the word size (tzcnt). *)
CountTrailingZeros(W, i) ==
  IF W = {} THEN WordSize ELSE Smallest(W) - 1 - i * WordSize

HasSmallestTerminal(A, B) ==
  LET differ == {i \in {(x - 1) \div WordSize : x \in A \union B} :
                   Word(A, i) # Word(B, i)}
      i == Smallest(differ)
  IN  /\ differ # {}
      /\ CountTrailingZeros(Word(A, i), i) < CountTrailingZeros(Word(B, i), i)

-----------------------------------------------------------------------------
(* Walking the pointers of one forest h. *)

Children(h, n) == {h.left[n], h.right[n]} \ {Nil}

Reachable(h) ==
  LET reached[n \in Node] ==
        \/ n \in Range(h.roots)
        \/ /\ h.parent[n] # Nil
           /\ n \in Children(h, h.parent[n])
           /\ reached[h.parent[n]]
  IN  {n \in Node : reached[n]}

(* The nodes from n up to its root, n included. *)
PathUp(h, n) ==
  LET up[m \in Node] == {m} \union IF h.parent[m] = Nil THEN {} ELSE up[h.parent[m]]
  IN  up[n]

RootOfPath(h, n) == CHOOSE r \in PathUp(h, n) : h.parent[r] = Nil

(* A slip: behind all trees. *)
LowerBoundAtEnd(h, roots, from, S) == Len(roots) + 1

(* std::lower_bound over roots[from..] for a tree with the terminals S. *)
LowerBound(h, roots, from, S) ==
  Smallest({k \in from..Len(roots) : ~HasSmallestTerminal(h.terms[roots[k]], S)}
             \union {Len(roots) + 1})

(* std::swap(leftChild, rightChild), for the nodes of a set. *)
SwapChildren(h, S) ==
  [h EXCEPT !.left  = [m \in Node |-> IF m \in S THEN h.right[m] ELSE @[m]],
            !.right = [m \in Node |-> IF m \in S THEN h.left[m] ELSE @[m]]]

(* A slip: children are left as they were. *)
SortChildrenNever(h, P) == h

(* "sort children": on the nodes P, the child with the smaller terminal goes left. *)
SortChildren(h, P) ==
  SwapChildren(h, {m \in P : HasSmallestTerminal(h.terms[h.right[m]], h.terms[h.left[m]])})

(* A slip: always the left one. *)
RelinkLeft(h, p, old, new) == [h EXCEPT !.left[p] = new]

(* The child pointer of p that is old becomes new. *)
Relink(h, p, old, new) ==
  IF h.left[p] = old THEN [h EXCEPT !.left[p] = new] ELSE [h EXCEPT !.right[p] = new]

(* A child with parent Nil becomes a root. *)
Detach(h, n) == [h EXCEPT !.parent[n] = Nil, !.sibling[n] = Nil]

-----------------------------------------------------------------------------
(* Forest::checkTriple and Forest::isValid on forest h. *)

TripleValid(h, n) ==
  LET l == h.left[n]
      r == h.right[n]
  IN  \/ /\ l = Nil /\ r = Nil
         /\ n \in DOMAIN h.terminalToLabel
         /\ h.terminalToLabel[n] = Smallest(h.terms[n])
         /\ \A x \in h.terms[n] : h.labelToTerminal[x] = n
      \/ /\ l # Nil /\ r # Nil
         /\ h.parent[l] = n /\ h.parent[r] = n
         /\ h.sibling[l] = r /\ h.sibling[r] = l
         /\ h.terms[n] = h.terms[l] \union h.terms[r]
         /\ Smallest(h.terms[l]) < Smallest(h.terms[r])
         /\ n \notin DOMAIN h.terminalToLabel

IsValid(h) ==
  /\ \A n \in Reachable(h) : TripleValid(h, n)
  /\ DOMAIN h.terminalToLabel \subseteq Reachable(h)
  /\ \A k \in DOMAIN h.roots :
       /\ h.parent[h.roots[k]] = Nil /\ h.sibling[h.roots[k]] = Nil
       /\ k > 1 => Smallest(h.terms[h.roots[k-1]]) < Smallest(h.terms[h.roots[k]])
=============================================================================
