----------------------------- MODULE BinaryTree -----------------------------
(***************************************************************************)
(* What the splay tree and the red-black tree of 009/include/uv/tree.h     *)
(* share: elements with keys, and the set of elements that left and right  *)
(* fields stand for.  Code written twice, for left and right, is one       *)
(* definition with a side: t.child[side][n] is that field of n.  NULL is   *)
(* 0; following it is an error of TLC.                                     *)
(***************************************************************************)
EXTENDS Integers, Sequences, FiniteSets

CONSTANTS
  Node,   \* the elements, a set of positive integers
  Key     \* what cmp compares; two elements may have the same key

ASSUME TreeAssumption == Node \subseteq Nat \ {0} /\ IsFiniteSet(Node) /\ Key \in [Node -> Int]

NULL == 0
NodeOrNull == Node \cup {NULL}
Sides == {"left", "right"}
Other(side) == IF side = "left" THEN "right" ELSE "left"

\* (cmp)(a, b): the side of b on which a belongs, or "here".
Cmp(a, b) ==
  IF Key[a] < Key[b] THEN "left" ELSE IF Key[a] > Key[b] THEN "right" ELSE "here"

SetRoot(t, n) == [t EXCEPT !.root = n]

SetChild(t, side, n, m) == [t EXCEPT !.child[side][n] = m]

\* A loop that begins with s, one turn of which takes x to turn[x], or leaves it
\* alone when the loop is over; no loop takes more turns than there are elements.
Loop(turn, s) ==
  LET after[k \in 0..Cardinality(Node)] == IF k = 0 THEN s ELSE turn[after[k - 1]]
  IN  after[Cardinality(Node)]

\* The last element on the path from n that keeps to one side.
Extreme(t, n, side) ==
  Loop([x \in NodeOrNull |-> IF x # NULL /\ t.child[side][x] # NULL THEN t.child[side][x] ELSE x], n)

\* The elements of the subtree at each element; NULL has none.
Subtrees(t) ==
  LET none == [n \in NodeOrNull |-> {}]
      deeper == [sub \in [NodeOrNull -> SUBSET Node] |->
                   [n \in NodeOrNull |->
                      IF n = NULL THEN {}
                      ELSE {n} \cup sub[t.child["left"][n]] \cup sub[t.child["right"][n]]]]
  IN  Loop(deeper, none)

\* sub says which elements are below each element of S, with r as the root of all.
Ordered(t, S, r, sub) ==
  /\ sub[r] = S
  /\ \A n \in S :
       /\ \A side \in Sides : sub[t.child[side][n]] = {m \in sub[n] : Cmp(m, n) = side}
       /\ \A m \in sub[n] : Cmp(m, n) = "here" => m = n

\* The subtree at n is a search tree of exactly the elements in S.
Holds(t, n, S) == Ordered(t, S, n, Subtrees(t))

Least(S) == IF S = {} THEN NULL ELSE CHOOSE n \in S : \A m \in S : Key[n] <= Key[m]
Greatest(S) == IF S = {} THEN NULL ELSE CHOOSE n \in S : \A m \in S : Key[n] >= Key[m]

SameKey(S, n) == {m \in S : Key[m] = Key[n]}
=============================================================================
