-------------------------- MODULE SplayTreeProofs ---------------------------
(***************************************************************************)
(* Proofs about the splay tree of 009/include/uv/tree.h, for any set of    *)
(* elements with any keys, and the facts about binary trees, and about     *)
(* loops over them, that RbTreeProofs needs too.                           *)
(***************************************************************************)
EXTENDS SplayTree, SequenceTheorems, FiniteSetTheorems, WellFoundedInduction, TLAPS

\* A set of numbers has a least member.
LEMMA LeastNumber ==
  ASSUME NEW T, T \subseteq Nat, T # {}
  PROVE  \E x \in T : \A y \in T : ~(y < x)
<1>1. PICK x \in T : \A y \in T : <<y, x>> \notin OpToRel(<, Nat)
  BY NatLessThanWellFounded, WFMin
<1>2. \A y \in T : ~(y < x)
  BY <1>1 DEF OpToRel
<1> QED
  BY <1>2

-----------------------------------------------------------------------------
(* Loops                                                                   *)

\* after is what a loop goes through in n turns.
Runs(turn, s, n, after) ==
  after[0] = s /\ \A k \in 1..n : after[k] = turn[after[k - 1]]

\* There are finitely many elements.
LEMMA Elements == Cardinality(Node) \in Nat
<1>1. IsFiniteSet(Node)
  BY TreeAssumption
<1> QED
  BY <1>1, FS_CardinalityType

\* Loop(turn, s) is the last of the states that the turns go through.
LEMMA LoopRuns ==
  ASSUME NEW V, NEW turn, NEW s \in V, \A x \in V : turn[x] \in V
  PROVE  \E after \in [0..Cardinality(Node) -> V] :
           /\ Runs(turn, s, Cardinality(Node), after)
           /\ Loop(turn, s) = after[Cardinality(Node)]
<1> DEFINE N == Cardinality(Node)
           Body(g) == [k \in 0..N |-> IF k = 0 THEN s ELSE turn[g[k - 1]]]
           after == CHOOSE g : g = Body(g)
<1>0. N \in Nat
  BY Elements
<1> HIDE DEF N
<1>1. \A n \in Nat : \E g \in [0..n -> V] : Runs(turn, s, n, g)
  <2> DEFINE T == {n \in Nat : ~\E g \in [0..n -> V] : Runs(turn, s, n, g)}
  <2> SUFFICES ASSUME T # {} PROVE FALSE
    OBVIOUS
  <2>0. T \subseteq Nat
    OBVIOUS
  <2>1. PICK n \in T : \A j \in T : ~(j < n)
    <3> HIDE DEF T
    <3> QED
      BY <2>0, LeastNumber
  <2>2. n # 0
    <3>1. [k \in 0..0 |-> s] \in [0..0 -> V] /\ Runs(turn, s, 0, [k \in 0..0 |-> s])
      BY DEF Runs
    <3> QED
      BY <2>1, <3>1
  <2>3. n - 1 \in Nat /\ n - 1 \notin T
    BY <2>1, <2>2
  <2>4. PICK g \in [0..(n - 1) -> V] : Runs(turn, s, n - 1, g)
    BY <2>3
  <2> DEFINE h == [k \in 0..n |-> IF k = n THEN turn[g[n - 1]] ELSE g[k]]
  <2>5. h \in [0..n -> V]
    BY <2>1, <2>2, <2>4
  <2>6. Runs(turn, s, n, h)
    BY <2>1, <2>2, <2>4 DEF Runs
  <2> QED
    BY <2>1, <2>5, <2>6
<1>2. PICK g \in [0..N -> V] : Runs(turn, s, N, g)
  BY <1>0, <1>1
<1>3. g = Body(g)
  BY <1>0, <1>2 DEF Runs
<1>4. after = Body(after)
  BY <1>3
<1>5. Loop(turn, s) = after[N]
  BY DEF Loop, N
<1> HIDE DEF after
<1>6. Runs(turn, s, N, after)
  BY <1>0, <1>4 DEF Runs
<1>7. {k \in 0..N : after[k] \notin V} = {}
  <2> DEFINE T == {k \in 0..N : after[k] \notin V}
  <2> SUFFICES ASSUME T # {} PROVE FALSE
    OBVIOUS
  <2>0. T \subseteq Nat
    BY <1>0
  <2>1. PICK k \in T : \A j \in T : ~(j < k)
    <3> HIDE DEF T
    <3> QED
      BY <2>0, LeastNumber
  <2>2. k # 0
    BY <1>6, <2>1 DEF Runs
  <2>3. k - 1 \in 0..N /\ k - 1 < k /\ k \in 1..N
    BY <1>0, <2>1, <2>2
  <2>4. after[k - 1] \in V
    BY <2>1, <2>3
  <2>5. after[k] = turn[after[k - 1]]
    BY <1>6, <2>3 DEF Runs
  <2> QED
    BY <2>1, <2>4, <2>5
<1>8. after \in [0..N -> V]
  BY <1>4, <1>7
<1> QED
  BY <1>5, <1>6, <1>8 DEF N

\* A loop that is at s has at most n turns to go: each of G[k], k turns or fewer.
LEMMA LoopEnds ==
  ASSUME NEW turn, NEW R, NEW G, NEW s, NEW n \in Nat, n <= Cardinality(Node),
         \A x \in R : turn[x] \in R,
         \A k \in Nat : \A x \in G[k] : x \in R \/ turn[x] \in R \/ \E j \in Nat : j < k /\ turn[x] \in G[j],
         \A x \in G[0] : x \in R,
         s \in G[n]
  PROVE  Loop(turn, s) \in R
<1> DEFINE N == Cardinality(Node)
           V == R \cup UNION {G[k] : k \in Nat}
<1>0. N \in Nat
  BY Elements
<1>1. s \in V /\ \A x \in V : turn[x] \in V
  <2>1. \A k \in Nat : G[k] \subseteq V
    OBVIOUS
  <2>2. \A x \in V : x \in R \/ \E k \in Nat : x \in G[k]
    OBVIOUS
  <2>3. R \subseteq V
    OBVIOUS
  <2> HIDE DEF V
  <2> QED
    BY <2>1, <2>2, <2>3
<1>2. PICK after \in [0..N -> V] : Runs(turn, s, N, after) /\ Loop(turn, s) = after[N]
  <2> HIDE DEF V
  <2> QED
    BY <1>1, LoopRuns
<1> DEFINE Near(k) == after[k] \in R \/ \E j \in Nat : j <= n - k /\ after[k] \in G[j]
           T == {k \in 0..N : ~Near(k)}
<1> HIDE DEF N
<1>3. T = {}
  <2> SUFFICES ASSUME T # {} PROVE FALSE
    OBVIOUS
  <2>0. T \subseteq Nat
    BY <1>0
  <2>1. PICK k \in T : \A j \in T : ~(j < k)
    <3> HIDE DEF T
    <3> QED
      BY <2>0, LeastNumber
  <2>2. k # 0
    BY <1>2, <2>1 DEF Runs
  <2>3. k - 1 \in 0..N /\ k - 1 < k /\ k \in 1..N
    BY <1>0, <2>1, <2>2
  <2>4. Near(k - 1)
    BY <2>1, <2>3
  <2>5. after[k] = turn[after[k - 1]]
    BY <1>2, <2>3 DEF Runs
  <2>6. CASE after[k - 1] \in R
    BY <2>1, <2>5, <2>6
  <2>7. ASSUME NEW j \in Nat, j <= n - (k - 1), after[k - 1] \in G[j]
        PROVE  Near(k)
    <3>1. CASE after[k - 1] \in R
      BY <2>5, <3>1
    <3>2. CASE turn[after[k - 1]] \in R
      BY <2>5, <3>2
    <3>3. ASSUME NEW i \in Nat, i < j, turn[after[k - 1]] \in G[i]
          PROVE  Near(k)
      BY <2>3, <2>5, <2>7, <3>3, <1>0
    <3> QED
      BY <2>7, <3>1, <3>2, <3>3
  <2> QED
    BY <2>1, <2>4, <2>6, <2>7
<1>4. Near(N)
  BY <1>0, <1>3
<1>5. n <= N
  BY DEF N
<1> QED
  BY <1>0, <1>2, <1>4, <1>5

-----------------------------------------------------------------------------
(* Sides and keys                                                          *)

\* There are two sides, and each is the other of the other one.
LEMMA SideFacts ==
  /\ \A i \in Sides : Other(i) \in Sides /\ Other(Other(i)) = i /\ Other(i) # i
  /\ \A i, j \in Sides : i = j \/ j = Other(i)
  /\ "here" \notin Sides
  BY DEF Sides, Other

\* The comparison of two elements is antisymmetric, as tree.h needs it to be.
LEMMA CmpFacts ==
  ASSUME NEW a \in Node, NEW b \in Node
  PROVE  /\ Cmp(a, b) \in Sides \/ Cmp(a, b) = "here"
         /\ Cmp(a, a) = "here"
         /\ \A i \in Sides : Cmp(a, b) = i <=> Cmp(b, a) = Other(i)
         /\ Cmp(a, b) = "here" <=> Cmp(b, a) = "here"
  BY TreeAssumption DEF Cmp, Sides, Other

\* The comparison is transitive.
LEMMA CmpTransitive ==
  ASSUME NEW a \in Node, NEW b \in Node, NEW c \in Node, NEW i \in Sides,
         Cmp(a, b) = i, Cmp(b, c) = i
  PROVE  Cmp(a, c) = i
  BY TreeAssumption DEF Cmp, Sides, Other

\* Elements with the same key compare alike with every element.
LEMMA CmpHere ==
  ASSUME NEW a \in Node, NEW b \in Node, NEW c \in Node, Cmp(a, b) = "here"
  PROVE  Cmp(a, c) = Cmp(b, c) /\ Cmp(c, a) = Cmp(c, b)
  BY TreeAssumption DEF Cmp

-----------------------------------------------------------------------------
(* Trees                                                                   *)

\* The child fields ch make a search tree of the elements in S, whose root is r
\* and in which sub[n] are the elements of the subtree at n.
Tree(ch, r, S, sub) ==
  /\ S \subseteq Node /\ r \in S \cup {NULL} /\ sub[r] = S /\ sub[NULL] = {}
  /\ \A n \in S : n \in sub[n] /\ sub[n] \subseteq S
  /\ \A n \in S, i \in Sides : ch[i][n] \in S \cup {NULL}
  /\ \A n \in S, i \in Sides, m \in S : m \in sub[ch[i][n]] <=> m \in sub[n] /\ Cmp(m, n) = i
  /\ \A m, n \in S : Cmp(m, n) = "here" => m = n

\* No element is the null pointer.
LEMMA NotNull == NULL \notin Node /\ Node \subseteq Nat
  BY TreeAssumption DEF NULL

\* A set of elements is finite and at most as large as the set of all.
LEMMA Finite ==
  ASSUME NEW X \in SUBSET Node
  PROVE  IsFiniteSet(X) /\ Cardinality(X) \in Nat /\ Cardinality(X) <= Cardinality(Node)
<1>1. IsFiniteSet(Node)
  BY TreeAssumption
<1>2. IsFiniteSet(X) /\ Cardinality(X) <= Cardinality(Node)
  BY <1>1, FS_Subset
<1> QED
  BY <1>2, FS_CardinalityType

\* A part of a set that lacks one of its members is smaller.
LEMMA Fewer ==
  ASSUME NEW X \in SUBSET Node, NEW Y, Y \subseteq X, NEW n \in X, n \notin Y
  PROVE  Cardinality(Y) < Cardinality(X)
<1>1. IsFiniteSet(X) /\ Cardinality(X) \in Nat /\ Y \in SUBSET Node /\ Y \in SUBSET X
  BY Finite
<1>2. Cardinality(Y) \in Nat
  BY <1>1, Finite
<1>3. Cardinality(Y) <= Cardinality(X) /\ Cardinality(Y) # Cardinality(X)
  BY <1>1, FS_Subset
<1> QED
  BY <1>1, <1>2, <1>3

\* A child is on its side of its parent and has the smaller subtree.
LEMMA Child ==
  ASSUME NEW ch, NEW r, NEW S, NEW sub, Tree(ch, r, S, sub),
         NEW n \in S, NEW i \in Sides, NEW c, c = ch[i][n], c # NULL
  PROVE  /\ c \in S /\ c \in sub[n] /\ c \in Node /\ Cmp(c, n) = i /\ c # n
         /\ sub[c] \subseteq sub[n] /\ n \notin sub[c]
         /\ Cardinality(sub[c]) < Cardinality(sub[n])
<1>1. c \in S /\ c \in Node /\ n \in Node /\ sub[n] \in SUBSET Node /\ c \in sub[c]
  BY DEF Tree
<1>2. c \in sub[n] /\ Cmp(c, n) = i
  BY <1>1 DEF Tree
<1>3. c # n /\ n \notin sub[c]
  BY <1>1, <1>2, CmpFacts, SideFacts DEF Tree
<1>4. sub[c] \subseteq sub[n]
  BY <1>1 DEF Tree
<1>5. n \in sub[n]
  BY DEF Tree
<1>6. Cardinality(sub[c]) < Cardinality(sub[n])
  BY <1>1, <1>3, <1>4, <1>5, Fewer
<1> QED
  BY <1>1, <1>2, <1>3, <1>4, <1>6

\* Induction from the leaves up.
LEMMA TreeInduction ==
  ASSUME NEW ch, NEW r, NEW S, NEW sub, Tree(ch, r, S, sub), NEW P,
         \A n \in S : (\A i \in Sides : ch[i][n] = NULL \/ ch[i][n] \in P) => n \in P
  PROVE  S \subseteq P
<1> DEFINE T == {Cardinality(sub[n]) : n \in S \ P}
<1> SUFFICES ASSUME S \ P # {} PROVE FALSE
  OBVIOUS
<1>1. T \subseteq Nat
  BY Finite DEF Tree
<1>2. T # {}
  OBVIOUS
<1>3. PICK k \in T : \A j \in T : ~(j < k)
  <2> HIDE DEF T
  <2> QED
    BY <1>1, <1>2, LeastNumber
<1>4. PICK n \in S \ P : k = Cardinality(sub[n])
  BY <1>3
<1>5. ASSUME NEW i \in Sides, ch[i][n] # NULL
      PROVE  ch[i][n] \in P
  <2>1. ch[i][n] \in S /\ Cardinality(sub[ch[i][n]]) < k
    BY <1>4, <1>5, Child
  <2> QED
    BY <1>3, <2>1
<1> QED
  BY <1>4, <1>5

\* The subtree of an element below n is within the subtree of n.
LEMMA Nested ==
  ASSUME NEW ch, NEW r, NEW S, NEW sub, Tree(ch, r, S, sub), NEW n \in S, NEW m \in sub[n]
  PROVE  m \in S /\ sub[m] \subseteq sub[n]
<1> DEFINE P == {x \in S : \A y \in sub[x] : sub[y] \subseteq sub[x]}
<1>1. ASSUME NEW x \in S, \A i \in Sides : ch[i][x] = NULL \/ ch[i][x] \in P
      PROVE  x \in P
  <2> SUFFICES ASSUME NEW y \in sub[x] PROVE sub[y] \subseteq sub[x]
    OBVIOUS
  <2>1. CASE y = x
    BY <2>1
  <2>2. CASE y # x
    <3>1. y \in S /\ x \in Node /\ y \in Node
      BY DEF Tree
    <3>2. PICK i \in Sides : Cmp(y, x) = i
      BY <2>2, <3>1, CmpFacts DEF Tree
    <3>3. y \in sub[ch[i][x]]
      BY <3>1, <3>2 DEF Tree
    <3>4. ch[i][x] # NULL
      BY <3>3 DEF Tree
    <3>5. sub[y] \subseteq sub[ch[i][x]]
      BY <1>1, <3>3, <3>4
    <3> QED
      BY <3>4, <3>5, Child
  <2> QED
    BY <2>1, <2>2
<1>2. S \subseteq P
  <2> HIDE DEF P
  <2> QED
    BY <1>1, TreeInduction
<1> QED
  BY <1>2 DEF Tree

\* What is below n and is not n is below a child of n.
LEMMA Below ==
  ASSUME NEW ch, NEW r, NEW S, NEW sub, Tree(ch, r, S, sub), NEW n \in S, NEW m \in sub[n], m # n
  PROVE  /\ Cmp(m, n) \in Sides /\ ch[Cmp(m, n)][n] \in S /\ m \in sub[ch[Cmp(m, n)][n]]
         /\ sub[m] \subseteq sub[ch[Cmp(m, n)][n]]
<1>1. m \in S /\ n \in Node /\ m \in Node
  BY DEF Tree
<1>2. Cmp(m, n) \in Sides
  BY <1>1, CmpFacts DEF Tree
<1>3. m \in sub[ch[Cmp(m, n)][n]]
  BY <1>1, <1>2 DEF Tree
<1>4. ch[Cmp(m, n)][n] \in S
  BY <1>2, <1>3 DEF Tree
<1> QED
  BY <1>2, <1>3, <1>4, Nested

\* Of two elements with something below both, one is below the other.
LEMMA Comparable ==
  ASSUME NEW ch, NEW r, NEW S, NEW sub, Tree(ch, r, S, sub), NEW x \in S, NEW y \in S,
         NEW m \in sub[x], m \in sub[y]
  PROVE  x \in sub[y] \/ y \in sub[x]
<1> DEFINE P == {n \in S : \A u, v \in sub[n] : sub[u] \cap sub[v] # {} => u \in sub[v] \/ v \in sub[u]}
<1>1. ASSUME NEW n \in S, \A i \in Sides : ch[i][n] = NULL \/ ch[i][n] \in P
      PROVE  n \in P
  <2> SUFFICES ASSUME NEW u \in sub[n], NEW v \in sub[n], NEW w \in sub[u], w \in sub[v]
               PROVE  u \in sub[v] \/ v \in sub[u]
    OBVIOUS
  <2>1. CASE u = n \/ v = n
    BY <2>1
  <2>2. CASE u # n /\ v # n
    <3>1. u \in sub[ch[Cmp(u, n)][n]] /\ w \in sub[ch[Cmp(u, n)][n]] /\ Cmp(u, n) \in Sides
      BY <2>2, Below
    <3>2. v \in sub[ch[Cmp(v, n)][n]] /\ w \in sub[ch[Cmp(v, n)][n]] /\ Cmp(v, n) \in Sides
      BY <2>2, Below
    <3>3. w \in S
      BY Nested DEF Tree
    <3>4. Cmp(w, n) = Cmp(u, n) /\ Cmp(w, n) = Cmp(v, n)
      BY <3>1, <3>2, <3>3 DEF Tree
    <3>5. ch[Cmp(u, n)][n] # NULL
      BY <3>1 DEF Tree
    <3> QED
      BY <1>1, <3>1, <3>2, <3>4, <3>5
  <2> QED
    BY <2>1, <2>2
<1>2. S \subseteq P
  <2> HIDE DEF P
  <2> QED
    BY <1>1, TreeInduction
<1>3. r \in S /\ x \in sub[r] /\ y \in sub[r]
  BY DEF Tree
<1> QED
  BY <1>2, <1>3

\* An element is a child once only.
LEMMA OneParent ==
  ASSUME NEW ch, NEW r, NEW S, NEW sub, Tree(ch, r, S, sub), NEW x \in S, NEW y \in S,
         NEW i \in Sides, NEW j \in Sides, ch[i][x] = ch[j][y], ch[i][x] # NULL
  PROVE  x = y /\ i = j
<1> DEFINE c == ch[i][x]
<1>1. c \in sub[x] /\ c \in sub[y] /\ Cmp(c, x) = i /\ Cmp(c, y) = j /\ x \notin sub[c] /\ y \notin sub[c]
  BY Child
<1>2. ASSUME NEW u \in S, NEW v \in S, NEW k \in Sides, ch[k][v] = c, u \in sub[v], u # v,
             c \in sub[u], Cmp(c, v) = k, u \notin sub[c]
      PROVE  FALSE
  <2>1. c \in sub[ch[Cmp(u, v)][v]] /\ u \in sub[ch[Cmp(u, v)][v]] /\ Cmp(u, v) \in Sides
    BY <1>2, Below
  <2>2. c \in S
    BY <1>1 DEF Tree
  <2>3. Cmp(u, v) = k
    BY <2>1, <2>2, <1>2 DEF Tree
  <2> QED
    BY <2>1, <2>3, <1>2
<1>3. x \in sub[y] \/ y \in sub[x]
  BY <1>1, Comparable
<1>4. x = y
  BY <1>1, <1>2, <1>3
<1> QED
  BY <1>1, <1>4

\* The root is nobody's child.
LEMMA RootAbove ==
  ASSUME NEW ch, NEW r, NEW S, NEW sub, Tree(ch, r, S, sub), NEW x \in S, NEW i \in Sides
  PROVE  ch[i][x] # r
<1>1. r # NULL /\ x \in sub[r]
  BY DEF Tree
<1> QED
  BY <1>1, Child

-----------------------------------------------------------------------------
(* Changes to trees                                                        *)

\* A tree is one by the child fields of its own elements alone.
LEMMA Framed ==
  ASSUME NEW ch, NEW r, NEW S, NEW sub, Tree(ch, r, S, sub), NEW new, NEW newSub,
         \A n \in S : newSub[n] = sub[n] /\ \A i \in Sides : new[i][n] = ch[i][n],
         newSub[NULL] = {}
  PROVE  Tree(new, r, S, newSub)
<1>1. S \subseteq Node /\ r \in S \cup {NULL} /\ newSub[r] = S /\ newSub[NULL] = {}
  BY DEF Tree
<1>2. \A n \in S : n \in newSub[n] /\ newSub[n] \subseteq S
  BY DEF Tree
<1>3. \A n \in S, i \in Sides : new[i][n] = ch[i][n] /\ newSub[new[i][n]] = sub[ch[i][n]]
                                 /\ new[i][n] \in S \cup {NULL}
  <2>1. \A n \in S, i \in Sides : new[i][n] = ch[i][n] /\ ch[i][n] \in S \cup {NULL}
    BY DEF Tree
  <2>2. \A x \in S \cup {NULL} : newSub[x] = sub[x]
    BY DEF Tree
  <2> QED
    BY <2>1, <2>2
<1>4. \A n \in S, i \in Sides, m \in S : m \in newSub[new[i][n]] <=> m \in newSub[n] /\ Cmp(m, n) = i
  BY <1>3 DEF Tree
<1> QED
  BY <1>1, <1>2, <1>3, <1>4 DEF Tree

\* The subtree at an element is a tree.
LEMMA Restricted ==
  ASSUME NEW ch, NEW r, NEW S, NEW sub, Tree(ch, r, S, sub), NEW n \in S \cup {NULL}
  PROVE  Tree(ch, n, sub[n], sub)
<1>1. CASE n = NULL
  BY <1>1 DEF Tree
<1>2. CASE n \in S
  <2>1. sub[n] \subseteq S /\ n \in sub[n]
    BY <1>2 DEF Tree
  <2>2. \A m \in sub[n] : sub[m] \subseteq sub[n]
    BY <1>2, Nested
  <2>3. \A m \in sub[n], i \in Sides : ch[i][m] \in sub[n] \cup {NULL}
    <3> SUFFICES ASSUME NEW m \in sub[n], NEW i \in Sides, ch[i][m] # NULL
                 PROVE  ch[i][m] \in sub[n]
      OBVIOUS
    <3>1. ch[i][m] \in sub[m]
      BY <2>1, Child
    <3> QED
      BY <2>2, <3>1
  <2> QED
    BY <2>1, <2>2, <2>3 DEF Tree
<1> QED
  BY <1>1, <1>2

\* The subtrees after c, the child of n on that side, has taken the place of n.
Turned(sub, n, c, side) ==
  [x \in NodeOrNull |-> IF x = c THEN sub[n]
                        ELSE IF x = n THEN {m \in sub[n] : Cmp(m, c) = Other(side)}
                        ELSE sub[x]]

\* A rotation, which puts the child c of n in the place of n, leaves a tree of the
\* same elements.
LEMMA Rotated ==
  ASSUME NEW ch, NEW r, NEW S, NEW sub, Tree(ch, r, S, sub),
         NEW n \in S, NEW side \in Sides, NEW c, c = ch[side][n], c # NULL, NEW new,
         new[side][n] = ch[Other(side)][c], new[Other(side)][c] = n,
         new[side][c] = ch[side][c], new[Other(side)][n] = ch[Other(side)][n],
         \A x \in S \ {n, c}, i \in Sides : new[i][x] = IF ch[i][x] = n THEN c ELSE ch[i][x]
  PROVE  Tree(new, IF r = n THEN c ELSE r, S, Turned(sub, n, c, side))
<1> DEFINE far == Other(side)
           sub1 == Turned(sub, n, c, side)
           inner == ch[far][c]
<1>1. c \in S /\ c \in sub[n] /\ c \in Node /\ Cmp(c, n) = side /\ c # n /\ sub[c] \subseteq sub[n] /\ n \notin sub[c]
  BY Child
<1>2. n \in Node /\ S \subseteq Node /\ n # NULL /\ far \in Sides /\ Other(far) = side /\ far # side
      /\ "here" # side /\ "here" # far /\ \A i \in Sides : i = side \/ i = far
  BY SideFacts, NotNull DEF Tree
<1>3. Cmp(n, c) = far
  BY <1>1, <1>2, CmpFacts
<1>4. /\ sub1[c] = sub[n] /\ sub1[n] = {m \in sub[n] : Cmp(m, c) = far} /\ sub1[NULL] = {}
      /\ \A x \in S \ {n, c} : sub1[x] = sub[x]
  <2>1. \A x \in NodeOrNull : sub1[x] = IF x = c THEN sub[n]
                        ELSE IF x = n THEN {m \in sub[n] : Cmp(m, c) = Other(side)}
                        ELSE sub[x]
    BY DEF Turned
  <2>2. NULL \in NodeOrNull /\ c \in NodeOrNull /\ n \in NodeOrNull /\ S \subseteq NodeOrNull
    BY <1>1, <1>2 DEF NodeOrNull
  <2> HIDE DEF sub1
  <2>3. sub1[NULL] = sub[NULL]
    BY <1>1, <1>2, <2>1, <2>2, NotNull
  <2>4. sub1[NULL] = {}
    BY <2>3 DEF Tree
  <2> QED
    BY <1>1, <2>1, <2>2, <2>4
<1> HIDE DEF sub1
<1>5. sub[n] \subseteq S
  BY DEF Tree
\* what is on the far side of n is on the far side of c
<1>6. \A m \in sub[n] : Cmp(m, n) = far => Cmp(m, c) = far
  BY <1>1, <1>2, <1>3, <1>5, CmpTransitive
<1>7. \A m \in sub[n] : Cmp(m, c) = side => Cmp(m, n) = side
  BY <1>1, <1>2, <1>5, CmpTransitive
<1>8. \A m \in S : m \in sub[c] <=> m \in sub[n] /\ Cmp(m, n) = side
  BY DEF Tree
<1>9. inner # n /\ inner # c /\ inner \in S \cup {NULL}
  <2>1. inner \in S \cup {NULL}
    BY <1>1, <1>2 DEF Tree
  <2>2. inner # NULL => inner \in sub[c] /\ inner # c
    BY <1>1, <1>2, Child
  <2> QED
    BY <1>1, <1>2, <2>1, <2>2, NotNull
<1>10. sub1[inner] = sub[inner]
  BY <1>4, <1>9 DEF Tree
<1>11. \A m \in S : m \in sub1[inner] <=> m \in sub1[n] /\ Cmp(m, n) = side
  <2>1. \A m \in S : m \in sub[inner] <=> m \in sub[c] /\ Cmp(m, c) = far
    BY <1>1, <1>2 DEF Tree
  <2> QED
    BY <1>4, <1>8, <1>10, <2>1
<1>12. \A m \in S : m \in sub1[ch[far][n]] <=> m \in sub1[n] /\ Cmp(m, n) = far
  <2>1. \A m \in S : m \in sub[ch[far][n]] <=> m \in sub[n] /\ Cmp(m, n) = far
    BY <1>2 DEF Tree
  <2>2. ch[far][n] # n /\ ch[far][n] # c /\ ch[far][n] \in S \cup {NULL}
    <3>1. ch[far][n] \in S \cup {NULL}
      BY <1>2 DEF Tree
    <3>2. ch[far][n] # NULL => ch[far][n] # n /\ Cmp(ch[far][n], n) = far
      BY <1>2, Child
    <3> QED
      BY <1>1, <1>2, <3>1, <3>2, NotNull
  <2>3. sub1[ch[far][n]] = sub[ch[far][n]]
    BY <1>4, <2>2 DEF Tree
  <2> QED
    BY <1>4, <1>6, <2>1, <2>3
<1>13. \A m \in S : m \in sub1[n] <=> m \in sub1[c] /\ Cmp(m, c) = far
  BY <1>4
<1>14. \A m \in S : m \in sub1[ch[side][c]] <=> m \in sub1[c] /\ Cmp(m, c) = side
  <2>1. \A m \in S : m \in sub[ch[side][c]] <=> m \in sub[c] /\ Cmp(m, c) = side
    BY <1>1 DEF Tree
  <2>2. ch[side][c] # n /\ ch[side][c] # c /\ ch[side][c] \in S \cup {NULL}
    <3>1. ch[side][c] \in S \cup {NULL}
      BY <1>1 DEF Tree
    <3>2. ch[side][c] # NULL => ch[side][c] # c /\ ch[side][c] \in sub[c]
      BY <1>1, Child
    <3> QED
      BY <1>1, <1>2, <3>1, <3>2, NotNull
  <2>3. sub1[ch[side][c]] = sub[ch[side][c]]
    BY <1>4, <2>2 DEF Tree
  <2> QED
    BY <1>4, <1>7, <1>8, <2>1, <2>3
<1>15. ASSUME NEW x \in S \ {n, c}, NEW i \in Sides
       PROVE  /\ new[i][x] \in S \cup {NULL}
              /\ \A m \in S : m \in sub1[new[i][x]] <=> m \in sub1[x] /\ Cmp(m, x) = i
  <2>1. \A m \in S : m \in sub[ch[i][x]] <=> m \in sub[x] /\ Cmp(m, x) = i
    BY DEF Tree
  <2>2. CASE ch[i][x] = n
    BY <1>1, <1>4, <1>15, <2>1, <2>2
  <2>3. CASE ch[i][x] # n
    <3>1. ch[i][x] # c
      BY <1>1, OneParent
    <3>2. ch[i][x] \in S \cup {NULL}
      BY DEF Tree
    <3>3. sub1[ch[i][x]] = sub[ch[i][x]]
      BY <1>4, <2>3, <3>1, <3>2 DEF Tree
    <3> QED
      BY <1>4, <2>1, <2>3, <3>2, <3>3
  <2> QED
    BY <2>2, <2>3
<1>16. \A x \in S : x \in sub1[x] /\ sub1[x] \subseteq S
  <2>1. n \in sub[n] /\ \A x \in S : x \in sub[x] /\ sub[x] \subseteq S
    BY DEF Tree
  <2> QED
    BY <1>1, <1>3, <1>4, <1>5, <2>1
<1>17. \A x \in S, i \in Sides :
         /\ new[i][x] \in S \cup {NULL}
         /\ \A m \in S : m \in sub1[new[i][x]] <=> m \in sub1[x] /\ Cmp(m, x) = i
  <2> SUFFICES ASSUME NEW x \in S, NEW i \in Sides
               PROVE  /\ new[i][x] \in S \cup {NULL}
                      /\ \A m \in S : m \in sub1[new[i][x]] <=> m \in sub1[x] /\ Cmp(m, x) = i
    OBVIOUS
  <2>1. CASE x = n /\ i = side
    BY <1>9, <1>11, <2>1
  <2>2. CASE x = n /\ i = far
    BY <1>12, <2>2 DEF Tree
  <2>3. CASE x = c /\ i = far
    BY <1>13, <2>3
  <2>4. CASE x = c /\ i = side
    BY <1>14, <2>4 DEF Tree
  <2>5. CASE x \notin {n, c}
    BY <1>15, <2>5
  <2> QED
    BY <1>2, <2>1, <2>2, <2>3, <2>4, <2>5
<1> DEFINE r1 == IF r = n THEN c ELSE r
<1>18. r1 \in S \cup {NULL} /\ sub1[r1] = S
  <2>1. r \in S /\ sub[r] = S
    BY DEF Tree
  <2>2. r # c
    BY <1>1, RootAbove
  <2> QED
    BY <1>1, <1>4, <2>1, <2>2
<1>19. \A a, b \in S : Cmp(a, b) = "here" => a = b
  BY DEF Tree
<1> HIDE DEF r1
<1>20. Tree(new, r1, S, sub1)
  BY <1>2, <1>4, <1>16, <1>17, <1>18, <1>19 DEF Tree
<1> QED
  BY <1>20 DEF r1, sub1

\* The subtrees after the tree of the elements X is hung below e.
Grown(sub, S, e, X) == [x \in NodeOrNull |-> IF x \in S /\ e \in sub[x] THEN sub[x] \cup X ELSE sub[x]]

\* A tree hung where the tree above it has a null child is part of one tree, if
\* its elements belong there.
LEMMA Joined ==
  ASSUME NEW ch, NEW r, NEW S, NEW sub, Tree(ch, r, S, sub), NEW q, NEW X, Tree(ch, q, X, sub),
         S \cap X = {}, \A a \in S, b \in X : Cmp(a, b) # "here",
         NEW e \in S, NEW side \in Sides, ch[side][e] = NULL,
         \A b \in X : Cmp(b, e) = side,
         \A x \in S, b \in X : e \in sub[x] /\ x # e => Cmp(b, x) = Cmp(e, x),
         NEW new, new[side][e] = q,
         \A x \in S \cup X, i \in Sides : (x = e /\ i = side) \/ new[i][x] = ch[i][x]
  PROVE  Tree(new, r, S \cup X, Grown(sub, S, e, X))
<1> DEFINE sub1 == Grown(sub, S, e, X)
<1>1. S \subseteq Node /\ X \subseteq Node /\ e \in Node /\ q \in X \cup {NULL} /\ sub[q] = X
      /\ sub[NULL] = {} /\ S \subseteq NodeOrNull /\ X \subseteq NodeOrNull /\ NULL \in NodeOrNull
  BY DEF Tree, NodeOrNull
<1>2. /\ \A x \in S : sub1[x] = IF e \in sub[x] THEN sub[x] \cup X ELSE sub[x]
      /\ \A x \in X \cup {NULL} : sub1[x] = sub[x]
  <2>1. \A x \in NodeOrNull : sub1[x] = IF x \in S /\ e \in sub[x] THEN sub[x] \cup X ELSE sub[x]
    BY DEF Grown
  <2> HIDE DEF sub1
  <2> QED
    BY <1>1, <2>1, NotNull
<1> HIDE DEF sub1
<1>3. \A x \in S : x \in sub[x] /\ sub[x] \subseteq S
  BY DEF Tree
<1>4. \A x \in X : x \in sub[x] /\ sub[x] \subseteq X
  BY DEF Tree
<1>5. \A x \in S \cup X : x \in sub1[x] /\ sub1[x] \subseteq S \cup X
  <2>1. \A x \in S : x \in sub1[x] /\ sub1[x] \subseteq S \cup X
    BY <1>2, <1>3
  <2>2. \A x \in X : x \in sub1[x] /\ sub1[x] \subseteq S \cup X
    BY <1>2, <1>4
  <2> QED
    BY <2>1, <2>2
<1>6. sub1[q] = X
  BY <1>1, <1>2
<1>7. ASSUME NEW x \in S, NEW i \in Sides
      PROVE  /\ new[i][x] \in S \cup X \cup {NULL}
             /\ \A m \in S \cup X : m \in sub1[new[i][x]] <=> m \in sub1[x] /\ Cmp(m, x) = i
  <2>1. \A m \in S : m \in sub[ch[i][x]] <=> m \in sub[x] /\ Cmp(m, x) = i
    BY DEF Tree
  <2>2. ch[i][x] \in S \cup {NULL}
    BY DEF Tree
  <2>3. CASE x = e /\ i = side
    <3>1. sub1[x] = sub[x] \cup X
      BY <1>2, <1>3, <2>3
    <3>2. \A m \in S : ~(m \in sub[x] /\ Cmp(m, x) = i)
      BY <1>1, <2>1, <2>3
    <3> QED
      BY <1>1, <1>6, <2>3, <3>1, <3>2
  <2>4. CASE ~(x = e /\ i = side)
    <3>1. new[i][x] = ch[i][x]
      BY <2>4
    <3>2. CASE e \notin sub[x]
      <4>1. sub1[x] = sub[x] /\ sub[x] \subseteq S
        BY <1>2, <1>3, <3>2
      <4>2. e \notin sub[ch[i][x]]
        BY <2>1, <3>2
      <4>3. sub1[ch[i][x]] = sub[ch[i][x]] /\ sub[ch[i][x]] \subseteq S
        BY <1>1, <1>2, <1>3, <2>2, <4>2
      <4> QED
        BY <2>1, <2>2, <3>1, <4>1, <4>3
    <3>3. CASE e \in sub[x] /\ x # e
      <4>1. sub1[x] = sub[x] \cup X
        BY <1>2, <3>3
      <4>2. CASE Cmp(e, x) = i
        <5>1. e \in sub[ch[i][x]]
          BY <2>1, <3>3, <4>2
        <5>2. sub1[ch[i][x]] = sub[ch[i][x]] \cup X
          BY <1>1, <1>2, <2>2, <5>1
        <5>3. \A m \in X : Cmp(m, x) = i
          BY <3>3, <4>2
        <5>4. sub[ch[i][x]] \subseteq S /\ sub[x] \subseteq S
          BY <1>1, <1>3, <2>2
        <5> QED
          BY <2>1, <2>2, <3>1, <4>1, <5>2, <5>3, <5>4
      <4>3. CASE Cmp(e, x) # i
        <5>1. e \notin sub[ch[i][x]]
          BY <2>1, <4>3
        <5>2. sub1[ch[i][x]] = sub[ch[i][x]]
          BY <1>1, <1>2, <2>2, <5>1
        <5>3. \A m \in X : Cmp(m, x) # i
          BY <3>3, <4>3
        <5>4. sub[ch[i][x]] \subseteq S /\ sub[x] \subseteq S
          BY <1>1, <1>3, <2>2
        <5> QED
          BY <2>1, <2>2, <3>1, <4>1, <5>2, <5>3, <5>4
      <4> QED
        BY <4>2, <4>3
    <3>4. CASE x = e
      <4>1. i # side /\ sub1[x] = sub[x] \cup X
        BY <1>2, <1>3, <2>4, <3>4
      <4>2. e \notin sub[ch[i][x]]
        BY <1>1, <2>1, <3>4, CmpFacts, SideFacts
      <4>3. sub1[ch[i][x]] = sub[ch[i][x]]
        BY <1>1, <1>2, <2>2, <4>2
      <4>4. \A m \in X : Cmp(m, x) # i
        BY <3>4, <4>1
      <4>5. sub[ch[i][x]] \subseteq S /\ sub[x] \subseteq S
        BY <1>1, <1>3, <2>2
      <4> QED
        BY <2>1, <2>2, <3>1, <4>1, <4>3, <4>4, <4>5
    <3> QED
      BY <3>2, <3>3, <3>4
  <2> QED
    BY <2>3, <2>4
<1>8. ASSUME NEW x \in X, NEW i \in Sides
      PROVE  /\ new[i][x] \in S \cup X \cup {NULL}
             /\ \A m \in S \cup X : m \in sub1[new[i][x]] <=> m \in sub1[x] /\ Cmp(m, x) = i
  <2>1. \A m \in X : m \in sub[ch[i][x]] <=> m \in sub[x] /\ Cmp(m, x) = i
    BY DEF Tree
  <2>2. ch[i][x] \in X \cup {NULL}
    BY DEF Tree
  <2>3. new[i][x] = ch[i][x]
    OBVIOUS
  <2>4. sub1[ch[i][x]] = sub[ch[i][x]] /\ sub1[x] = sub[x]
    BY <1>2, <2>2
  <2>5. sub[ch[i][x]] \subseteq X /\ sub[x] \subseteq X
    BY <1>1, <1>4, <2>2
  <2> QED
    BY <2>1, <2>2, <2>3, <2>4, <2>5
<1>9. r \in S /\ sub1[r] = S \cup X /\ sub1[NULL] = {}
  BY <1>1, <1>2 DEF Tree
<1>10. \A a, b \in S \cup X : Cmp(a, b) = "here" => a = b
  <2> SUFFICES ASSUME NEW a \in S \cup X, NEW b \in S \cup X, Cmp(a, b) = "here" PROVE a = b
    OBVIOUS
  <2>1. Cmp(b, a) = "here"
    BY <1>1, CmpFacts
  <2> QED
    BY <2>1 DEF Tree
<1>11. Tree(new, r, S \cup X, sub1)
  BY <1>1, <1>5, <1>7, <1>8, <1>9, <1>10 DEF Tree
<1> QED
  BY <1>11 DEF sub1

\* The subtrees after the root r has lost those in X.
Shrunk(sub, r, X) == [x \in NodeOrNull |-> IF x = r THEN sub[x] \ X ELSE sub[x]]

\* What is left of a tree when one subtree of its root is cut off is a tree.
LEMMA Detached ==
  ASSUME NEW ch, NEW r, NEW S, NEW sub, Tree(ch, r, S, sub), r # NULL,
         NEW side \in Sides, NEW new, new[side][r] = NULL,
         \A x \in S, i \in Sides : (x = r /\ i = side) \/ new[i][x] = ch[i][x]
  PROVE  Tree(new, r, S \ sub[ch[side][r]], Shrunk(sub, r, sub[ch[side][r]]))
<1> DEFINE X == sub[ch[side][r]]
           Y == S \ X
           sub1 == Shrunk(sub, r, X)
<1>1. r \in S /\ sub[r] = S /\ S \subseteq Node /\ S \subseteq NodeOrNull /\ NULL \in NodeOrNull /\ sub[NULL] = {}
  BY DEF Tree, NodeOrNull
<1>2. \A m \in S : m \in X <=> Cmp(m, r) = side
  BY <1>1 DEF Tree
<1>3. r \in Y
  BY <1>1, <1>2, CmpFacts, SideFacts
<1>4. sub1[r] = Y /\ sub1[NULL] = {} /\ \A x \in S \ {r} : sub1[x] = sub[x]
  <2>1. \A x \in NodeOrNull : sub1[x] = IF x = r THEN sub[x] \ X ELSE sub[x]
    BY DEF Shrunk
  <2> HIDE DEF sub1
  <2> QED
    BY <1>1, <2>1, NotNull
<1> HIDE DEF sub1
<1>5. \A x \in Y \ {r} : sub[x] \subseteq Y
  <2> SUFFICES ASSUME NEW x \in Y \ {r} PROVE sub[x] \subseteq Y
    OBVIOUS
  <2>1. x \in sub[r]
    BY <1>1
  <2>2. sub[x] \subseteq sub[ch[Cmp(x, r)][r]] /\ Cmp(x, r) \in Sides
    BY <1>1, <2>1, Below
  <2>3. Cmp(x, r) # side
    BY <1>2
  <2>4. sub[x] \subseteq S
    BY <1>1 DEF Tree
  <2>5. \A m \in sub[x] : Cmp(m, r) = Cmp(x, r)
    BY <1>1, <2>2, <2>4 DEF Tree
  <2> QED
    BY <1>2, <2>3, <2>4, <2>5
<1>6. \A x \in Y : x \in sub1[x] /\ sub1[x] \subseteq Y
  BY <1>3, <1>4, <1>5 DEF Tree
<1>7. ASSUME NEW x \in Y, NEW i \in Sides
      PROVE  /\ new[i][x] \in Y \cup {NULL}
             /\ \A m \in Y : m \in sub1[new[i][x]] <=> m \in sub1[x] /\ Cmp(m, x) = i
  <2>1. \A m \in S : m \in sub[ch[i][x]] <=> m \in sub[x] /\ Cmp(m, x) = i
    BY DEF Tree
  <2>2. ch[i][x] \in S \cup {NULL} /\ ch[i][x] # r
    <3>1. x \in S
      OBVIOUS
    <3>2. ch[i][x] # r
      BY <3>1, RootAbove
    <3> QED
      BY <3>1, <3>2 DEF Tree
  <2>3. CASE x = r /\ i = side
    BY <1>2, <1>4, <2>3
  <2>4. CASE x = r /\ i # side
    <3>1. new[i][x] = ch[i][x]
      BY <1>1, <2>4
    <3>2. ch[i][x] \in Y \cup {NULL}
      <4> SUFFICES ASSUME ch[i][x] # NULL PROVE ch[i][x] \in Y
        BY <2>2
      <4>1. Cmp(ch[i][x], r) = i
        BY <1>1, <2>4, Child
      <4> QED
        BY <1>2, <2>2, <2>4, <4>1
    <3>3. sub1[ch[i][x]] = sub[ch[i][x]]
      BY <1>1, <1>4, <2>2
    <3> QED
      BY <1>1, <1>4, <2>1, <2>4, <3>1, <3>2, <3>3
  <2>5. CASE x # r
    <3>1. new[i][x] = ch[i][x] /\ sub[x] \subseteq Y
      BY <1>5, <2>5
    <3>2. ch[i][x] \in Y \cup {NULL}
      <4> SUFFICES ASSUME ch[i][x] # NULL PROVE ch[i][x] \in Y
        BY <2>2
      <4>1. ch[i][x] \in sub[x]
        BY Child
      <4> QED
        BY <3>1, <4>1
    <3>3. sub1[ch[i][x]] = sub[ch[i][x]] /\ sub1[x] = sub[x]
      BY <1>1, <1>4, <2>2, <2>5
    <3> QED
      BY <2>1, <3>1, <3>2, <3>3
  <2> QED
    BY <2>3, <2>4, <2>5
<1>8. \A a, b \in Y : Cmp(a, b) = "here" => a = b
  BY DEF Tree
<1>9. Y \subseteq Node
  BY <1>1
<1> HIDE DEF Y
<1>10. Tree(new, r, Y, sub1)
  BY <1>3, <1>4, <1>6, <1>7, <1>8, <1>9 DEF Tree
<1> QED
  BY <1>10 DEF sub1, Y, X

-----------------------------------------------------------------------------
(* What is read from trees                                                 *)

\* An element is in its own subtree.
LEMMA Inhabited ==
  ASSUME NEW ch, NEW r, NEW S, NEW sub, Tree(ch, r, S, sub), NEW n \in S
  PROVE  Cardinality(sub[n]) \in Nat /\ 0 < Cardinality(sub[n])
<1>1. n \in sub[n] /\ sub[n] \in SUBSET Node
  BY DEF Tree
<1>2. Cardinality({}) < Cardinality(sub[n]) /\ Cardinality(sub[n]) \in Nat
  BY <1>1, Fewer, Finite
<1> QED
  BY <1>2, FS_EmptySet

\* Child fields never refer to something else than an element.
Fields(ch) == \A n \in Node, i \in Sides : ch[i][n] \in NodeOrNull

\* A tree as it is in memory.
TreeOf(t, r, S, sub) == Tree(t.child, r, S, sub)

\* Subtrees, which the invariants of the model are stated with, follows the child
\* fields to what sub says.
LEMMA SubtreesAre ==
  ASSUME NEW t, NEW r, NEW S, NEW sub, TreeOf(t, r, S, sub),
         Fields(t.child), NEW p \in S \cup {NULL}
  PROVE  Subtrees(t)[p] = sub[p]
<1> USE DEF TreeOf
<1> DEFINE none == [n \in NodeOrNull |-> {}]
           V == [NodeOrNull -> SUBSET Node]
           deeper == [f \in V |->
                   [n \in NodeOrNull |->
                      IF n = NULL THEN {}
                      ELSE {n} \cup f[t.child["left"][n]] \cup f[t.child["right"][n]]]]
           N == Cardinality(Node)
<1>1. none \in V
  OBVIOUS
<1>2. \A f \in V : deeper[f] \in V
  <2> SUFFICES ASSUME NEW f \in V PROVE deeper[f] \in V
    OBVIOUS
  <2>1. \A n \in NodeOrNull \ {NULL} : t.child["left"][n] \in NodeOrNull /\ t.child["right"][n] \in NodeOrNull
    BY DEF NodeOrNull, Sides, Fields
  <2>2. \A n \in NodeOrNull \ {NULL} : {n} \cup f[t.child["left"][n]] \cup f[t.child["right"][n]] \in SUBSET Node
    BY <2>1 DEF NodeOrNull
  <2> QED
    BY <2>2
<1>3. Subtrees(t) = Loop(deeper, none)
  BY DEF Subtrees
<1>4. \A f \in V, n \in Node :
        deeper[f][n] = {n} \cup f[t.child["left"][n]] \cup f[t.child["right"][n]]
  BY NotNull DEF NodeOrNull
<1>5. \A f \in V : deeper[f][NULL] = {}
  BY DEF NodeOrNull
<1>6. none[NULL] = {}
  BY DEF NodeOrNull
<1> HIDE DEF none, V, deeper
<1>7. PICK after \in [0..N -> V] : Runs(deeper, none, N, after) /\ Loop(deeper, none) = after[N]
  BY <1>1, <1>2, LoopRuns, SMTT(60)
<1>8. N \in Nat
  BY Elements
<1> HIDE DEF N
<1> DEFINE Near(k) == after[k][NULL] = {} /\ \A n \in S : Cardinality(sub[n]) <= k => after[k][n] = sub[n]
           T == {k \in 0..N : ~Near(k)}
<1>9. T = {}
  <2> SUFFICES ASSUME T # {} PROVE FALSE
    OBVIOUS
  <2>0. T \subseteq Nat
    BY <1>8
  <2>1. PICK k \in T : \A j \in T : ~(j < k)
    <3> HIDE DEF T
    <3> QED
      BY <2>0, LeastNumber
  <2>2. k # 0
    <3>1. Near(0)
      BY <1>6, <1>7, Inhabited DEF Runs
    <3> QED
      BY <2>1, <3>1
  <2>3. k - 1 \in 0..N /\ k - 1 < k /\ k \in 1..N
    BY <1>8, <2>1, <2>2
  <2>4. Near(k - 1)
    BY <2>1, <2>3
  <2>5. after[k] = deeper[after[k - 1]] /\ after[k - 1] \in V
    BY <1>7, <2>3 DEF Runs
  <2>6. ASSUME NEW n \in S, Cardinality(sub[n]) <= k
        PROVE  after[k][n] = sub[n]
    <3>1. ASSUME NEW i \in Sides
          PROVE  after[k - 1][t.child[i][n]] = sub[t.child[i][n]]
      <4>1. CASE t.child[i][n] = NULL
        BY <2>4, <4>1 DEF Tree
      <4>2. CASE t.child[i][n] # NULL
        <5>1. t.child[i][n] \in S /\ Cardinality(sub[t.child[i][n]]) < Cardinality(sub[n])
          BY <4>2, Child
        <5>2. Cardinality(sub[t.child[i][n]]) \in Nat /\ Cardinality(sub[n]) \in Nat
          BY <5>1, Inhabited
        <5>3. Cardinality(sub[t.child[i][n]]) <= k - 1
          BY <2>3, <2>6, <5>1, <5>2
        <5> QED
          BY <2>4, <5>1, <5>3
      <4> QED
        BY <4>1, <4>2
    <3>2. n \in Node
      BY DEF Tree
    <3>3. after[k][n] = {n} \cup sub[t.child["left"][n]] \cup sub[t.child["right"][n]]
      BY <1>4, <2>5, <3>1, <3>2 DEF Sides
    <3>4. n \in sub[n] /\ sub[n] \subseteq S /\ S \subseteq Node
      BY DEF Tree
    <3>5. \A m \in S, i \in Sides : m \in sub[t.child[i][n]] <=> m \in sub[n] /\ Cmp(m, n) = i
      BY DEF Tree
    <3>6. \A i \in Sides : sub[t.child[i][n]] \subseteq S
      BY DEF Tree
    <3>7. \A m \in sub[n] : m = n \/ Cmp(m, n) = "left" \/ Cmp(m, n) = "right"
      BY <3>2, <3>4, CmpFacts DEF Tree, Sides
    <3>8. "left" \in Sides /\ "right" \in Sides
      BY DEF Sides
    <3> QED
      BY <3>3, <3>4, <3>5, <3>6, <3>7, <3>8
  <2>7. Near(k)
    BY <1>5, <2>5, <2>6
  <2> QED
    BY <2>1, <2>7
<1>10. Near(N)
  BY <1>8, <1>9
<1>11. \A n \in S : Cardinality(sub[n]) <= N
  BY Finite DEF Tree, N
<1>12. \A n \in S : after[N][n] = sub[n]
  BY <1>10, <1>11
<1>13. Subtrees(t) = after[N] /\ after[N][NULL] = {} /\ sub[NULL] = {}
  BY <1>3, <1>7, <1>10 DEF Tree
<1>14. Subtrees(t)[p] = after[N][p]
  BY <1>13
<1>15. CASE p = NULL
  BY <1>13, <1>14, <1>15
<1>16. CASE p \in S
  BY <1>12, <1>14, <1>16
<1> QED
  BY <1>15, <1>16

\* A tree is an ordered tree in the sense of the properties that are checked.
LEMMA TreeHolds ==
  ASSUME NEW t, NEW r, NEW S, NEW sub, TreeOf(t, r, S, sub), Fields(t.child)
  PROVE  Holds(t, r, S)
<1> DEFINE f == Subtrees(t)
<1>1. \A n \in S \cup {NULL} : f[n] = sub[n]
  BY SubtreesAre
<1> USE DEF TreeOf
<1> HIDE DEF f
<1>2. \A n \in S \cup {NULL} : f[n] = sub[n]
  BY <1>1
<1>3. f[r] = S
  BY <1>2 DEF Tree
<1>4. ASSUME NEW n \in S
      PROVE  /\ \A side \in Sides : f[t.child[side][n]] = {m \in f[n] : Cmp(m, n) = side}
             /\ \A m \in f[n] : Cmp(m, n) = "here" => m = n
  <2>1. f[n] = sub[n] /\ sub[n] \subseteq S
    BY <1>2 DEF Tree
  <2>2. ASSUME NEW i \in Sides PROVE f[t.child[i][n]] = {m \in f[n] : Cmp(m, n) = i}
    <3>1. f[t.child[i][n]] = sub[t.child[i][n]] /\ sub[t.child[i][n]] \subseteq S
      BY <1>2 DEF Tree
    <3>2. \A m \in S : m \in sub[t.child[i][n]] <=> m \in sub[n] /\ Cmp(m, n) = i
      BY DEF Tree
    <3> QED
      BY <2>1, <3>1, <3>2
  <2> QED
    BY <2>1, <2>2 DEF Tree
<1> QED
  BY <1>3, <1>4 DEF Holds, Ordered, f

\* Going down one side from n ends at the outermost element of its subtree.
LEMMA ExtremeIs ==
  ASSUME NEW t, NEW r, NEW S, NEW sub, TreeOf(t, r, S, sub), NEW n \in S, NEW side \in Sides
  PROVE  /\ Extreme(t, n, side) \in sub[n] /\ t.child[side][Extreme(t, n, side)] = NULL
         /\ \A m \in sub[n] : m = Extreme(t, n, side) \/ Cmp(m, Extreme(t, n, side)) = Other(side)
<1> USE DEF TreeOf
<1> DEFINE turn == [x \in NodeOrNull |->
                      IF x # NULL /\ t.child[side][x] # NULL THEN t.child[side][x] ELSE x]
           Passed(x) == \A m \in sub[n] : m \in sub[x] \/ Cmp(m, x) = Other(side)
           R == {x \in sub[n] : Passed(x) /\ t.child[side][x] = NULL}
           G == [k \in Nat |-> {x \in sub[n] : Passed(x) /\ Cardinality(sub[x]) <= k}]
<1>1. sub[n] \subseteq S /\ S \subseteq Node /\ n \in sub[n] /\ n \in Node
  BY DEF Tree
<1>2. \A x \in S : turn[x] = IF t.child[side][x] # NULL THEN t.child[side][x] ELSE x
  BY <1>1, NotNull DEF NodeOrNull
<1>3. Extreme(t, n, side) = Loop(turn, n)
  BY DEF Extreme
<1> HIDE DEF turn
<1>4. \A x \in R : turn[x] \in R
  BY <1>1, <1>2
<1>5. ASSUME NEW k \in Nat, NEW x \in G[k]
      PROVE  x \in R \/ \E j \in Nat : j < k /\ turn[x] \in G[j]
  <2>1. x \in sub[n] /\ x \in S /\ Passed(x) /\ Cardinality(sub[x]) <= k /\ x \in Node
    BY <1>1
  <2>2. CASE t.child[side][x] = NULL
    BY <2>1, <2>2
  <2>3. CASE t.child[side][x] # NULL
    <3> DEFINE c == t.child[side][x]
    <3>1. c \in S /\ c \in sub[x] /\ Cmp(c, x) = side /\ c \in Node /\ Cardinality(sub[c]) < Cardinality(sub[x])
      BY <2>1, <2>3, Child
    <3>2. Cardinality(sub[c]) \in Nat /\ Cardinality(sub[x]) \in Nat
      BY <2>1, <3>1, Inhabited
    <3>3. c \in sub[n]
      BY <2>1, <3>1, Nested
    <3>4. Cmp(x, c) = Other(side) /\ Other(side) \in Sides
      BY <2>1, <3>1, CmpFacts, SideFacts
    <3>5. ASSUME NEW m \in sub[n] PROVE m \in sub[c] \/ Cmp(m, c) = Other(side)
      <4>1. m \in S /\ m \in Node
        BY <1>1
      <4>2. CASE Cmp(m, x) = Other(side)
        BY <2>1, <3>1, <3>4, <4>1, <4>2, CmpTransitive
      <4>3. CASE m \in sub[x] /\ Cmp(m, x) = side
        <5>1. m \in sub[c]
          BY <2>1, <4>1, <4>3 DEF Tree
        <5> QED
          BY <5>1
      <4>4. CASE Cmp(m, x) = "here"
        BY <2>1, <3>1, <3>4, <4>1, <4>4, CmpHere
      <4> QED
        BY <2>1, <4>1, <4>2, <4>3, <4>4, CmpFacts, SideFacts
    <3>6. c \in G[Cardinality(sub[c])] /\ Cardinality(sub[c]) < k
      BY <2>1, <3>1, <3>2, <3>3, <3>5
    <3> QED
      BY <1>2, <2>1, <2>3, <3>2, <3>6
  <2> QED
    BY <2>2, <2>3
<1>6. G[0] = {}
  <2> SUFFICES ASSUME NEW x \in G[0] PROVE FALSE
    OBVIOUS
  <2>1. x \in S /\ Cardinality(sub[x]) <= 0
    BY <1>1
  <2> QED
    BY <2>1, Inhabited
<1>7. n \in G[Cardinality(sub[n])] /\ Cardinality(sub[n]) \in Nat /\ Cardinality(sub[n]) <= Cardinality(Node)
  BY <1>1, Inhabited, Finite
<1> HIDE DEF G, R
<1>8. Loop(turn, n) \in R
  BY <1>4, <1>5, <1>6, <1>7, LoopEnds
<1>9. ASSUME NEW m \in sub[n]
      PROVE  m = Extreme(t, n, side) \/ Cmp(m, Extreme(t, n, side)) = Other(side)
  <2> DEFINE x == Extreme(t, n, side)
  <2>1. x \in sub[n] /\ Passed(x) /\ t.child[side][x] = NULL
    BY <1>3, <1>8 DEF R
  <2> HIDE DEF x
  <2>2. x \in S /\ m \in S /\ x \in Node /\ m \in Node
    BY <1>1, <2>1
  <2>3. Cmp(m, x) = side => m \notin sub[x]
    <3>1. m \in sub[t.child[side][x]] <=> m \in sub[x] /\ Cmp(m, x) = side
      BY <2>2 DEF Tree
    <3> QED
      BY <2>1, <3>1 DEF Tree
  <2>4. m = x \/ Cmp(m, x) = Other(side)
    BY <2>1, <2>2, <2>3, CmpFacts, SideFacts DEF Tree
  <2> QED
    BY <2>4 DEF x
<1> QED
  BY <1>3, <1>8, <1>9 DEF R

\* The element all others are to the right of is the least one.
LEMMA LeastIs ==
  ASSUME NEW X \in SUBSET Node, NEW n \in X, \A m \in X : m = n \/ Cmp(m, n) = "right"
  PROVE  Least(X) = n
<1>1. \A m \in X : Key[n] <= Key[m] /\ Key[m] \in Int
  BY TreeAssumption DEF Cmp
<1>2. \A m \in X : m # n => Key[n] < Key[m]
  BY TreeAssumption DEF Cmp
<1> QED
  BY <1>1, <1>2 DEF Least

\* The element all others are to the left of is the greatest one.
LEMMA GreatestIs ==
  ASSUME NEW X \in SUBSET Node, NEW n \in X, \A m \in X : m = n \/ Cmp(m, n) = "left"
  PROVE  Greatest(X) = n
<1>1. \A m \in X : Key[n] >= Key[m] /\ Key[m] \in Int
  BY TreeAssumption DEF Cmp
<1>2. \A m \in X : m # n => Key[n] > Key[m]
  BY TreeAssumption DEF Cmp
<1> QED
  BY <1>1, <1>2 DEF Greatest

\* The elements with the key of n, and those above and below it.
LEMMA KeySets ==
  ASSUME NEW X \in SUBSET Node, NEW n \in Node
  PROVE  /\ SameKey(X, n) = {m \in X : Cmp(m, n) = "here"}
         /\ {m \in X : Key[m] > Key[n]} = {m \in X : Cmp(m, n) = "right"}
         /\ {m \in X : Key[m] < Key[n]} = {m \in X : Cmp(m, n) = "left"}
         /\ {m \in X : Key[m] >= Key[n]} = {m \in X : Cmp(m, n) # "left"}
<1>1. \A m \in X : Key[m] \in Int /\ Key[n] \in Int
  BY TreeAssumption
<1>2. \A m \in X : /\ Key[m] = Key[n] <=> Cmp(m, n) = "here"
                   /\ Key[m] > Key[n] <=> Cmp(m, n) = "right"
                   /\ Key[m] < Key[n] <=> Cmp(m, n) = "left"
                   /\ Key[m] >= Key[n] <=> Cmp(m, n) # "left"
  BY <1>1 DEF Cmp
<1>3. SameKey(X, n) = {m \in X : Cmp(m, n) = "here"}
  BY <1>2 DEF SameKey
<1>4. {m \in X : Key[m] > Key[n]} = {m \in X : Cmp(m, n) = "right"}
  BY <1>2
<1>5. {m \in X : Key[m] < Key[n]} = {m \in X : Cmp(m, n) = "left"}
  BY <1>2
<1>6. {m \in X : Key[m] >= Key[n]} = {m \in X : Cmp(m, n) # "left"}
  BY <1>2
<1> QED
  BY <1>3, <1>4, <1>5, <1>6

\* In new, the root n has the trees b on its sides.
Pieces(ch, b, B, g, n, new) ==
  /\ n \in Node
  /\ \A e \in Sides :
       /\ Tree(ch, b[e], B[e], g[e])
       /\ new[e][n] = b[e]
       /\ \A x \in B[e] : Cmp(x, n) = e /\ \A i \in Sides : new[i][x] = ch[i][x]

\* Two trees and an element between them, as their root, are a tree.
LEMMA Rooted ==
  ASSUME NEW ch, NEW b, NEW B, NEW g, NEW n, NEW new, Pieces(ch, b, B, g, n, new)
  PROVE  \E sub : Tree(new, n, {n} \cup B["left"] \cup B["right"], sub)
<1> USE DEF Pieces
<1> DEFINE S == {n} \cup B["left"] \cup B["right"]
           side(x) == IF x \in B["left"] THEN "left" ELSE "right"
           sub == [x \in NodeOrNull |-> IF x = n THEN S ELSE IF x = NULL THEN {} ELSE g[side(x)][x]]
<1>1. "left" \in Sides /\ "right" \in Sides /\ \A i \in Sides : i = "left" \/ i = "right"
  BY DEF Sides
<1>2. \A e \in Sides : B[e] \subseteq Node /\ n \notin B[e]
  <2> SUFFICES ASSUME NEW e \in Sides PROVE B[e] \subseteq Node /\ n \notin B[e]
    OBVIOUS
  <2>1. B[e] \subseteq Node
    BY DEF Tree
  <2> QED
    BY <2>1, CmpFacts, SideFacts
<1>3. \A e \in Sides : \A x \in B[e] : side(x) = e
  BY <1>1
<1>4. /\ sub[n] = S /\ sub[NULL] = {} /\ n # NULL
      /\ \A e \in Sides : \A x \in B[e] : sub[x] = g[e][x]
  <2>1. \A x \in NodeOrNull : sub[x] = IF x = n THEN S ELSE IF x = NULL THEN {} ELSE g[side(x)][x]
    OBVIOUS
  <2> HIDE DEF sub, side
  <2>2. \A e \in Sides : \A x \in B[e] : x \in NodeOrNull /\ x # n /\ x # NULL
    BY <1>2, NotNull DEF NodeOrNull
  <2>3. n \in NodeOrNull /\ NULL \in NodeOrNull /\ n # NULL
    BY NotNull DEF NodeOrNull
  <2> QED
    BY <1>3, <2>1, <2>2, <2>3
<1> HIDE DEF sub, side
<1>5. \A e \in Sides : B[e] \subseteq S
  BY <1>1
<1>6. S \subseteq Node
  BY <1>1, <1>2
<1>7. \A m \in S : \A e \in Sides : m \in B[e] <=> Cmp(m, n) = e
  <2> SUFFICES ASSUME NEW m \in S, NEW e \in Sides PROVE m \in B[e] <=> Cmp(m, n) = e
    OBVIOUS
  <2>1. CASE m = n
    BY <1>2, <2>1, CmpFacts, SideFacts
  <2>2. CASE m \in B["left"]
    BY <1>1, <2>2
  <2>3. CASE m \in B["right"]
    BY <1>1, <2>3
  <2> QED
    BY <2>1, <2>2, <2>3
<1>8. \A x \in S : x \in sub[x] /\ sub[x] \subseteq S
  <2> SUFFICES ASSUME NEW x \in S PROVE x \in sub[x] /\ sub[x] \subseteq S
    OBVIOUS
  <2>1. CASE x = n
    BY <1>4, <2>1
  <2>2. ASSUME NEW e \in Sides, x \in B[e] PROVE x \in sub[x] /\ sub[x] \subseteq S
    <3>1. x \in g[e][x] /\ g[e][x] \subseteq B[e]
      BY <2>2 DEF Tree
    <3> QED
      BY <1>4, <1>5, <2>2, <3>1
  <2> QED
    BY <1>1, <2>1, <2>2
<1>9. \A e \in Sides : sub[b[e]] = B[e] /\ b[e] \in S \cup {NULL}
  <2> SUFFICES ASSUME NEW e \in Sides PROVE sub[b[e]] = B[e] /\ b[e] \in S \cup {NULL}
    OBVIOUS
  <2>1. b[e] \in B[e] \cup {NULL} /\ g[e][b[e]] = B[e] /\ g[e][NULL] = {}
    BY DEF Tree
  <2> QED
    BY <1>4, <1>5, <2>1
<1>10. ASSUME NEW x \in S, NEW i \in Sides
       PROVE  /\ new[i][x] \in S \cup {NULL}
              /\ \A m \in S : m \in sub[new[i][x]] <=> m \in sub[x] /\ Cmp(m, x) = i
  <2>1. CASE x = n
    <3>1. new[i][x] = b[i]
      BY <2>1
    <3> QED
      BY <1>4, <1>7, <1>9, <2>1, <3>1
  <2>2. ASSUME NEW e \in Sides, x \in B[e]
        PROVE  /\ new[i][x] \in S \cup {NULL}
               /\ \A m \in S : m \in sub[new[i][x]] <=> m \in sub[x] /\ Cmp(m, x) = i
    <3>1. ch[i][x] \in B[e] \cup {NULL} /\ g[e][NULL] = {}
      BY <2>2 DEF Tree
    <3>2. new[i][x] = ch[i][x]
      BY <2>2
    <3>3. sub[ch[i][x]] = g[e][ch[i][x]] /\ sub[x] = g[e][x]
      <4>1. sub[x] = g[e][x]
        BY <1>4, <2>2
      <4>2. sub[ch[i][x]] = g[e][ch[i][x]]
        BY <1>4, <3>1
      <4> QED
        BY <4>1, <4>2
    <3>4. g[e][x] \subseteq B[e] /\ g[e][ch[i][x]] \subseteq B[e]
      BY <2>2, <3>1 DEF Tree
    <3>5. \A m \in B[e] : m \in g[e][ch[i][x]] <=> m \in g[e][x] /\ Cmp(m, x) = i
      BY <2>2 DEF Tree
    <3>6. new[i][x] \in S \cup {NULL}
      BY <1>5, <2>2, <3>1, <3>2
    <3>7. ASSUME NEW m \in S
          PROVE  m \in g[e][ch[i][x]] <=> m \in g[e][x] /\ Cmp(m, x) = i
      BY <3>4, <3>5
    <3>8. sub[new[i][x]] = g[e][ch[i][x]] /\ sub[x] = g[e][x]
      BY <3>2, <3>3
    <3> QED
      BY <3>6, <3>7, <3>8
  <2> QED
    BY <1>1, <2>1, <2>2
<1>11. \A x, y \in S : Cmp(x, y) = "here" => x = y
  <2> SUFFICES ASSUME NEW x \in S, NEW y \in S, Cmp(x, y) = "here" PROVE x = y
    OBVIOUS
  <2>1. x \in Node /\ y \in Node
    BY <1>6
  <2>2. Cmp(x, n) = Cmp(y, n)
    BY <2>1, CmpHere
  <2>3. CASE x = n \/ y = n
    <3>1. Cmp(x, n) = "here" /\ Cmp(y, n) = "here"
      BY <2>2, <2>3, CmpFacts
    <3>2. x \notin B["left"] /\ x \notin B["right"] /\ y \notin B["left"] /\ y \notin B["right"]
      BY <1>1, <1>7, <3>1, SideFacts
    <3> QED
      BY <3>2
  <2>4. ASSUME NEW e \in Sides, x \in B[e] PROVE x = y
    <3>1. y \in B[e]
      BY <1>7, <2>2, <2>4
    <3> QED
      BY <2>4, <3>1 DEF Tree
  <2> QED
    BY <1>1, <2>3, <2>4
<1>12. Tree(new, n, S, sub)
  <2> HIDE DEF S
  <2>1. n \in S
    BY DEF S
  <2> QED
    BY <1>4, <1>6, <1>8, <1>10, <1>11, <2>1 DEF Tree
<1> QED
  BY <1>12

-----------------------------------------------------------------------------
(* The memory of a splay tree                                              *)

\* Where a child field may be.
Places == Node \cup {Header}

\* The header of SPLAY, a local variable, is neither an element nor null.
LEMMA HeaderIs == Header \notin NodeOrNull /\ Header # NULL /\ Header \notin Node
  BY TreeAssumption DEF Header, NodeOrNull, NULL

\* What an assignment to a child field changes.
LEMMA SpSet ==
  ASSUME NEW t \in SpMemory, NEW side \in Sides, NEW n \in Places, NEW m \in NodeOrNull
  PROVE  /\ SetChild(t, side, n, m) \in SpMemory
         /\ SetChild(t, side, n, m).root = t.root
         /\ \A i \in Sides, x \in Places :
              SetChild(t, side, n, m).child[i][x] = IF i = side /\ x = n THEN m ELSE t.child[i][x]
  BY DEF SetChild, SpMemory, Places

\* What an assignment to the root changes.
LEMMA SpRoot ==
  ASSUME NEW t \in SpMemory, NEW m \in NodeOrNull
  PROVE  /\ SetRoot(t, m) \in SpMemory
         /\ SetRoot(t, m).root = m /\ SetRoot(t, m).child = t.child
  BY DEF SetRoot, SpMemory

\* What the fields refer to.
LEMMA SpReads ==
  ASSUME NEW t \in SpMemory
  PROVE  /\ t.root \in NodeOrNull /\ Fields(t.child)
         /\ \A i \in Sides, x \in Places : t.child[i][x] \in NodeOrNull
  BY DEF SpMemory, Places, Fields

-----------------------------------------------------------------------------
(* The loop of SPLAY                                                       *)

\* The child fields in the loop, as if those that the next link overwrites were null.
Live(u, end) ==
  [i \in Sides |-> [x \in Places |-> IF x = end[Other(i)] THEN NULL ELSE u.child[i][x]]]

\* Only the field that the next link overwrites is taken as null.
LEMMA LiveIs ==
  ASSUME NEW u, NEW end, NEW i \in Sides, NEW x \in Places
  PROVE  Live(u, end)[i][x] = IF x = end[Other(i)] THEN NULL ELSE u.child[i][x]
  BY DEF Live

\* The elements in S are in three trees: M, below the root, and those that were
\* set aside to the left and to the right, to be searched no more.
Aside(u, end, t, S, dir, M, H, sub) ==
  /\ u \in SpMemory /\ end \in [Sides -> Places]
  /\ Tree(Live(u, end), u.root, M, sub) /\ u.root # NULL
  /\ H \in [Sides -> SUBSET Node]
  /\ \A e \in Sides :
       /\ Tree(Live(u, end), Live(u, end)[Other(e)][Header], H[e], sub)
       /\ end[e] # Header => end[e] \in H[e]
       /\ \A x \in H[e] : /\ x = end[e] \/ Cmp(end[e], x) = Other(e)
                          /\ dir[x] = Other(e)
                          /\ \A m \in M : Cmp(x, m) = e
  /\ S = M \cup H["left"] \cup H["right"]
  /\ \A i \in Sides, x \in Node \ S : u.child[i][x] = t.child[i][x]

\* dir leads to one place.
Leads(dir, S) ==
  /\ dir \in [Node -> Sides \cup {"here"}]
  /\ \A a, b \in S : dir[b] \in Sides /\ Cmp(a, b) = Other(dir[b]) => dir[a] = dir[b]

\* What is set aside and what is still searched have nothing in common.
LEMMA AsideFacts ==
  ASSUME NEW u, NEW end, NEW t, NEW S, NEW dir, NEW M, NEW H, NEW sub,
         Aside(u, end, t, S, dir, M, H, sub)
  PROVE  /\ u.root \in M /\ sub[u.root] = M /\ M \subseteq Node
         /\ \A e \in Sides : H[e] \subseteq Node /\ H[e] \cap M = {} /\ end[e] \notin M /\ end[e] \in H[e] \cup {Header}
         /\ \A e \in Sides : H[e] \cap H[Other(e)] = {}
         /\ \A i \in Sides, x \in M : Live(u, end)[i][x] = u.child[i][x]
         /\ \A e \in Sides : end[e] = Header => H[e] = {}
<1>1. u.root \in M /\ sub[u.root] = M /\ M \subseteq Node /\ sub[NULL] = {}
  BY DEF Aside, Tree
<1>2. ASSUME NEW e \in Sides
      PROVE  H[e] \subseteq Node /\ H[e] \cap M = {} /\ end[e] \notin M /\ end[e] \in H[e] \cup {Header}
  <2>1. H[e] \subseteq Node /\ end[e] \in H[e] \cup {Header}
    BY DEF Aside
  <2>2. H[e] \cap M = {}
    <3> SUFFICES ASSUME NEW x \in H[e], x \in M PROVE FALSE
      OBVIOUS
    <3>1. Cmp(x, x) = e /\ x \in Node
      BY <2>1 DEF Aside
    <3> QED
      BY <3>1, CmpFacts, SideFacts
  <2> QED
    BY <1>1, <2>1, <2>2, HeaderIs
<1>3. ASSUME NEW e \in Sides, NEW x \in H[e], x \in H[Other(e)] PROVE FALSE
  <2>1. Cmp(x, u.root) = e /\ Cmp(x, u.root) = Other(e)
    BY <1>1, <1>3, SideFacts DEF Aside
  <2> QED
    BY <2>1, SideFacts
<1>4. ASSUME NEW i \in Sides, NEW x \in M PROVE Live(u, end)[i][x] = u.child[i][x]
  <2>1. x # end[Other(i)] /\ x \in Places
    BY <1>1, <1>2, SideFacts DEF Places
  <2> QED
    BY <2>1, LiveIs
<1>5. ASSUME NEW e \in Sides, end[e] = Header PROVE H[e] = {}
  <2>1. Other(e) \in Sides /\ Other(Other(e)) = e /\ Header \in Places
    BY SideFacts DEF Places
  <2>2. Live(u, end)[Other(e)][Header] = NULL
    BY <1>5, <2>1, LiveIs
  <2>3. sub[Live(u, end)[Other(e)][Header]] = H[e]
    BY DEF Aside, Tree
  <2> QED
    BY <1>1, <2>2, <2>3
<1> QED
  BY <1>1, <1>2, <1>3, <1>4, <1>5

\* What SPLAY_ROTATE_RIGHT and SPLAY_ROTATE_LEFT change.
LEMMA SpRotate ==
  ASSUME NEW u \in SpMemory, NEW side \in Sides, NEW c, c = u.child[side][u.root],
         u.root \in Node, c \in Node, c # u.root
  PROVE  /\ SPLAY_ROTATE(u, side) \in SpMemory /\ SPLAY_ROTATE(u, side).root = c
         /\ \A i \in Sides, x \in Places :
              SPLAY_ROTATE(u, side).child[i][x] =
                IF i = side /\ x = u.root THEN u.child[Other(side)][c]
                ELSE IF i = Other(side) /\ x = c THEN u.root ELSE u.child[i][x]
<1> DEFINE far == Other(side)
           n == u.root
           inner == u.child[far][c]
           a == SetChild(u, side, n, inner)
           b == SetChild(a, far, c, n)
           d == SetRoot(b, c)
<1>1. far \in Sides /\ far # side /\ c \in Places /\ n \in Places
  BY SideFacts DEF Places
<1>2. inner \in NodeOrNull /\ n \in NodeOrNull /\ c \in NodeOrNull
  BY <1>1, SpReads DEF NodeOrNull
<1>3. SPLAY_ROTATE(u, side) = d
  BY DEF SPLAY_ROTATE
<1> HIDE DEF inner, n, far
<1>4. /\ a \in SpMemory
      /\ \A i \in Sides, x \in Places : a.child[i][x] = IF i = side /\ x = n THEN inner ELSE u.child[i][x]
  BY <1>1, <1>2, SpSet
<1> HIDE DEF a
<1>5. /\ b \in SpMemory
      /\ \A i \in Sides, x \in Places : b.child[i][x] = IF i = far /\ x = c THEN n ELSE a.child[i][x]
  <2>1. a \in SpMemory
    BY <1>4
  <2>2. far \in Sides /\ c \in Places /\ n \in NodeOrNull
    BY <1>1, <1>2
  <2> HIDE DEF b
  <2>3. b = SetChild(a, far, c, n)
    BY DEF b
  <2>4. /\ SetChild(a, far, c, n) \in SpMemory
        /\ \A i \in Sides, x \in Places : SetChild(a, far, c, n).child[i][x] = IF i = far /\ x = c THEN n ELSE a.child[i][x]
    BY <2>1, <2>2, SpSet, SMTT(30)
  <2> QED
    BY <2>3, <2>4
<1> HIDE DEF b
<1>6. d \in SpMemory /\ d.root = c /\ d.child = b.child
  BY <1>2, <1>5, SpRoot
<1> HIDE DEF d
<1>7. \A i \in Sides, x \in Places :
         d.child[i][x] = IF i = side /\ x = n THEN inner
                         ELSE IF i = far /\ x = c THEN n ELSE u.child[i][x]
  BY <1>1, <1>4, <1>5, <1>6
<1> QED
  BY <1>3, <1>6, <1>7 DEF inner, n, far

\* A rotation at the root of what is still searched sets nothing aside.
LEMMA RotateStep ==
  ASSUME NEW u, NEW end, NEW t, NEW S, NEW dir, NEW M, NEW H, NEW sub,
         Aside(u, end, t, S, dir, M, H, sub),
         NEW side \in Sides, NEW c, c = u.child[side][u.root], c # NULL
  PROVE  /\ Aside(SPLAY_ROTATE(u, side), end, t, S, dir, M, H, Turned(sub, u.root, c, side))
         /\ SPLAY_ROTATE(u, side).root = c
         /\ SPLAY_ROTATE(u, side).child[side][c] = u.child[side][c]
<1> DEFINE far == Other(side)
           n == u.root
           v == SPLAY_ROTATE(u, side)
           sub1 == Turned(sub, n, c, side)
           ch == Live(u, end)
           new == Live(v, end)
<1>1. n \in M /\ n \in Node /\ M \subseteq Node /\ u \in SpMemory /\ Tree(ch, n, M, sub) /\ sub[n] = M
  <2>1. n \in M /\ M \subseteq Node /\ sub[n] = M
    BY AsideFacts
  <2>2. u \in SpMemory /\ Tree(ch, n, M, sub)
    BY DEF Aside
  <2> QED
    BY <2>1, <2>2
<1>2. \A i \in Sides, x \in M : ch[i][x] = u.child[i][x]
  BY AsideFacts
<1>3. c = ch[side][n]
  BY <1>1, <1>2
<1>4. far \in Sides /\ far # side /\ Other(far) = side /\ \A i \in Sides : i = side \/ i = far
  BY SideFacts
<1> HIDE DEF ch
<1>5. c \in M /\ c \in Node /\ c # n
  BY <1>1, <1>3, Child
<1>6. /\ v \in SpMemory /\ v.root = c
      /\ \A i \in Sides, x \in Places :
           v.child[i][x] = IF i = side /\ x = n THEN u.child[far][c]
                           ELSE IF i = far /\ x = c THEN n ELSE u.child[i][x]
  BY <1>1, <1>5, SpRotate
<1> HIDE DEF v
<1>7. M \subseteq Places /\ \A e \in Sides : end[e] \notin M /\ H[e] \cap M = {} /\ H[e] \subseteq Places
  BY <1>1, AsideFacts DEF Places
<1>8. \A i \in Sides, x \in M : new[i][x] = v.child[i][x]
  BY <1>7, LiveIs, SideFacts
<1>9. ASSUME NEW i \in Sides, NEW x \in Places \ M PROVE new[i][x] = ch[i][x]
  <2>1. v.child[i][x] = u.child[i][x]
    BY <1>1, <1>5, <1>6
  <2> QED
    BY <2>1, LiveIs DEF ch
<1> HIDE DEF new
<1>10. Tree(new, c, M, sub1)
  <2>1. new[side][n] = ch[far][c] /\ new[far][c] = n
    BY <1>1, <1>2, <1>4, <1>5, <1>6, <1>7, <1>8
  <2>2. new[side][c] = ch[side][c] /\ new[far][n] = ch[far][n]
    BY <1>1, <1>2, <1>4, <1>5, <1>6, <1>7, <1>8
  <2>3. ASSUME NEW x \in M \ {n, c}, NEW i \in Sides
        PROVE  new[i][x] = IF ch[i][x] = n THEN c ELSE ch[i][x]
    <3>1. new[i][x] = ch[i][x]
      BY <1>2, <1>6, <1>7, <1>8
    <3>2. ch[i][x] # n
      BY <1>1, RootAbove
    <3> QED
      BY <3>1, <3>2
  <2>4. Tree(new, IF n = n THEN c ELSE n, M, sub1)
    <3> HIDE DEF n
    <3> QED
      BY <1>1, <1>3, <2>1, <2>2, <2>3, Rotated
  <2> QED
    BY <2>4
<1>11. sub1[NULL] = {} /\ \A x \in Node \ M : sub1[x] = sub[x]
  <2>1. \A x \in NodeOrNull \ M : sub1[x] = sub[x]
    BY <1>1, <1>5 DEF Turned
  <2>2. NULL \in NodeOrNull \ M /\ Node \subseteq NodeOrNull
    BY <1>1, NotNull DEF NodeOrNull
  <2>3. sub[NULL] = {}
    BY <1>1 DEF Tree
  <2> QED
    BY <2>1, <2>2, <2>3
<1> HIDE DEF sub1
<1>12. ASSUME NEW e \in Sides
       PROVE  Tree(new, new[Other(e)][Header], H[e], sub1)
  <2>1. new[Other(e)][Header] = ch[Other(e)][Header]
    BY <1>1, <1>9, HeaderIs, SideFacts DEF Places
  <2>2. Tree(ch, ch[Other(e)][Header], H[e], sub)
    BY DEF Aside, ch
  <2>3. \A x \in H[e] : sub1[x] = sub[x] /\ \A i \in Sides : new[i][x] = ch[i][x]
    <3>1. \A x \in H[e] : x \in Node \ M /\ x \in Places \ M
      BY <1>7, AsideFacts
    <3> QED
      BY <1>9, <1>11, <3>1
  <2> QED
    BY <1>11, <2>1, <2>2, <2>3, Framed
<1>13. \A i \in Sides, x \in Node \ S : v.child[i][x] = t.child[i][x]
  <2>1. M \subseteq S /\ \A i \in Sides, x \in Node \ S : u.child[i][x] = t.child[i][x]
    BY DEF Aside
  <2>2. n \in S /\ c \in S /\ Node \subseteq Places
    BY <1>1, <1>5, <2>1 DEF Places
  <2> QED
    BY <1>6, <2>1, <2>2
<1>14. c # NULL /\ end \in [Sides -> Places] /\ H \in [Sides -> SUBSET Node] /\ S = M \cup H["left"] \cup H["right"]
  BY DEF Aside
<1>15. \A e \in Sides :
         /\ end[e] # Header => end[e] \in H[e]
         /\ \A x \in H[e] : /\ x = end[e] \/ Cmp(end[e], x) = Other(e)
                            /\ dir[x] = Other(e)
                            /\ \A m \in M : Cmp(x, m) = e
  BY DEF Aside
<1>16. Aside(v, end, t, S, dir, M, H, sub1)
  BY <1>6, <1>10, <1>12, <1>13, <1>14, <1>15 DEF Aside, new
<1>17. v.child[side][c] = u.child[side][c]
  BY <1>4, <1>5, <1>6, <1>7
<1> QED
  BY <1>6, <1>16, <1>17 DEF v, sub1

\* SPLAY_LINKLEFT and SPLAY_LINKRIGHT set the root and one of its subtrees aside,
\* and the search goes on in the other one.
LEMMA LinkStep ==
  ASSUME NEW u, NEW end, NEW t, NEW S, NEW dir, NEW M, NEW H, NEW sub,
         Aside(u, end, t, S, dir, M, H, sub), Leads(dir, S),
         NEW side \in Sides, dir[u.root] = side,
         NEW next, next = u.child[side][u.root], next # NULL
  PROVE  \E G, g :
           /\ Aside(SetRoot(SetChild(u, side, end[Other(side)], u.root), next),
                    [end EXCEPT ![Other(side)] = u.root], t, S, dir, sub[next], G, g)
           /\ Cardinality(sub[next]) < Cardinality(M)
<1> DEFINE away == Other(side)
           n == u.root
           last == end[away]
           w == SetChild(u, side, last, n)
           v == SetRoot(w, next)
           end1 == [end EXCEPT ![away] = n]
           ch == Live(u, end)
           new == Live(v, end1)
           M1 == sub[next]
           X == M \ M1
           sub1 == Shrunk(sub, n, M1)
           mid == [i \in Sides |-> [x \in Places |-> IF i = side /\ x = n THEN NULL ELSE ch[i][x]]]
           g == IF last = Header THEN sub1 ELSE Grown(sub1, H[away], last, X)
           G == [H EXCEPT ![away] = @ \cup X]
<1>1. n \in M /\ n \in Node /\ M \subseteq Node /\ u \in SpMemory /\ Tree(ch, n, M, sub) /\ sub[n] = M
  <2>1. n \in M /\ M \subseteq Node /\ sub[n] = M
    BY AsideFacts
  <2>2. u \in SpMemory /\ Tree(ch, n, M, sub)
    BY DEF Aside
  <2> QED
    BY <2>1, <2>2
<1>2. \A i \in Sides, x \in M : ch[i][x] = u.child[i][x]
  BY AsideFacts
<1>3. next = ch[side][n]
  BY <1>1, <1>2
<1>4. away \in Sides /\ away # side /\ Other(away) = side /\ \A i \in Sides : i = side \/ i = away
  BY SideFacts
<1>5. \A e \in Sides : H[e] \subseteq Node /\ H[e] \cap M = {} /\ end[e] \notin M /\ end[e] \in H[e] \cup {Header}
                       /\ H[e] \cap H[Other(e)] = {} /\ (end[e] = Header => H[e] = {})
  BY AsideFacts
<1>6. end \in [Sides -> Places] /\ H \in [Sides -> SUBSET Node] /\ S = M \cup H["left"] \cup H["right"]
  BY DEF Aside
<1>7. next \in M /\ next \in Node /\ next # n /\ Cardinality(M1) < Cardinality(M) /\ n \notin M1 /\ M1 \subseteq M /\ next \in M1
  <2> HIDE DEF ch, n
  <2>1. next \in M /\ next \in Node /\ next # n /\ Cardinality(sub[next]) < Cardinality(sub[n]) /\ n \notin sub[next] /\ sub[next] \subseteq sub[n]
    BY <1>1, <1>3, Child
  <2>2. next \in sub[next]
    BY <1>1, <2>1 DEF Tree
  <2> QED
    BY <1>1, <2>1, <2>2
<1>8. /\ v \in SpMemory /\ v.root = next
      /\ \A i \in Sides, x \in Places : v.child[i][x] = IF i = side /\ x = last THEN n ELSE u.child[i][x]
  <2>1. last \in Places /\ n \in NodeOrNull /\ next \in NodeOrNull
    BY <1>1, <1>4, <1>6, <1>7 DEF NodeOrNull
  <2>2. w \in SpMemory /\ \A i \in Sides, x \in Places : w.child[i][x] = IF i = side /\ x = last THEN n ELSE u.child[i][x]
    BY <1>1, <2>1, SpSet
  <2> HIDE DEF w
  <2> QED
    BY <2>1, <2>2, SpRoot
<1>9. end1 \in [Sides -> Places] /\ end1[away] = n /\ end1[side] = end[side]
  BY <1>1, <1>4, <1>6 DEF Places
<1> HIDE DEF v, w, end1
<1>10. \A i \in Sides, x \in Places : new[i][x] = IF x = end1[Other(i)] THEN NULL ELSE v.child[i][x]
  BY LiveIs
<1>11. \A i \in Sides, x \in Places : ch[i][x] = IF x = end[Other(i)] THEN NULL ELSE u.child[i][x]
  BY LiveIs
\* only two fields change: that of the last element set aside, and that of n
<1>12. last \in Places /\ last # n /\ n \in Places /\ ch[side][last] = NULL /\ (last # Header => last \in H[away])
  BY <1>1, <1>4, <1>5, <1>6, <1>11 DEF Places
<1>13. \A i \in Sides, x \in Places :
         new[i][x] = IF i = side /\ x = last THEN n ELSE IF i = side /\ x = n THEN NULL ELSE ch[i][x]
  BY <1>4, <1>8, <1>9, <1>10, <1>11, <1>12
<1>14. \A i \in Sides, x \in Places : mid[i][x] = IF i = side /\ x = n THEN NULL ELSE ch[i][x]
  OBVIOUS
<1> HIDE DEF ch, new, mid
<1>15. M \subseteq Places /\ \A e \in Sides : H[e] \subseteq Places
  BY <1>1, <1>5 DEF Places
<1>16. sub1[n] = X /\ sub1[NULL] = {} /\ \A x \in Node \ {n} : sub1[x] = sub[x]
  <2>1. \A x \in NodeOrNull : sub1[x] = IF x = n THEN sub[x] \ M1 ELSE sub[x]
    BY DEF Shrunk
  <2>2. sub[NULL] = {} /\ NULL \in NodeOrNull /\ Node \subseteq NodeOrNull /\ n # NULL
    BY <1>1, NotNull DEF Tree, NodeOrNull
  <2> HIDE DEF sub1
  <2> QED
    BY <1>1, <2>1, <2>2
<1>17. Tree(mid, n, X, sub1)
  <2>1. mid[side][n] = NULL /\ \A x \in M, i \in Sides : (x = n /\ i = side) \/ mid[i][x] = ch[i][x]
    BY <1>12, <1>14, <1>15
  <2>2. n # NULL
    BY <1>1, NotNull
  <2> HIDE DEF n
  <2> QED
    BY <1>1, <1>3, <2>1, <2>2, Detached
<1> HIDE DEF sub1
<1>18. n \in X /\ X \subseteq M
  BY <1>1, <1>7
<1>19. /\ g[NULL] = {}
       /\ \A x \in Node \ H[away] : g[x] = sub1[x]
       /\ last = Header => g = sub1
       /\ last # Header => g = Grown(sub1, H[away], last, X)
  <2>1. CASE last = Header
    BY <1>16, <2>1
  <2>2. CASE last # Header
    <3>1. \A x \in NodeOrNull : g[x] = IF x \in H[away] /\ last \in sub1[x] THEN sub1[x] \cup X ELSE sub1[x]
      BY <2>2 DEF Grown
    <3>2. NULL \in NodeOrNull /\ NULL \notin H[away] /\ Node \subseteq NodeOrNull
      BY <1>4, <1>5, NotNull DEF NodeOrNull
    <3> QED
      BY <1>16, <2>2, <3>1, <3>2
  <2> QED
    BY <2>1, <2>2
<1> HIDE DEF g
<1>20. Tree(new, next, M1, g)
  <2>1. Tree(ch, next, M1, sub)
    BY <1>1, <1>7, Restricted
  <2>2. \A x \in M1 : g[x] = sub[x]
    BY <1>1, <1>4, <1>5, <1>7, <1>16, <1>19
  <2>3. \A x \in M1, i \in Sides : new[i][x] = ch[i][x]
    BY <1>5, <1>4, <1>7, <1>13, <1>15
  <2> QED
    BY <1>19, <2>1, <2>2, <2>3, Framed
<1>21. Tree(new, new[away][Header], H[side], g)
  <2>1. new[away][Header] = ch[away][Header]
    BY <1>4, <1>13 DEF Places
  <2>2. Tree(ch, ch[away][Header], H[side], sub)
    BY DEF Aside, ch
  <2>3. \A x \in H[side] : x \in Node \ H[away] /\ x # n /\ x # last /\ x \in Places
    <3>1. H[side] \subseteq Node /\ H[side] \cap M = {} /\ H[side] \cap H[away] = {}
      BY <1>5
    <3>2. \A x \in H[side] : x \in Node /\ x \notin H[away] /\ x \notin M /\ x # Header /\ x \in Places
      BY <3>1, HeaderIs DEF Places
    <3> QED
      BY <1>1, <1>12, <3>2
  <2>4. \A x \in H[side] : g[x] = sub[x] /\ \A i \in Sides : new[i][x] = ch[i][x]
    BY <1>13, <1>16, <1>19, <2>3
  <2> QED
    BY <1>19, <2>1, <2>2, <2>4, Framed
<1>22. \A x \in X : x = n \/ Cmp(n, x) = side
  <2> SUFFICES ASSUME NEW x \in X, x # n PROVE Cmp(n, x) = side
    OBVIOUS
  <2>1. x \in M /\ x \in Node /\ x \notin M1 /\ x \in sub[n]
    BY <1>1
  <2>2. x \in sub[ch[side][n]] <=> x \in sub[n] /\ Cmp(x, n) = side
    BY <1>1, <2>1 DEF Tree
  <2>3. Cmp(x, n) = away
    BY <1>1, <1>3, <1>4, <2>1, <2>2, CmpFacts DEF Tree
  <2> QED
    BY <1>1, <1>4, <2>1, <2>3, CmpFacts
<1>23. \A x \in X : dir[x] = side
  <2> SUFFICES ASSUME NEW x \in X, x # n PROVE dir[x] = side
    OBVIOUS
  <2>1. Cmp(x, n) = away
    BY <1>1, <1>4, <1>22, CmpFacts
  <2>2. x \in S /\ n \in S
    BY <1>1, <1>6
  <2> QED
    BY <2>1, <2>2 DEF Leads
<1>24. Tree(new, new[side][Header], H[away] \cup X, g)
  <2>1. CASE last = Header
    <3>1. new[side][Header] = n /\ H[away] = {}
      BY <1>4, <1>5, <1>12, <1>13, <2>1
    <3>2. \A x \in X : g[x] = sub1[x] /\ \A i \in Sides : new[i][x] = mid[i][x]
      <4>1. \A x \in X : x # last /\ x \in Places
        BY <1>15, <1>18, <2>1, HeaderIs, <1>1
      <4> QED
        BY <1>13, <1>14, <1>19, <2>1, <4>1
    <3>3. Tree(new, n, X, g)
      BY <1>17, <1>19, <3>2, Framed
    <3> QED
      BY <3>1, <3>3
  <2>2. CASE last # Header
    <3> DEFINE h == ch[side][Header]
    <3>1. new[side][Header] = h
      BY <1>1, <1>13, <2>2, HeaderIs DEF Places
    <3>2. Tree(ch, h, H[away], sub)
      <4>1. Tree(ch, ch[Other(away)][Header], H[away], sub)
        BY <1>4 DEF Aside, ch
      <4> QED
        BY <1>4, <4>1
    <3>3. \A x \in H[away] : x \in Node \ {n} /\ x \in Places /\ x \notin M
      BY <1>1, <1>4, <1>5, <1>15
    <3>4. Tree(mid, h, H[away], sub1)
      <4>1. \A x \in H[away] : sub1[x] = sub[x] /\ \A i \in Sides : mid[i][x] = ch[i][x]
        BY <1>14, <1>16, <3>3
      <4> QED
        BY <1>16, <3>2, <4>1, Framed
    <3>5. last \in H[away] /\ mid[side][last] = NULL /\ new[side][last] = n
      BY <1>12, <1>13, <1>14, <2>2
    <3>6. \A x \in H[away] : /\ x = last \/ Cmp(last, x) = side
                             /\ \A m \in M : Cmp(x, m) = away
      BY <1>4 DEF Aside
    <3>7. \A x \in H[away], m \in X : Cmp(m, x) = side /\ Cmp(x, m) # "here"
      <4> SUFFICES ASSUME NEW x \in H[away], NEW m \in X PROVE Cmp(m, x) = side /\ Cmp(x, m) # "here"
        OBVIOUS
      <4>1. Cmp(x, m) = away /\ x \in Node /\ m \in Node
        BY <1>1, <1>18, <3>3, <3>6
      <4> QED
        BY <1>4, <4>1, CmpFacts, SideFacts
    <3>8. \A x \in H[away] \cup X, i \in Sides : (x = last /\ i = side) \/ new[i][x] = mid[i][x]
      BY <1>13, <1>14, <1>15, <1>18, <3>3
    <3>9. H[away] \cap X = {}
      BY <1>18, <3>3
    <3>10. \A b \in X : Cmp(b, last) = side
      BY <3>5, <3>7
    <3>11. \A x \in H[away], b \in X : last \in sub1[x] /\ x # last => Cmp(b, x) = Cmp(last, x)
      BY <3>6, <3>7
    <3>12. Tree(new, h, H[away] \cup X, Grown(sub1, H[away], last, X))
      <4> HIDE DEF h, n, last, away, X
      <4>1. \A x \in H[away], b \in X : Cmp(x, b) # "here"
        BY <3>7
      <4> QED
        BY <1>17, <3>4, <3>5, <3>8, <3>9, <3>10, <3>11, <4>1, Joined
    <3> QED
      BY <1>19, <2>2, <3>1, <3>12
  <2> QED
    BY <2>1, <2>2
<1>25. G \in [Sides -> SUBSET Node] /\ G[away] = H[away] \cup X /\ G[side] = H[side]
  BY <1>1, <1>4, <1>6, <1>18
<1>26. S = M1 \cup G["left"] \cup G["right"]
  <2>1. {side, away} = {"left", "right"}
    BY <1>4 DEF Sides, Other
  <2>2. S = M \cup H[side] \cup H[away]
    BY <1>6, <2>1
  <2>3. M = M1 \cup X
    BY <1>7
  <2>4. S = M1 \cup G[side] \cup G[away]
    BY <1>25, <2>2, <2>3
  <2> QED
    BY <2>1, <2>4
<1> HIDE DEF G
<1>27. \A i \in Sides, x \in Node \ S : v.child[i][x] = t.child[i][x]
  <2>1. \A i \in Sides, x \in Node \ S : u.child[i][x] = t.child[i][x]
    BY DEF Aside
  <2>2. last \notin Node \ S
    <3>1. H[away] \subseteq S
      BY <1>4, <1>6 DEF Sides
    <3> QED
      BY <1>12, <3>1, HeaderIs
  <2> QED
    BY <1>8, <2>1, <2>2 DEF Places
<1>28. ASSUME NEW e \in Sides
       PROVE  /\ Tree(new, new[Other(e)][Header], G[e], g)
              /\ end1[e] # Header => end1[e] \in G[e]
              /\ \A x \in G[e] : /\ x = end1[e] \/ Cmp(end1[e], x) = Other(e)
                                 /\ dir[x] = Other(e)
                                 /\ \A m \in M1 : Cmp(x, m) = e
  <2>1. CASE e = side
    <3>1. \A x \in H[side] : /\ x = end[side] \/ Cmp(end[side], x) = Other(side)
                             /\ dir[x] = Other(side)
                             /\ \A m \in M : Cmp(x, m) = side
      BY DEF Aside
    <3>2. end[side] # Header => end[side] \in H[side]
      BY DEF Aside
    <3> QED
      BY <1>7, <1>9, <1>21, <1>25, <2>1, <3>1, <3>2
  <2>2. CASE e = away
    <3>1. Tree(new, new[Other(e)][Header], G[e], g) /\ end1[e] \in G[e]
      BY <1>4, <1>9, <1>18, <1>24, <1>25, <2>2
    <3>2. ASSUME NEW x \in H[away], NEW m \in M
          PROVE  Cmp(x, m) = away /\ dir[x] = side
      BY <1>4 DEF Aside
    <3>3. \A x \in H[away] : Cmp(n, x) = side /\ dir[x] = side
      <4> SUFFICES ASSUME NEW x \in H[away] PROVE Cmp(n, x) = side /\ dir[x] = side
        OBVIOUS
      <4>1. Cmp(x, n) = away /\ dir[x] = side /\ x \in Node
        BY <1>1, <1>4, <1>5, <3>2
      <4> QED
        BY <1>1, <1>4, <4>1, CmpFacts
    <3>4. \A x \in X, m \in M1 : Cmp(x, m) = away
      <4> SUFFICES ASSUME NEW x \in X, NEW m \in M1 PROVE Cmp(x, m) = away
        OBVIOUS
      <4>1. x \in Node /\ m \in Node /\ m \in M
        BY <1>1, <1>7, <1>18
      <4>2. Cmp(m, n) = side
        BY <1>1, <1>3, <4>1 DEF Tree
      <4>3. Cmp(n, m) = away
        BY <1>1, <1>4, <4>1, <4>2, CmpFacts
      <4>4. CASE x = n
        BY <4>3, <4>4
      <4>5. CASE x # n
        <5>1. Cmp(x, n) = away
          BY <1>1, <1>4, <1>22, <4>1, <4>5, CmpFacts
        <5> QED
          BY <1>1, <1>4, <4>1, <4>3, <5>1, CmpTransitive
      <4> QED
        BY <4>4, <4>5
    <3> QED
      BY <1>4, <1>7, <1>9, <1>22, <1>23, <1>25, <2>2, <3>1, <3>2, <3>3, <3>4
  <2> QED
    BY <1>4, <2>1, <2>2
<1>29. Aside(v, end1, t, S, dir, M1, G, g)
  <2>1. v.root # NULL /\ Tree(new, v.root, M1, g)
    BY <1>7, <1>8, <1>20, NotNull
  <2> QED
    BY <1>8, <1>9, <1>25, <1>26, <1>27, <1>28, <2>1 DEF Aside, new
<1> QED
  BY <1>7, <1>29 DEF v, w, end1

\* The child fields after the two subtrees of the root are hung on what was set aside.
Hung(u, end) ==
  [i \in Sides |-> [x \in Places |-> IF x = end[Other(i)] THEN u.child[Other(i)][u.root] ELSE u.child[i][x]]]

\* What SPLAY_ASSEMBLE changes.
LEMMA SpAssemble ==
  ASSUME NEW u \in SpMemory, NEW end \in [Sides -> Places], u.root \in Node,
         \A e \in Sides : end[e] # u.root
  PROVE  /\ SPLAY_ASSEMBLE(u, end) \in SpMemory /\ SPLAY_ASSEMBLE(u, end).root = u.root
         /\ \A i \in Sides :
              /\ SPLAY_ASSEMBLE(u, end).child[i][u.root] = Hung(u, end)[Other(i)][Header]
              /\ SPLAY_ASSEMBLE(u, end).child[i][Header] = NULL
              /\ \A x \in Node \ {u.root} : SPLAY_ASSEMBLE(u, end).child[i][x] = Hung(u, end)[i][x]
<1> DEFINE n == u.root
           le == end["left"]
           re == end["right"]
           lc == u.child["left"][n]
           rc == u.child["right"][n]
           a == SetChild(u, "right", le, lc)
           b == SetChild(a, "left", re, rc)
           lh == b.child["right"][Header]
           rh == b.child["left"][Header]
           c == SetChild(b, "left", n, lh)
           d == SetChild(c, "right", n, rh)
           f == SetChild(d, "left", Header, NULL)
           w == SetChild(f, "right", Header, NULL)
           hung == Hung(u, end)
<1>1. SPLAY_ASSEMBLE(u, end) = w
  BY DEF SPLAY_ASSEMBLE
<1>2. "left" \in Sides /\ "right" \in Sides /\ Other("left") = "right" /\ Other("right") = "left"
      /\ \A i \in Sides : i = "left" \/ i = "right"
  BY DEF Sides, Other
<1>3. le \in Places /\ re \in Places /\ n \in Places /\ Header \in Places /\ Header # n /\ NULL \in NodeOrNull
      /\ le # n /\ re # n
  BY <1>2, HeaderIs DEF Places, NodeOrNull
<1>4. lc \in NodeOrNull /\ rc \in NodeOrNull
  BY <1>2, <1>3, SpReads
<1>5. \A x \in Places : /\ hung["right"][x] = IF x = le THEN lc ELSE u.child["right"][x]
                        /\ hung["left"][x] = IF x = re THEN rc ELSE u.child["left"][x]
  BY <1>2 DEF Hung
<1>6. \A y \in SpMemory, s \in Sides, p \in Places, m \in NodeOrNull :
        /\ SetChild(y, s, p, m) \in SpMemory /\ SetChild(y, s, p, m).root = y.root
        /\ \A i \in Sides, x \in Places :
              SetChild(y, s, p, m).child[i][x] = IF i = s /\ x = p THEN m ELSE y.child[i][x]
  BY SpSet
<1> HIDE DEF n, le, re, lc, rc, hung
<1>7. /\ a \in SpMemory /\ a.root = u.root
      /\ \A x \in Places : /\ a.child["right"][x] = IF x = le THEN lc ELSE u.child["right"][x]
                           /\ a.child["left"][x] = u.child["left"][x]
  BY <1>2, <1>3, <1>4, <1>6
<1> HIDE DEF a
<1>8. /\ b \in SpMemory /\ b.root = a.root
      /\ \A x \in Places : /\ b.child["left"][x] = IF x = re THEN rc ELSE a.child["left"][x]
                           /\ b.child["right"][x] = a.child["right"][x]
  BY <1>2, <1>3, <1>4, <1>6, <1>7
<1> HIDE DEF b
<1>9. \A x \in Places : b.child["left"][x] = hung["left"][x] /\ b.child["right"][x] = hung["right"][x]
  BY <1>5, <1>7, <1>8
<1>10. lh \in NodeOrNull /\ rh \in NodeOrNull /\ lh = hung["right"][Header] /\ rh = hung["left"][Header]
  BY <1>2, <1>3, <1>8, <1>9, SpReads
<1> HIDE DEF lh, rh
<1>11. /\ c \in SpMemory /\ c.root = b.root
       /\ \A x \in Places : /\ c.child["left"][x] = IF x = n THEN lh ELSE b.child["left"][x]
                            /\ c.child["right"][x] = b.child["right"][x]
  <2> HIDE DEF c
  <2>1. b \in SpMemory /\ "left" \in Sides /\ n \in Places /\ lh \in NodeOrNull
    BY <1>2, <1>3, <1>10, <1>8
  <2>2. /\ SetChild(b, "left", n, lh) \in SpMemory /\ SetChild(b, "left", n, lh).root = b.root
        /\ \A i \in Sides, x \in Places :
             SetChild(b, "left", n, lh).child[i][x] = IF i = "left" /\ x = n THEN lh ELSE b.child[i][x]
    BY <1>6, <2>1
  <2>3. c = SetChild(b, "left", n, lh)
    BY DEF c
  <2> QED
    BY <1>2, <2>2, <2>3
<1> HIDE DEF c
<1>12. /\ d \in SpMemory /\ d.root = c.root
       /\ \A x \in Places : /\ d.child["right"][x] = IF x = n THEN rh ELSE c.child["right"][x]
                            /\ d.child["left"][x] = c.child["left"][x]
  <2> HIDE DEF d
  <2>1. c \in SpMemory /\ "right" \in Sides /\ n \in Places /\ rh \in NodeOrNull
    BY <1>2, <1>3, <1>10, <1>11
  <2>2. /\ SetChild(c, "right", n, rh) \in SpMemory /\ SetChild(c, "right", n, rh).root = c.root
        /\ \A i \in Sides, x \in Places :
             SetChild(c, "right", n, rh).child[i][x] = IF i = "right" /\ x = n THEN rh ELSE c.child[i][x]
    BY <1>6, <2>1
  <2>3. d = SetChild(c, "right", n, rh)
    BY DEF d
  <2> QED
    BY <1>2, <2>2, <2>3
<1> HIDE DEF d
<1>13. /\ f \in SpMemory /\ f.root = d.root
       /\ \A x \in Places : /\ f.child["left"][x] = IF x = Header THEN NULL ELSE d.child["left"][x]
                            /\ f.child["right"][x] = d.child["right"][x]
  BY <1>2, <1>3, <1>6, <1>12
<1> HIDE DEF f
<1>14. /\ w \in SpMemory /\ w.root = f.root
       /\ \A x \in Places : /\ w.child["right"][x] = IF x = Header THEN NULL ELSE f.child["right"][x]
                            /\ w.child["left"][x] = f.child["left"][x]
  BY <1>2, <1>3, <1>6, <1>13
<1> HIDE DEF w
<1>15. w.root = u.root
  BY <1>7, <1>8, <1>11, <1>12, <1>13, <1>14
<1>16. \A x \in Node \ {n} : x \in Places /\ x # Header
  BY HeaderIs DEF Places
<1>17. /\ w.child["left"][n] = hung["right"][Header] /\ w.child["left"][Header] = NULL
       /\ \A x \in Node \ {n} : w.child["left"][x] = hung["left"][x]
  BY <1>3, <1>9, <1>10, <1>11, <1>12, <1>13, <1>14, <1>16
<1>18. /\ w.child["right"][n] = hung["left"][Header] /\ w.child["right"][Header] = NULL
       /\ \A x \in Node \ {n} : w.child["right"][x] = hung["right"][x]
  BY <1>3, <1>9, <1>10, <1>11, <1>12, <1>13, <1>14, <1>16
<1> QED
  BY <1>1, <1>2, <1>14, <1>15, <1>17, <1>18 DEF n, hung

\* SPLAY_ASSEMBLE makes one tree of what was set aside and of what was not.
LEMMA AssembleStep ==
  ASSUME NEW u, NEW end, NEW t, NEW S, NEW dir, NEW M, NEW H, NEW sub,
         Aside(u, end, t, S, dir, M, H, sub)
  PROVE  /\ SPLAY_ASSEMBLE(u, end) \in SpMemory /\ SPLAY_ASSEMBLE(u, end).root = u.root
         /\ \A i \in Sides : SPLAY_ASSEMBLE(u, end).child[i][Header] = NULL
         /\ \A i \in Sides, x \in Node \ S : SPLAY_ASSEMBLE(u, end).child[i][x] = t.child[i][x]
         /\ \E g : Tree(SPLAY_ASSEMBLE(u, end).child, u.root, S, g)
<1> DEFINE n == u.root
           w == SPLAY_ASSEMBLE(u, end)
           ch == Live(u, end)
           hung == Hung(u, end)
           A(e) == sub[u.child[e][n]]
           b == [e \in Sides |-> hung[Other(e)][Header]]
           B == [e \in Sides |-> H[e] \cup A(e)]
           g == [e \in Sides |-> IF end[e] = Header THEN sub ELSE Grown(sub, H[e], end[e], A(e))]
<1>1. n \in M /\ n \in Node /\ M \subseteq Node /\ u \in SpMemory /\ Tree(ch, n, M, sub) /\ sub[n] = M
  <2>1. n \in M /\ M \subseteq Node /\ sub[n] = M
    BY AsideFacts
  <2>2. u \in SpMemory /\ Tree(ch, n, M, sub)
    BY DEF Aside
  <2> QED
    BY <2>1, <2>2
<1>2. \A i \in Sides, x \in M : ch[i][x] = u.child[i][x]
  BY AsideFacts
<1>3. \A e \in Sides : H[e] \subseteq Node /\ H[e] \cap M = {} /\ end[e] \notin M /\ end[e] \in H[e] \cup {Header}
                       /\ H[e] \cap H[Other(e)] = {} /\ (end[e] = Header => H[e] = {})
  BY AsideFacts
<1>4. end \in [Sides -> Places] /\ S = M \cup H["left"] \cup H["right"]
  BY DEF Aside
<1>5. \A i \in Sides, x \in Places : ch[i][x] = IF x = end[Other(i)] THEN NULL ELSE u.child[i][x]
  BY LiveIs
<1>6. \A i \in Sides, x \in Places : hung[i][x] = IF x = end[Other(i)] THEN u.child[Other(i)][n] ELSE u.child[i][x]
  BY DEF Hung
<1>7. /\ w \in SpMemory /\ w.root = n
      /\ \A i \in Sides : /\ w.child[i][n] = hung[Other(i)][Header] /\ w.child[i][Header] = NULL
                          /\ \A x \in Node \ {n} : w.child[i][x] = hung[i][x]
  <2>1. \A e \in Sides : end[e] # u.root
    BY <1>1, <1>3
  <2> QED
    BY <1>1, <1>4, <2>1, SpAssemble
<1> HIDE DEF w, hung, ch
<1>8. \A e \in Sides : Other(e) \in Sides /\ Other(Other(e)) = e /\ Other(e) # e
  BY SideFacts
<1>9. ASSUME NEW e \in Sides
      PROVE  /\ Tree(ch, u.child[e][n], A(e), sub) /\ A(e) \subseteq M \ {n}
             /\ \A x \in A(e) : Cmp(x, n) = e
  <2>1. ch[e][n] = u.child[e][n]
    BY <1>1, <1>2
  <2>2. ch[e][n] \in M \cup {NULL} /\ sub[NULL] = {} /\ n \notin sub[ch[e][n]]
    <3>1. ch[e][n] \in M \cup {NULL} /\ sub[NULL] = {}
      BY <1>1 DEF Tree
    <3> HIDE DEF n
    <3>2. ch[e][n] # NULL => n \notin sub[ch[e][n]]
      BY <1>1, Child
    <3> QED
      BY <3>1, <3>2
  <2>3. Tree(ch, u.child[e][n], A(e), sub)
    BY <1>1, <2>1, <2>2, Restricted
  <2>4. A(e) \subseteq M
    BY <1>1, <2>1, <2>2 DEF Tree
  <2>5. \A x \in A(e) : Cmp(x, n) = e
    BY <1>1, <2>1, <2>4 DEF Tree
  <2> QED
    BY <2>1, <2>2, <2>3, <2>4, <2>5
<1>10. \A e \in Sides : A(e) = {x \in M : Cmp(x, n) = e}
  <2> SUFFICES ASSUME NEW e \in Sides PROVE A(e) = {x \in M : Cmp(x, n) = e}
    OBVIOUS
  <2>1. ch[e][n] = u.child[e][n]
    BY <1>1, <1>2
  <2>2. \A x \in M : x \in A(e) <=> Cmp(x, n) = e
    BY <1>1, <2>1 DEF Tree
  <2> QED
    BY <1>9, <2>2
<1> HIDE DEF A
<1>11. ASSUME NEW e \in Sides
       PROVE  Tree(hung, b[e], B[e], g[e])
  <2> DEFINE last == end[e]
             far == Other(e)
             q == u.child[e][n]
             h == ch[far][Header]
  <2>0. far \in Sides /\ Other(far) = e /\ far # e
    BY <1>8
  <2>1. Tree(ch, h, H[e], sub)
    BY DEF Aside, ch
  <2>2. Tree(ch, q, A(e), sub) /\ A(e) \subseteq M
    BY <1>9
  <2>3. \A x \in H[e] \cup A(e) : x \in Node /\ x \in Places /\ x # end[far] /\ x # Header
    <3>1. H[e] \subseteq Node /\ H[e] \cap M = {} /\ H[e] \cap H[far] = {} /\ end[far] \notin M /\ end[far] \in H[far] \cup {Header}
      BY <1>3, <2>0
    <3> QED
      BY <1>1, <2>2, <3>1, HeaderIs DEF Places
  <2>4. ASSUME NEW x \in H[e] \cup A(e), NEW i \in Sides, ~(x = last /\ i = far)
        PROVE  hung[i][x] = ch[i][x]
    <3>1. x # end[Other(i)]
      BY <1>8, <2>0, <2>3, <2>4, SideFacts
    <3> QED
      BY <1>5, <1>6, <2>3, <3>1
  <2>5. CASE last = Header
    <3>1. b[e] = q /\ B[e] = A(e) /\ g[e] = sub
      BY <1>3, <1>6, <2>0, <2>5 DEF Places
    <3>2. \A x \in A(e), i \in Sides : hung[i][x] = ch[i][x]
      BY <2>3, <2>4, <2>5
    <3>3. sub[NULL] = {}
      BY <1>1 DEF Tree
    <3> QED
      BY <2>2, <3>1, <3>2, <3>3, Framed
  <2>6. CASE last # Header
    <3>1. b[e] = h /\ B[e] = H[e] \cup A(e) /\ g[e] = Grown(sub, H[e], last, A(e))
      BY <1>5, <1>6, <2>0, <2>6 DEF Places
    <3>2. last \in H[e] /\ ch[far][last] = NULL /\ hung[far][last] = q
      <4>1. last \in H[e] /\ last \in Places
        BY <1>3, <2>3, <2>6
      <4> QED
        BY <1>5, <1>6, <2>0, <4>1
    <3>3. \A x \in H[e] : (x = last \/ Cmp(last, x) = far) /\ \A m \in M : Cmp(x, m) = e
      BY DEF Aside
    <3>4. \A x \in H[e], m \in A(e) : Cmp(m, x) = far /\ Cmp(x, m) # "here"
      <4> SUFFICES ASSUME NEW x \in H[e], NEW m \in A(e) PROVE Cmp(m, x) = far /\ Cmp(x, m) # "here"
        OBVIOUS
      <4>1. Cmp(x, m) = e /\ x \in Node /\ m \in Node
        BY <2>2, <2>3, <3>3
      <4> QED
        BY <2>0, <4>1, CmpFacts, SideFacts
    <3>5. \A x \in H[e] \cup A(e), i \in Sides : (x = last /\ i = far) \/ hung[i][x] = ch[i][x]
      BY <2>4
    <3>6. H[e] \cap A(e) = {}
      BY <1>3, <2>2
    <3>7. \A x \in A(e) : Cmp(x, last) = far
      BY <3>2, <3>4
    <3>8. \A x \in H[e], m \in A(e) : last \in sub[x] /\ x # last => Cmp(m, x) = Cmp(last, x)
      BY <3>3, <3>4
    <3>9. \A x \in H[e], m \in A(e) : Cmp(x, m) # "here"
      BY <3>4
    <3> HIDE DEF last, far, q, h
    <3>10. Tree(hung, h, H[e] \cup A(e), Grown(sub, H[e], last, A(e)))
      BY <2>0, <2>1, <2>2, <3>2, <3>5, <3>6, <3>7, <3>8, <3>9, Joined
    <3> QED
      BY <3>1, <3>10
  <2> QED
    BY <2>5, <2>6
<1>12. \A e \in Sides : \A x \in B[e] : Cmp(x, n) = e
  <2> SUFFICES ASSUME NEW e \in Sides, NEW x \in B[e] PROVE Cmp(x, n) = e
    OBVIOUS
  <2>1. CASE x \in H[e]
    BY <1>1, <2>1 DEF Aside
  <2>2. CASE x \in A(e)
    BY <1>9, <2>2
  <2> QED
    BY <2>1, <2>2
<1>13. \A e, i \in Sides : \A x \in B[e] : w.child[i][x] = hung[i][x]
  <2> SUFFICES ASSUME NEW e \in Sides, NEW i \in Sides, NEW x \in B[e] PROVE w.child[i][x] = hung[i][x]
    OBVIOUS
  <2>1. x \in Node /\ x # n
    BY <1>1, <1>3, <1>9
  <2> QED
    BY <1>7, <2>1
<1>14. \A e \in Sides : w.child[e][n] = b[e]
  BY <1>7
<1>15. S = {n} \cup B["left"] \cup B["right"]
  <2>1. M = {n} \cup A("left") \cup A("right")
    <3>1. \A x \in M : x = n \/ Cmp(x, n) = "left" \/ Cmp(x, n) = "right"
      BY <1>1, CmpFacts DEF Tree, Sides
    <3> QED
      BY <1>1, <1>10, <3>1 DEF Sides
  <2> QED
    BY <1>4, <2>1 DEF Sides
<1> HIDE DEF b, B, g, n
<1>16. \E f : Tree(w.child, n, {n} \cup B["left"] \cup B["right"], f)
  <2> DEFINE new == w.child
  <2>1. \A e \in Sides : Tree(hung, b[e], B[e], g[e])
    BY <1>11
  <2>2. \A e, i \in Sides : \A x \in B[e] : new[i][x] = hung[i][x]
    BY <1>13
  <2>3. \A e \in Sides : new[e][n] = b[e]
    BY <1>14
  <2> HIDE DEF new
  <2>4. \E f : Tree(new, n, {n} \cup B["left"] \cup B["right"], f)
    <3>1. Pieces(hung, b, B, g, n, new)
      BY <1>1, <1>12, <2>1, <2>2, <2>3 DEF Pieces
    <3> QED
      BY <3>1, Rooted
  <2> QED
    BY <2>4 DEF new
<1>17. \A i \in Sides, x \in Node \ S : w.child[i][x] = t.child[i][x]
  <2> SUFFICES ASSUME NEW i \in Sides, NEW x \in Node \ S PROVE w.child[i][x] = t.child[i][x]
    OBVIOUS
  <2>1. u.child[i][x] = t.child[i][x]
    BY DEF Aside
  <2>2. x # n /\ x \notin H[Other(i)] /\ x # Header /\ x \in Places
    <3>1. x \notin H["left"] /\ x \notin H["right"] /\ x \notin M
      BY <1>4
    <3> QED
      BY <1>1, <3>1, HeaderIs DEF Places, Other
  <2>3. x # end[Other(i)]
    BY <1>3, <1>8, <2>2
  <2> QED
    BY <1>6, <1>7, <2>1, <2>2, <2>3
<1> QED
  BY <1>7, <1>15, <1>16, <1>17 DEF w, n

\* The states of the loop of SPLAY.
SpStates == [tree : SpMemory, end : [Sides -> Places]]

\* The loop of SPLAY breaks.
Stopped(u, dir) == dir[u.root] = "here" \/ u.child[dir[u.root]][u.root] = NULL

\* There are at most k elements left to search.
Searching(s, t, S, dir, k) ==
  \E M, H, sub : Aside(s.tree, s.end, t, S, dir, M, H, sub) /\ Cardinality(M) <= k

\* A turn of the loop of SPLAY leaves fewer elements to search, or it is the last.
LEMMA TurnStep ==
  ASSUME NEW s \in SpStates, NEW t, NEW S, NEW dir, Leads(dir, S), NEW M, NEW H, NEW sub,
         Aside(s.tree, s.end, t, S, dir, M, H, sub)
  PROVE  /\ SplayTurn(s, dir) \in SpStates
         /\ \/ Stopped(s.tree, dir) /\ SplayTurn(s, dir) = s
            \/ /\ Stopped(SplayTurn(s, dir).tree, dir)
               /\ Searching(SplayTurn(s, dir), t, S, dir, Cardinality(M))
            \/ \E k \in Nat : k < Cardinality(M) /\ Searching(SplayTurn(s, dir), t, S, dir, k)
<1> DEFINE u == s.tree
           end == s.end
           n == u.root
           side == dir[n]
           away == Other(side)
           c == u.child[side][n]
           v == IF dir[c] = side THEN SPLAY_ROTATE(u, side) ELSE u
           next == v.child[side][v.root]
           r == SplayTurn(s, dir)
<1>1. n \in M /\ n \in Node /\ M \subseteq Node /\ u \in SpMemory /\ sub[n] = M /\ Cardinality(M) \in Nat
  <2>1. n \in M /\ M \subseteq Node /\ sub[n] = M
    BY AsideFacts
  <2>2. Cardinality(M) \in Nat
    BY <2>1, Finite
  <2> QED
    BY <2>1, <2>2 DEF SpStates
<1>2. side \in Sides \cup {"here"}
  BY <1>1, Zenon DEF Leads
<1>3. CASE side = "here" \/ c = NULL
  BY <1>3, Zenon DEF Stopped, SplayTurn
<1>4. CASE side \in Sides /\ c # NULL
  <2>1. r = IF next = NULL THEN [s EXCEPT !.tree = v]
            ELSE [tree |-> SetRoot(SetChild(v, side, end[away], v.root), next),
                  end |-> [end EXCEPT ![away] = v.root]]
    <3>1. ~(side = "here" \/ c = NULL)
      <4> HIDE DEF side, c
      <4> QED
        BY <1>4, SideFacts
    <3> QED
      BY <3>1, Zenon DEF SplayTurn
  <2>2. \E f : Aside(v, end, t, S, dir, M, H, f) /\ dir[v.root] = side
    <3>1. CASE dir[c] = side
      <4> HIDE DEF u, end, c, side
      <4>1. Aside(SPLAY_ROTATE(u, side), end, t, S, dir, M, H, Turned(sub, u.root, c, side))
            /\ SPLAY_ROTATE(u, side).root = c
        <5>1. Aside(u, end, t, S, dir, M, H, sub)
          BY DEF u, end
        <5>2. c = u.child[side][u.root]
          BY Zenon DEF c
        <5> QED
          BY <1>4, <5>1, <5>2, RotateStep
      <4> QED
        BY <3>1, <4>1
    <3>2. CASE dir[c] # side
      BY <3>2, Zenon
    <3> HIDE DEF u, end, c, side, v
    <3> QED
      BY <3>1, <3>2
  <2> HIDE DEF v, side, end
  <2>3. PICK f : Aside(v, end, t, S, dir, M, H, f) /\ dir[v.root] = side
    BY <2>2
  <2>4. v \in SpMemory /\ end \in [Sides -> Places]
    BY <2>3 DEF Aside
  <2>5. CASE next = NULL
    <3>1. r \in SpStates /\ r.tree = v /\ r.end = end
      BY <2>1, <2>4, <2>5 DEF SpStates, end
    <3>2. Stopped(v, dir)
      BY <2>3, <2>5 DEF Stopped
    <3> HIDE DEF r, end
    <3>3. Searching(r, t, S, dir, Cardinality(M))
      BY <1>1, <2>3, <3>1 DEF Searching
    <3> QED
      BY <3>1, <3>2, <3>3 DEF r
  <2>6. CASE next # NULL
    <3> DEFINE w == SetRoot(SetChild(v, side, end[away], v.root), next)
               end1 == [end EXCEPT ![away] = v.root]
    <3>1. r.tree = w /\ r.end = end1 /\ r = [tree |-> w, end |-> end1]
      BY <2>1, <2>6
    <3>2. PICK G, g : Aside(w, end1, t, S, dir, f[next], G, g) /\ Cardinality(f[next]) < Cardinality(M)
      <4> HIDE DEF end, side
      <4>1. next = v.child[side][v.root]
        OBVIOUS
      <4> HIDE DEF next
      <4> QED
        BY <1>4, <2>3, <2>6, <4>1, LinkStep
    <3> HIDE DEF w, end1, r, next
    <3>3. w \in SpMemory /\ end1 \in [Sides -> Places]
      BY <3>2 DEF Aside
    <3>4. r \in SpStates
      BY <3>1, <3>3 DEF SpStates
    <3>5. Cardinality(f[next]) \in Nat
      <4>1. f[next] \subseteq Node
        BY <3>2, AsideFacts
      <4> QED
        BY <4>1, Finite
    <3>6. Searching(r, t, S, dir, Cardinality(f[next]))
      BY <3>1, <3>2, <3>5 DEF Searching
    <3> QED
      BY <3>2, <3>4, <3>5, <3>6 DEF r
  <2> QED
    BY <2>5, <2>6
<1> QED
  BY <1>2, <1>3, <1>4

\* After a splay the tree holds what it held, and dir points away from all on the
\* side to which it points from the root, unless it found what it leads to.
SplayedTo(w, t, S, dir) ==
  /\ w \in SpMemory /\ w.root \in S
  /\ \E g : Tree(w.child, w.root, S, g)
  /\ \A i \in Sides : w.child[i][Header] = NULL
  /\ \A i \in Sides, x \in Node \ S : w.child[i][x] = t.child[i][x]
  /\ \/ dir[w.root] = "here"
     \/ /\ dir[w.root] \in Sides
        /\ \A x \in S : Cmp(x, w.root) = dir[w.root] => dir[x] = Other(dir[w.root])

\* When the loop has ended the root is the place that dir leads to.
LEMMA StoppedIs ==
  ASSUME NEW s \in SpStates, NEW t, NEW S, NEW dir, Leads(dir, S), NEW M, NEW H, NEW sub,
         Aside(s.tree, s.end, t, S, dir, M, H, sub), Stopped(s.tree, dir)
  PROVE  SplayedTo(SPLAY_ASSEMBLE(s.tree, s.end), t, S, dir)
<1> DEFINE u == s.tree
           end == s.end
           n == u.root
           w == SPLAY_ASSEMBLE(u, end)
<1>1. n \in M /\ n \in Node /\ M \subseteq Node /\ sub[n] = M /\ \A i \in Sides, x \in M : Live(u, end)[i][x] = u.child[i][x]
  BY AsideFacts
<1>2. S = M \cup H["left"] \cup H["right"] /\ Tree(Live(u, end), n, M, sub)
  BY DEF Aside
<1>3. /\ w \in SpMemory /\ w.root = n
      /\ \A i \in Sides : w.child[i][Header] = NULL
      /\ \A i \in Sides, x \in Node \ S : w.child[i][x] = t.child[i][x]
      /\ \E g : Tree(w.child, n, S, g)
  <2> HIDE DEF u, end
  <2>1. Aside(u, end, t, S, dir, M, H, sub)
    BY DEF u, end
  <2> QED
    BY <2>1, AssembleStep
<1>4. dir[n] \in Sides \cup {"here"}
  BY <1>1 DEF Leads
<1>5. ASSUME dir[n] \in Sides, NEW x \in S, Cmp(x, n) = dir[n]
      PROVE  dir[x] = Other(dir[n])
  <2>1. u.child[dir[n]][n] = NULL
    BY <1>5, SideFacts DEF Stopped
  <2>2. x \notin M
    <3>1. \A m \in M : m \in sub[u.child[dir[n]][n]] <=> m \in sub[n] /\ Cmp(m, n) = dir[n]
      BY <1>1, <1>2, <1>5 DEF Tree
    <3> QED
      BY <1>1, <1>2, <1>5, <2>1, <3>1 DEF Tree
  <2>3. \A e \in Sides : \A y \in H[e] : Cmp(y, n) = e /\ dir[y] = Other(e)
    BY <1>1 DEF Aside
  <2>4. x \in H["left"] \/ x \in H["right"]
    BY <1>2, <2>2
  <2> QED
    BY <1>5, <2>3, <2>4 DEF Sides
<1> HIDE DEF w
<1>6. SplayedTo(w, t, S, dir)
  BY <1>1, <1>2, <1>3, <1>4, <1>5 DEF SplayedTo
<1> QED
  BY <1>6 DEF w

\* A splay keeps the elements, and brings the place that dir leads to to the root.
LEMMA SplayedIs ==
  ASSUME NEW t \in SpMemory, NEW S, NEW sub, Tree(t.child, t.root, S, sub), t.root # NULL,
         NEW dir, Leads(dir, S)
  PROVE  SplayedTo(Splayed(t, dir), t, S, dir)
<1> DEFINE turn == [s \in [tree : SpMemory, end : [Sides -> Node \cup {Header}]] |-> SplayTurn(s, dir)]
           first == [tree |-> t, end |-> [side \in Sides |-> Header]]
           last == Loop(turn, first)
           R == {s \in SpStates : Stopped(s.tree, dir) /\ \E M, H, f : Aside(s.tree, s.end, t, S, dir, M, H, f)}
           G == [k \in Nat |-> {s \in SpStates : Searching(s, t, S, dir, k)}]
<1>1. Splayed(t, dir) = SPLAY_ASSEMBLE(last.tree, last.end)
  BY DEF Splayed
<1>2. \A s \in SpStates : turn[s] = SplayTurn(s, dir)
  BY DEF SpStates, Places
<1> HIDE DEF turn
<1>3. \A s \in R : turn[s] \in R
  <2> SUFFICES ASSUME NEW s \in R PROVE turn[s] \in R
    OBVIOUS
  <2>1. s \in SpStates /\ Stopped(s.tree, dir)
    OBVIOUS
  <2>2. SplayTurn(s, dir) = s
    BY <2>1, Zenon DEF Stopped, SplayTurn
  <2> QED
    BY <1>2, <2>1, <2>2
<1>4. ASSUME NEW k \in Nat, NEW s \in G[k]
      PROVE  turn[s] \in R \/ s \in R \/ \E j \in Nat : j < k /\ turn[s] \in G[j]
  <2>1. s \in SpStates /\ Searching(s, t, S, dir, k)
    OBVIOUS
  <2>2. PICK M, H, f : Aside(s.tree, s.end, t, S, dir, M, H, f) /\ Cardinality(M) <= k
    BY <2>1 DEF Searching
  <2>3. /\ SplayTurn(s, dir) \in SpStates
        /\ \/ Stopped(s.tree, dir) /\ SplayTurn(s, dir) = s
           \/ /\ Stopped(SplayTurn(s, dir).tree, dir)
              /\ Searching(SplayTurn(s, dir), t, S, dir, Cardinality(M))
           \/ \E j \in Nat : j < Cardinality(M) /\ Searching(SplayTurn(s, dir), t, S, dir, j)
    BY <2>1, <2>2, TurnStep
  <2>4. CASE Stopped(s.tree, dir)
    BY <2>1, <2>2, <2>4
  <2> DEFINE r == SplayTurn(s, dir)
  <2> HIDE DEF r
  <2>5. CASE Stopped(r.tree, dir) /\ Searching(r, t, S, dir, Cardinality(M))
    <3>1. \E M1, H1, f1 : Aside(r.tree, r.end, t, S, dir, M1, H1, f1)
      BY <2>5 DEF Searching
    <3> QED
      BY <1>2, <2>1, <2>3, <2>5, <3>1 DEF r
  <2>6. ASSUME NEW j \in Nat, j < Cardinality(M), Searching(r, t, S, dir, j)
        PROVE  \E i \in Nat : i < k /\ turn[s] \in G[i]
    <3>1. Cardinality(M) \in Nat
      <4>1. M \subseteq Node
        BY <2>2, AsideFacts
      <4> QED
        BY <4>1, Finite
    <3>2. j < k
      BY <2>2, <2>6, <3>1
    <3>3. r \in G[j]
      BY <2>3, <2>6 DEF r
    <3> QED
      BY <1>2, <2>1, <3>2, <3>3 DEF r
  <2> QED
    BY <2>3, <2>4, <2>5, <2>6 DEF r
<1>5. first \in G[Cardinality(S)] /\ Cardinality(S) \in Nat /\ Cardinality(S) <= Cardinality(Node)
  <2>1. S \subseteq Node
    BY DEF Tree
  <2>2. Cardinality(S) \in Nat /\ Cardinality(S) <= Cardinality(Node)
    BY <2>1, Finite
  <2> DEFINE end == [side \in Sides |-> Header]
             H == [side \in Sides |-> {}]
             ch == Live(t, end)
  <2>3. end \in [Sides -> Places] /\ \A e \in Sides : end[e] = Header /\ H[e] = {} /\ Other(e) \in Sides
    BY SideFacts DEF Places
  <2>4. first \in SpStates
    BY <2>3 DEF SpStates
  <2>5. \A i \in Sides, x \in S : ch[i][x] = t.child[i][x]
    <3>1. \A x \in S : x \in Places /\ x # Header
      BY <2>1, HeaderIs DEF Places
    <3> QED
      BY <2>3, <3>1, LiveIs
  <2>6. \A e \in Sides : ch[Other(e)][Header] = NULL
    <3>1. Header \in Places
      BY DEF Places
    <3> QED
      BY <2>3, <3>1, LiveIs
  <2> HIDE DEF ch
  <2>7. sub[NULL] = {}
    BY DEF Tree
  <2>8. Tree(ch, t.root, S, sub)
    BY <2>5, <2>7, Framed
  <2>9. Tree(ch, NULL, {}, sub)
    BY <2>7 DEF Tree
  <2>10. S = S \cup H["left"] \cup H["right"] /\ H \in [Sides -> SUBSET Node]
    BY DEF Sides
  <2> HIDE DEF end, H
  <2>11. Aside(t, end, t, S, dir, S, H, sub)
    BY <2>3, <2>6, <2>8, <2>9, <2>10 DEF Aside, ch
  <2>12. first.tree = t /\ first.end = end
    BY DEF end
  <2> HIDE DEF first
  <2>13. Searching(first, t, S, dir, Cardinality(S))
    BY <2>2, <2>11, <2>12 DEF Searching
  <2> QED
    BY <2>2, <2>4, <2>13
<1>6. \A s \in G[0] : s \in R
  <2> SUFFICES ASSUME NEW s \in G[0] PROVE FALSE
    OBVIOUS
  <2>1. PICK M, H, f : Aside(s.tree, s.end, t, S, dir, M, H, f) /\ Cardinality(M) <= 0
    BY DEF Searching
  <2>2. s.tree.root \in M /\ M \subseteq Node
    BY <2>1, AsideFacts
  <2>3. IsFiniteSet(M) /\ Cardinality(M) \in Nat
    BY <2>2, Finite
  <2>4. Cardinality(M) = 0
    BY <2>1, <2>3
  <2> QED
    BY <2>2, <2>3, <2>4, FS_EmptySet
<1> HIDE DEF first, R, G
<1>7. last \in R
  BY <1>3, <1>4, <1>5, <1>6, LoopEnds
<1> HIDE DEF last
<1>8. PICK M, H, f : Aside(last.tree, last.end, t, S, dir, M, H, f)
  BY <1>7 DEF R
<1>9. last \in SpStates /\ Stopped(last.tree, dir)
  BY <1>7 DEF R
<1> QED
  BY <1>1, <1>8, <1>9, StoppedIs

-----------------------------------------------------------------------------
(* Operations                                                              *)

\* t holds exactly the elements in S.
SpHolds(t, S) ==
  /\ t \in SpMemory
  /\ \E sub : Tree(t.child, t.root, S, sub)
  /\ \A i \in Sides : t.child[i][Header] = NULL

\* The root of a tree is one of its elements, or the tree is empty.
LEMMA HoldsFacts ==
  ASSUME NEW t, NEW S, SpHolds(t, S)
  PROVE  /\ t \in SpMemory /\ S \subseteq Node /\ t.root \in S \cup {NULL} /\ t.root \in NodeOrNull
         /\ t.root = NULL <=> S = {}
         /\ t.root # NULL => t.root \in S /\ t.root \in Node
<1>1. PICK sub : Tree(t.child, t.root, S, sub)
  BY DEF SpHolds
<1>2. S \subseteq Node /\ t.root \in S \cup {NULL} /\ (t.root = NULL => S = {})
  BY <1>1 DEF Tree
<1> QED
  BY <1>2, NotNull DEF SpHolds, NodeOrNull

\* Searching for elm.
Search(elm) == [n \in Node |-> Cmp(elm, n)]

\* Everything in S is to one side of the root of w, seen from elm, or was found.
Sought(w, S, elm) ==
  \/ Cmp(elm, w.root) = "here"
  \/ /\ Cmp(elm, w.root) \in Sides
     /\ \A x \in S : Cmp(x, w.root) = Cmp(elm, w.root) => Cmp(elm, x) = Other(Cmp(elm, w.root))

\* A splay for elm keeps the elements and brings the nearest one to the root.
LEMMA SplayIs ==
  ASSUME NEW t \in SpMemory, NEW S, NEW sub, Tree(t.child, t.root, S, sub), t.root # NULL,
         NEW elm \in Node
  PROVE  /\ SpHolds(SPLAY(t, elm), S) /\ SPLAY(t, elm).root \in S
         /\ \A i \in Sides, x \in Node \ S : SPLAY(t, elm).child[i][x] = t.child[i][x]
         /\ Sought(SPLAY(t, elm), S, elm)
<1> DEFINE dir == Search(elm)
           w == SPLAY(t, elm)
<1>1. S \subseteq Node
  BY DEF Tree
<1>2. \A n \in Node : dir[n] = Cmp(elm, n)
  BY DEF Search
<1>3. Leads(dir, S)
  <2>1. dir \in [Node -> Sides \cup {"here"}]
    BY CmpFacts DEF Search
  <2> HIDE DEF dir
  <2>2. ASSUME NEW a \in S, NEW b \in S, dir[b] \in Sides, Cmp(a, b) = Other(dir[b])
        PROVE  dir[a] = dir[b]
    <3>1. a \in Node /\ b \in Node /\ dir[a] = Cmp(elm, a) /\ dir[b] = Cmp(elm, b)
      BY <1>1, <1>2
    <3> DEFINE i == dir[b]
    <3>2. i \in Sides /\ Cmp(a, b) = Other(i) /\ Cmp(elm, b) = i
      BY <2>2, <3>1
    <3> HIDE DEF i
    <3>3. Cmp(b, a) = i
      BY <3>1, <3>2, CmpFacts, SideFacts
    <3>4. Cmp(elm, a) = i
      BY <3>1, <3>2, <3>3, CmpTransitive
    <3> QED
      BY <3>1, <3>4 DEF i
  <2> QED
    BY <2>1, <2>2 DEF Leads
<1>4. w = Splayed(t, dir)
  BY DEF SPLAY, Search
<1> HIDE DEF dir, w
<1>5. SplayedTo(w, t, S, dir)
  BY <1>3, <1>4, SplayedIs
<1>6. w.root \in Node /\ \A x \in S : dir[x] = Cmp(elm, x)
  BY <1>1, <1>2, <1>5 DEF SplayedTo
<1>7. SpHolds(w, S) /\ w.root \in S /\ \A i \in Sides, x \in Node \ S : w.child[i][x] = t.child[i][x]
  BY <1>5 DEF SplayedTo, SpHolds
<1>8. Sought(w, S, elm)
  BY <1>2, <1>5, <1>6 DEF SplayedTo, Sought
<1> QED
  BY <1>7, <1>8 DEF w

\* After a splay for elm, the tree has its key if and only if the root does.
LEMMA SoughtFound ==
  ASSUME NEW t, NEW S, SpHolds(t, S), t.root \in S, NEW elm \in Node, Sought(t, S, elm)
  PROVE  /\ Cmp(elm, t.root) = "here" => SameKey(S, elm) = {t.root}
         /\ Cmp(elm, t.root) # "here" => SameKey(S, elm) = {}
<1> DEFINE n == t.root
<1>1. PICK sub : Tree(t.child, n, S, sub)
  BY DEF SpHolds
<1>2. S \subseteq Node /\ n \in S /\ n \in Node
  BY <1>1 DEF Tree
<1>3. SameKey(S, elm) = {m \in S : Cmp(m, elm) = "here"}
  BY <1>2, KeySets
<1>4. ASSUME NEW m \in S, Cmp(m, elm) = "here", Cmp(elm, n) = "here"
      PROVE  m = n
  <2>1. Cmp(m, n) = "here"
    BY <1>2, <1>4, CmpHere
  <2> QED
    BY <1>1, <1>2, <2>1 DEF Tree
<1>5. ASSUME NEW m \in S, Cmp(m, elm) = "here", Cmp(elm, n) # "here"
      PROVE  FALSE
  <2>1. Cmp(m, n) = Cmp(elm, n) /\ Cmp(elm, m) = "here"
    BY <1>2, <1>5, CmpHere, CmpFacts
  <2>2. Cmp(elm, n) \in Sides /\ Cmp(elm, m) = Other(Cmp(elm, n))
    BY <1>5, <2>1 DEF Sought
  <2> QED
    BY <2>1, <2>2, SideFacts
<1>6. Cmp(elm, n) = "here" => Cmp(n, elm) = "here"
  BY <1>2, CmpFacts
<1>7. CASE Cmp(elm, n) = "here"
  <2>1. SameKey(S, elm) = {n}
    BY <1>2, <1>3, <1>4, <1>6, <1>7
  <2> QED
    BY <1>7, <2>1
<1>8. CASE Cmp(elm, n) # "here"
  <2>1. SameKey(S, elm) = {}
    BY <1>3, <1>5, <1>8
  <2> QED
    BY <1>8, <2>1
<1> QED
  BY <1>7, <1>8

\* A splay to one side brings the outermost element there to the root.
LEMMA MinMaxIs ==
  ASSUME NEW t, NEW S, SpHolds(t, S), t.root # NULL, NEW side \in Sides
  PROVE  /\ SpHolds(SPLAY_MINMAX(t, side), S) /\ SPLAY_MINMAX(t, side).root \in S
         /\ \A x \in S : x = SPLAY_MINMAX(t, side).root \/ Cmp(x, SPLAY_MINMAX(t, side).root) = Other(side)
<1> DEFINE dir == [n \in Node |-> side]
           w == SPLAY_MINMAX(t, side)
           r == w.root
<1>1. PICK sub : Tree(t.child, t.root, S, sub)
  BY DEF SpHolds
<1>2. S \subseteq Node /\ t \in SpMemory
  BY <1>1 DEF Tree, SpHolds
<1>3. \A n \in Node : dir[n] = side
  OBVIOUS
<1>4. Leads(dir, S)
  BY <1>2 DEF Leads
<1>5. w = Splayed(t, dir)
  BY DEF SPLAY_MINMAX
<1> HIDE DEF dir, w
<1>6. SplayedTo(w, t, S, dir)
  BY <1>1, <1>2, <1>4, <1>5, SplayedIs
<1>7. SpHolds(w, S) /\ r \in S
  BY <1>6 DEF SplayedTo, SpHolds
<1>8. r \in Node /\ dir[r] = side /\ "here" \notin Sides /\ Other(side) # side
  BY <1>2, <1>3, <1>7, SideFacts
<1>9. \A x \in S : Cmp(x, r) = dir[r] => dir[x] = Other(dir[r])
  BY <1>6, <1>8 DEF SplayedTo
<1>10. \A x \in S : x \in Node /\ Cmp(x, r) # side
  BY <1>2, <1>3, <1>8, <1>9
<1>11. PICK g : Tree(w.child, r, S, g)
  BY <1>7 DEF SpHolds
<1>12. ASSUME NEW x \in S PROVE x = r \/ Cmp(x, r) = Other(side)
  <2>1. Cmp(x, r) = "here" => x = r
    BY <1>7, <1>11 DEF Tree
  <2> QED
    BY <1>8, <1>10, <2>1, CmpFacts, SideFacts
<1> QED
  BY <1>7, <1>12 DEF w

\* SPLAY_FIND keeps the elements and finds the one with the key of elm, if any.
LEMMA FindIs ==
  ASSUME NEW t, NEW S, SpHolds(t, S), NEW elm \in Node
  PROVE  /\ SpHolds(SPLAY_FIND(t, elm), S)
         /\ Found(t, elm) = Least(SameKey(S, elm))
         /\ Found(t, elm) = NULL <=> SameKey(S, elm) = {}
         /\ elm \in S => SPLAY_FIND(t, elm).root = elm
<1>1. PICK sub : Tree(t.child, t.root, S, sub)
  BY DEF SpHolds
<1>2. S \subseteq Node /\ t \in SpMemory
  BY <1>1 DEF Tree, SpHolds
<1>3. CASE t.root = NULL
  <2>1. S = {}
    BY <1>3, HoldsFacts
  <2>2. SameKey(S, elm) = {}
    BY <2>1 DEF SameKey
  <2>3. Found(t, elm) = NULL /\ SPLAY_FIND(t, elm) = t /\ Least({}) = NULL
    BY <1>3 DEF Found, SPLAY_FIND, Least
  <2> QED
    BY <2>1, <2>2, <2>3
<1>4. CASE t.root # NULL
  <2> DEFINE u == SPLAY(t, elm)
             n == u.root
  <2>1. SpHolds(u, S) /\ n \in S /\ Sought(u, S, elm)
    BY <1>1, <1>2, <1>4, SplayIs
  <2>2. SPLAY_FIND(t, elm) = u /\ Found(t, elm) = IF Cmp(elm, n) = "here" THEN n ELSE NULL
    BY <1>4 DEF Found, SPLAY_FIND
  <2> HIDE DEF u
  <2>3. n \in Node /\ n # NULL
    BY <1>2, <2>1, NotNull
  <2>4. CASE Cmp(elm, n) = "here"
    <3>1. SameKey(S, elm) = {n}
      BY <2>1, <2>4, SoughtFound
    <3>2. Least({n}) = n
      BY <2>3, LeastIs
    <3>3. elm \in S => elm = n
      <4>1. elm \in S => elm \in SameKey(S, elm)
        BY DEF SameKey
      <4> QED
        BY <3>1, <4>1
    <3> QED
      BY <2>1, <2>2, <2>3, <2>4, <3>1, <3>2, <3>3
  <2>5. CASE Cmp(elm, n) # "here"
    <3>1. SameKey(S, elm) = {}
      BY <2>1, <2>5, SoughtFound
    <3>2. Least({}) = NULL
      BY DEF Least
    <3>3. elm \notin S
      <4>1. elm \in S => elm \in SameKey(S, elm)
        BY DEF SameKey
      <4> QED
        BY <3>1, <4>1
    <3> QED
      BY <2>1, <2>2, <2>5, <3>1, <3>2, <3>3
  <2> QED
    BY <2>4, <2>5
<1> QED
  BY <1>3, <1>4

\* The elements that a loop from the least to the greatest meets after elm.
Above(S, elm) == {m \in S : Key[m] > Key[elm]}

\* SPLAY_NEXT keeps the elements and finds the one after elm, if any.
LEMMA FollowingIs ==
  ASSUME NEW t, NEW S, SpHolds(t, S), NEW elm \in S
  PROVE  /\ SpHolds(SPLAY(t, elm), S)
         /\ Following(t, elm) = Least(Above(S, elm))
         /\ Following(t, elm) = NULL => \A m \in S : m = elm \/ Cmp(m, elm) = "left"
         /\ Following(t, elm) # NULL =>
              /\ Following(t, elm) \in S /\ Cmp(Following(t, elm), elm) = "right"
              /\ \A m \in S : \/ m = elm \/ Cmp(m, elm) = "left"
                              \/ m = Following(t, elm) \/ Cmp(m, Following(t, elm)) = "right"
<1> DEFINE u == SPLAY(t, elm)
           low == u.child["right"][elm]
           f == Following(t, elm)
           X == Above(S, elm)
<1>1. PICK sub0 : Tree(t.child, t.root, S, sub0)
  BY DEF SpHolds
<1>2. S \subseteq Node /\ t \in SpMemory /\ elm \in Node
  BY <1>1 DEF Tree, SpHolds
<1>3. t.root # NULL
  BY HoldsFacts
<1>4. SpHolds(u, S) /\ u.root \in S /\ Sought(u, S, elm)
  BY <1>1, <1>2, <1>3, SplayIs
<1>5. f = Extreme(u, low, "left")
  BY DEF Following
<1> HIDE DEF u, f
<1>6. u.root = elm
  <2>1. elm \in SameKey(S, elm)
    BY DEF SameKey
  <2>2. Cmp(elm, u.root) = "here"
    BY <1>2, <1>4, <2>1, SoughtFound
  <2>3. SameKey(S, elm) = {u.root}
    BY <1>2, <1>4, <2>2, SoughtFound
  <2> QED
    BY <2>1, <2>3
<1>7. PICK sub : Tree(u.child, elm, S, sub)
  BY <1>4, <1>6 DEF SpHolds
<1>8. "left" \in Sides /\ "right" \in Sides /\ Other("left") = "right"
  BY DEF Sides, Other
<1>9. X = {m \in S : Cmp(m, elm) = "right"}
  BY <1>2, KeySets DEF Above
<1> HIDE DEF X
<1>10. sub[low] = X /\ low \in S \cup {NULL}
  <2>1. \A m \in S : m \in sub[low] <=> m \in sub[elm] /\ Cmp(m, elm) = "right"
    BY <1>7, <1>8 DEF Tree
  <2>2. sub[elm] = S /\ low \in S \cup {NULL}
    BY <1>7, <1>8 DEF Tree
  <2>3. sub[low] \subseteq S
    BY <1>7, <2>2 DEF Tree
  <2> QED
    BY <1>9, <2>1, <2>2, <2>3
<1>11. \A m \in S : m \in X \/ m = elm \/ Cmp(m, elm) = "left"
  <2>1. \A m \in S : m \in Node /\ (Cmp(m, elm) = "here" => m = elm)
    BY <1>2, <1>7 DEF Tree
  <2> QED
    BY <1>2, <1>9, <2>1, CmpFacts DEF Sides
<1>12. CASE low = NULL
  <2>1. X = {}
    BY <1>7, <1>10, <1>12 DEF Tree
  <2>2. f = NULL
    <3> DEFINE turn == [x \in NodeOrNull |->
                         IF x # NULL /\ u.child["left"][x] # NULL THEN u.child["left"][x] ELSE x]
    <3>1. f = Loop(turn, NULL)
      BY <1>5, <1>12 DEF Extreme
    <3>2. turn[NULL] = NULL
      BY DEF NodeOrNull
    <3> HIDE DEF turn
    <3> DEFINE R == {NULL}
               H == [k \in Nat |-> {NULL}]
    <3>3. \A x \in R : turn[x] \in R
      BY <3>2
    <3>4. \A k \in Nat : \A x \in H[k] : x \in R
      OBVIOUS
    <3>5. NULL \in H[0] /\ 0 \in Nat /\ 0 <= Cardinality(Node)
      BY Elements
    <3> HIDE DEF H, R
    <3>6. Loop(turn, NULL) \in R
      BY <3>3, <3>4, <3>5, LoopEnds
    <3> QED
      BY <3>1, <3>6 DEF R
  <2>3. Least({}) = NULL
    BY DEF Least
  <2> QED
    BY <1>4, <1>11, <2>1, <2>2, <2>3 DEF u, f, X
<1>13. CASE low # NULL
  <2>1. low \in S
    BY <1>10, <1>13
  <2> HIDE DEF low
  <2>2. f \in sub[low] /\ \A m \in sub[low] : m = f \/ Cmp(m, f) = "right"
    <3>1. TreeOf(u, elm, S, sub)
      BY <1>7 DEF TreeOf
    <3> QED
      BY <1>5, <1>8, <2>1, <3>1, ExtremeIs
  <2>3. f \in X /\ X \in SUBSET Node /\ \A m \in X : m = f \/ Cmp(m, f) = "right"
    BY <1>2, <1>9, <1>10, <2>2
  <2>4. Least(X) = f
    BY <2>3, LeastIs
  <2>5. f \in S /\ Cmp(f, elm) = "right" /\ f # NULL
    BY <1>2, <1>9, <2>3, NotNull
  <2> QED
    BY <1>4, <1>11, <2>3, <2>4, <2>5 DEF u, f, X
<1> QED
  BY <1>12, <1>13

\* SPLAY_INSERT adds the element unless its key is in the tree.
LEMMA InsertIs ==
  ASSUME NEW t, NEW S, SpHolds(t, S), NEW elm \in Node, elm \notin S
  PROVE  SpHolds(SPLAY_INSERT(t, elm), IF Found(t, elm) = NULL THEN S \cup {elm} ELSE S)
<1>1. PICK sub0 : Tree(t.child, t.root, S, sub0)
  BY DEF SpHolds
<1>2. S \subseteq Node /\ t \in SpMemory /\ elm \in NodeOrNull /\ elm \in Places /\ NULL \in NodeOrNull /\ Header \in Places
      /\ elm # Header /\ elm # NULL
  BY <1>1, HeaderIs, NotNull DEF Tree, SpHolds, Places, NodeOrNull
<1>3. CASE t.root = NULL
  <2> DEFINE a == SetChild(t, "left", elm, NULL)
             b == SetChild(a, "right", elm, NULL)
             w == SetRoot(b, elm)
             sub == [x \in NodeOrNull |-> IF x = elm THEN {elm} ELSE {}]
  <2>1. SPLAY_INSERT(t, elm) = w /\ Found(t, elm) = NULL
    BY <1>3 DEF SPLAY_INSERT, Found
  <2>2. S = {}
    BY <1>3, HoldsFacts
  <2>3. "left" \in Sides /\ "right" \in Sides /\ \A i \in Sides : i = "left" \/ i = "right"
    BY DEF Sides
  <2>4. a \in SpMemory /\ \A i \in Sides, x \in Places : a.child[i][x] = IF i = "left" /\ x = elm THEN NULL ELSE t.child[i][x]
    BY <1>2, <2>3, SpSet
  <2> HIDE DEF a
  <2>5. b \in SpMemory /\ \A i \in Sides, x \in Places : b.child[i][x] = IF i = "right" /\ x = elm THEN NULL ELSE a.child[i][x]
    <3>1. a \in SpMemory
      BY <2>4
    <3> QED
      BY <1>2, <2>3, <3>1, SpSet
  <2> HIDE DEF b
  <2>6. w \in SpMemory /\ w.root = elm /\ w.child = b.child
    BY <1>2, <2>5, SpRoot
  <2> HIDE DEF w
  <2>7. \A i \in Sides : w.child[i][elm] = NULL /\ w.child[i][Header] = NULL
    <3>1. \A i \in Sides : t.child[i][Header] = NULL
      BY DEF SpHolds
    <3> QED
      BY <1>2, <2>3, <2>4, <2>5, <2>6, <3>1
  <2>8. sub[NULL] = {} /\ sub[elm] = {elm}
    BY <1>2
  <2> HIDE DEF sub
  <2>9. Tree(w.child, elm, {elm}, sub)
    BY <2>7, <2>8, CmpFacts, SideFacts DEF Tree
  <2> QED
    BY <2>1, <2>2, <2>6, <2>7, <2>9 DEF SpHolds
<1>4. CASE t.root # NULL
  <2> DEFINE u == SPLAY(t, elm)
             n == u.root
             side == Cmp(elm, n)
             far == Other(side)
             q == u.child[side][n]
             a == SetChild(u, side, elm, q)
             b == SetChild(a, far, elm, n)
             c == SetChild(b, side, n, NULL)
             w == SetRoot(c, elm)
  <2>1. SpHolds(u, S) /\ n \in S /\ Sought(u, S, elm)
    BY <1>1, <1>2, <1>4, SplayIs
  <2>2. SPLAY_INSERT(t, elm) = IF side = "here" THEN u ELSE w
    BY <1>4 DEF SPLAY_INSERT
  <2>3. Found(t, elm) = IF side = "here" THEN n ELSE NULL
    BY <1>4 DEF Found, SPLAY_FIND
  <2>4. n \in Node /\ n \in NodeOrNull /\ n \in Places /\ n # elm /\ n # NULL /\ n # Header
    BY <1>2, <2>1, NotNull, HeaderIs DEF NodeOrNull, Places
  <2>5. CASE side = "here"
    BY <2>1, <2>2, <2>3, <2>4, <2>5
  <2>6. CASE side # "here"
    <3> HIDE DEF u
    <3>1. side \in Sides /\ far \in Sides /\ far # side /\ Other(far) = side /\ \A i \in Sides : i = side \/ i = far
      BY <2>1, <2>6, SideFacts DEF Sought
    <3>2. PICK sub : Tree(u.child, n, S, sub)
      BY <2>1 DEF SpHolds
    <3>3. u \in SpMemory /\ q \in NodeOrNull /\ \A i \in Sides : u.child[i][Header] = NULL
      BY <2>1, <2>4, <3>1, SpReads DEF SpHolds
    <3>4. \A x \in S : Cmp(x, n) = side => Cmp(elm, x) = far
      BY <2>1, <2>6 DEF Sought
    <3>5. q \in S \cup {NULL} /\ sub[NULL] = {} /\ sub[q] \subseteq S
      BY <2>1, <3>1, <3>2 DEF Tree
    <3>6. q = u.child[side][n] /\ Cmp(elm, n) = side
      OBVIOUS
    <3> HIDE DEF n, q, far, side
    <3>7. a \in SpMemory /\ \A i \in Sides, x \in Places : a.child[i][x] = IF i = side /\ x = elm THEN q ELSE u.child[i][x]
      BY <1>2, <3>1, <3>3, SpSet
    <3> HIDE DEF a
    <3>8. b \in SpMemory /\ \A i \in Sides, x \in Places : b.child[i][x] = IF i = far /\ x = elm THEN n ELSE a.child[i][x]
      <4>1. a \in SpMemory
        BY <3>7
      <4> QED
        BY <1>2, <2>4, <3>1, <4>1, SpSet
    <3> HIDE DEF b
    <3>9. c \in SpMemory /\ \A i \in Sides, x \in Places : c.child[i][x] = IF i = side /\ x = n THEN NULL ELSE b.child[i][x]
      <4>1. b \in SpMemory
        BY <3>8
      <4> QED
        BY <1>2, <2>4, <3>1, <4>1, SpSet
    <3> HIDE DEF c
    <3>10. w \in SpMemory /\ w.root = elm /\ w.child = c.child
      BY <1>2, <3>9, SpRoot
    <3> HIDE DEF w
    <3>11. \A i \in Sides, x \in Places :
             w.child[i][x] = IF x = elm THEN (IF i = side THEN q ELSE n)
                             ELSE IF x = n /\ i = side THEN NULL ELSE u.child[i][x]
      BY <2>4, <3>1, <3>7, <3>8, <3>9, <3>10
    <3> DEFINE new == w.child
               X == sub[q]
               Y == S \ X
               bb == [e \in Sides |-> IF e = side THEN q ELSE n]
               B == [e \in Sides |-> IF e = side THEN X ELSE Y]
               g == [e \in Sides |-> IF e = side THEN sub ELSE Shrunk(sub, n, X)]
    <3>12. \A x \in S : x \in Places /\ x # elm
      BY <1>2 DEF Places
    <3>13. n \notin X
      <4>1. q # NULL => n \notin sub[q]
        BY <2>1, <3>1, <3>2, <3>6, Child
      <4> QED
        BY <3>5, <4>1
    <3>14. Tree(new, q, X, sub)
      <4>1. Tree(u.child, q, X, sub)
        BY <3>2, <3>5, Restricted
      <4>2. \A x \in X, i \in Sides : new[i][x] = u.child[i][x]
        BY <3>5, <3>11, <3>12, <3>13
      <4> HIDE DEF X, new
      <4> QED
        BY <3>5, <4>1, <4>2, Framed
    <3>15. Tree(new, n, Y, Shrunk(sub, n, X))
      <4> DEFINE ch == u.child
      <4>1. new[side][n] = NULL /\ \A x \in S, i \in Sides : (x = n /\ i = side) \/ new[i][x] = ch[i][x]
        BY <2>4, <3>1, <3>11, <3>12
      <4>2. q = ch[side][n] /\ Tree(ch, n, S, sub)
        BY <3>2, <3>6
      <4> HIDE DEF new, ch
      <4> QED
        BY <2>4, <3>1, <4>1, <4>2, Detached
    <3>16. ASSUME NEW x \in X PROVE Cmp(x, elm) = side
      <4>1. Cmp(x, n) = side /\ x \in S /\ x \in Node
        BY <1>2, <3>1, <3>2, <3>5, <3>6, <2>1 DEF Tree
      <4>2. Cmp(elm, x) = far
        BY <3>4, <4>1
      <4> QED
        BY <3>1, <4>1, <4>2, CmpFacts
    <3>17. ASSUME NEW x \in Y PROVE Cmp(x, elm) = far
      <4>1. Cmp(n, elm) = far /\ x \in Node /\ x \in S
        BY <1>2, <2>4, <3>1, <3>6, CmpFacts
      <4>2. CASE x = n
        BY <4>1, <4>2
      <4>3. CASE x # n
        <5>1. Cmp(x, n) # side
          BY <2>1, <3>1, <3>2, <3>6, <4>1 DEF Tree
        <5>2. Cmp(x, n) # "here"
          BY <2>1, <3>2, <4>1, <4>3 DEF Tree
        <5>3. Cmp(x, n) = far
          BY <2>4, <3>1, <4>1, <5>1, <5>2, CmpFacts
        <5> QED
          BY <2>4, <3>1, <4>1, <5>3, CmpTransitive
      <4> QED
        BY <4>2, <4>3
    <3>18. Pieces(new, bb, B, g, elm, new)
      <4>1. ASSUME NEW e \in Sides
            PROVE  Tree(new, bb[e], B[e], g[e])
        BY <3>1, <3>14, <3>15
      <4>2. ASSUME NEW e \in Sides, NEW x \in B[e]
            PROVE  Cmp(x, elm) = e
        BY <3>1, <3>16, <3>17
      <4>3. \A e \in Sides : new[e][elm] = bb[e]
        BY <1>2, <3>11
      <4> HIDE DEF new, bb, B, g
      <4> QED
        BY <4>1, <4>2, <4>3 DEF Pieces
    <3>19. {elm} \cup B["left"] \cup B["right"] = S \cup {elm}
      <4>1. B["left"] \cup B["right"] = X \cup Y
        BY <3>1 DEF Sides
      <4>2. X \cup Y = S
        BY <3>5
      <4> QED
        BY <4>1, <4>2
    <3> HIDE DEF new, bb, B, g
    <3>20. \E f : Tree(new, elm, {elm} \cup B["left"] \cup B["right"], f)
      BY <3>18, Rooted
    <3>21. \E f : Tree(w.child, w.root, S \cup {elm}, f)
      BY <3>10, <3>19, <3>20 DEF new
    <3>22. \A i \in Sides : w.child[i][Header] = NULL
      BY <1>2, <2>4, <3>3, <3>11
    <3>23. SPLAY_INSERT(t, elm) = w /\ Found(t, elm) = NULL
      BY <2>2, <2>3, <2>6 DEF side, n
    <3> QED
      BY <3>10, <3>21, <3>22, <3>23 DEF SpHolds
  <2> QED
    BY <2>5, <2>6
<1> QED
  BY <1>3, <1>4

\* SPLAY_REMOVE removes what has the key of elm, and nothing else.
LEMMA RemoveIs ==
  ASSUME NEW t, NEW S, SpHolds(t, S), NEW elm \in Node
  PROVE  SpHolds(SPLAY_REMOVE(t, elm), S \ SameKey(S, elm))
<1>1. PICK sub0 : Tree(t.child, t.root, S, sub0)
  BY DEF SpHolds
<1>2. S \subseteq Node /\ t \in SpMemory
  BY <1>1 DEF Tree, SpHolds
<1>3. CASE t.root = NULL
  <2>1. S = {}
    BY <1>3, HoldsFacts
  <2> QED
    BY <1>3, <2>1 DEF SPLAY_REMOVE
<1>4. CASE t.root # NULL
  <2> DEFINE u == SPLAY(t, elm)
             n == u.root
             low == u.child["left"][n]
             high == u.child["right"][n]
             u1 == SetRoot(u, low)
             v == SPLAY(u1, elm)
             w == SetChild(v, "right", v.root, high)
  <2>1. SpHolds(u, S) /\ n \in S /\ Sought(u, S, elm)
    BY <1>1, <1>2, <1>4, SplayIs
  <2>2. /\ Cmp(elm, n) # "here" => SPLAY_REMOVE(t, elm) = u
        /\ Cmp(elm, n) = "here" /\ low = NULL => SPLAY_REMOVE(t, elm) = SetRoot(u, high)
        /\ Cmp(elm, n) = "here" /\ low # NULL => SPLAY_REMOVE(t, elm) = w
    BY <1>4 DEF SPLAY_REMOVE
  <2> HIDE DEF u
  <2>3. CASE Cmp(elm, n) # "here"
    <3>1. SameKey(S, elm) = {}
      BY <2>1, <2>3, SoughtFound
    <3> QED
      BY <2>1, <2>2, <2>3, <3>1
  <2>4. CASE Cmp(elm, n) = "here"
    <3>1. SameKey(S, elm) = {n}
      BY <2>1, <2>4, SoughtFound
    <3>2. PICK sub : Tree(u.child, n, S, sub)
      BY <2>1 DEF SpHolds
    <3> DEFINE X == sub[low]
               Y == sub[high]
               ch == u.child
    <3>3. n \in Node /\ u \in SpMemory /\ \A i \in Sides : ch[i][Header] = NULL
      BY <1>2, <2>1 DEF SpHolds
    <3>4. "left" \in Sides /\ "right" \in Sides /\ Other("left") = "right" /\ Other("right") = "left"
          /\ (\A i \in Sides : i = "left" \/ i = "right") /\ "here" \notin Sides
      BY DEF Sides, Other
    <3>5. low \in S \cup {NULL} /\ high \in S \cup {NULL} /\ sub[NULL] = {} /\ X \subseteq S /\ Y \subseteq S
      BY <2>1, <3>2, <3>4 DEF Tree
    <3>6. low \in NodeOrNull /\ high \in NodeOrNull
      BY <1>2, <3>5 DEF NodeOrNull
    <3>7. \A m \in S : (m \in X <=> Cmp(m, n) = "left") /\ (m \in Y <=> Cmp(m, n) = "right")
      BY <2>1, <3>2, <3>4 DEF Tree
    <3>8. S \ {n} = X \cup Y /\ X \cap Y = {}
      <4>1. \A m \in S : m # n => m \in X \/ m \in Y
        BY <1>2, <2>1, <3>2, <3>3, <3>7, CmpFacts DEF Tree, Sides
      <4>2. n \notin X /\ n \notin Y
        BY <2>1, <3>3, <3>4, <3>7, CmpFacts
      <4> QED
        BY <3>5, <3>7, <4>1, <4>2
    <3>9. Tree(ch, low, X, sub) /\ Tree(ch, high, Y, sub)
      BY <3>2, <3>5, Restricted
    <3>10. CASE low = NULL
      <4> DEFINE z == SetRoot(u, high)
      <4>1. z \in SpMemory /\ z.root = high /\ z.child = ch
        BY <3>3, <3>6, SpRoot
      <4>2. S \ {n} = Y
        BY <3>5, <3>8, <3>10
      <4> HIDE DEF z
      <4>3. SpHolds(z, S \ {n})
        BY <3>3, <3>9, <4>1, <4>2 DEF SpHolds
      <4> QED
        BY <2>2, <2>4, <3>1, <3>10, <4>3 DEF z
    <3>11. CASE low # NULL
      <4>1. u1 \in SpMemory /\ u1.root = low /\ u1.child = ch
        BY <3>3, <3>6, SpRoot
      <4> HIDE DEF u1
      <4>2. Tree(u1.child, u1.root, X, sub) /\ u1.root # NULL
        BY <3>9, <3>11, <4>1
      <4>3. /\ SpHolds(v, X) /\ v.root \in X
            /\ \A i \in Sides, x \in Node \ X : v.child[i][x] = u1.child[i][x]
            /\ Sought(v, X, elm)
        BY <4>1, <4>2, SplayIs
      <4> DEFINE r == v.root
      <4> HIDE DEF v, X, Y, ch, high, n
      <4>4. v \in SpMemory /\ \A i \in Sides : v.child[i][Header] = NULL
        BY <4>3 DEF SpHolds
      <4>5. PICK f : Tree(v.child, r, X, f)
        BY <4>3 DEF SpHolds
      <4>6. r \in X /\ r \in Node /\ r \in S /\ r \in Places /\ r # Header /\ f[r] = X /\ f[NULL] = {}
        BY <1>2, <3>5, <4>3, <4>5, HeaderIs DEF Places, Tree
      \* elm is above everything in X
      <4>7. \A x \in X : Cmp(elm, x) = "right" /\ Cmp(x, elm) = "left"
        <5> SUFFICES ASSUME NEW x \in X PROVE Cmp(elm, x) = "right" /\ Cmp(x, elm) = "left"
          OBVIOUS
        <5>1. x \in Node /\ Cmp(x, n) = "left"
          BY <1>2, <3>5, <3>7
        <5>2. Cmp(n, x) = "right"
          BY <3>3, <3>4, <5>1, CmpFacts
        <5>3. Cmp(elm, x) = "right"
          BY <2>4, <3>3, <5>1, <5>2, CmpHere
        <5> QED
          BY <3>4, <5>1, <5>3, CmpFacts
      <4>8. v.child["right"][r] = NULL
        <5> DEFINE q == v.child["right"][r]
        <5> SUFFICES ASSUME q # NULL PROVE FALSE
          OBVIOUS
        <5>1. q \in X /\ Cmp(q, r) = "right"
          BY <3>4, <4>5, <4>6, Child
        <5>2. Cmp(elm, r) = "right" /\ Cmp(elm, q) = "right"
          BY <4>6, <4>7, <5>1
        <5>3. Cmp(elm, q) = "left"
          BY <3>4, <4>3, <5>1, <5>2 DEF Sought
        <5> QED
          BY <5>2, <5>3
      <4>9. /\ w \in SpMemory /\ w.root = r
            /\ \A i \in Sides, x \in Places : w.child[i][x] = IF i = "right" /\ x = r THEN high ELSE v.child[i][x]
        BY <3>4, <3>6, <4>4, <4>6, SpSet
      <4> HIDE DEF w
      <4> DEFINE cv == v.child
                 cw == w.child
                 g == [x \in NodeOrNull |-> IF x \in X THEN f[x] ELSE sub[x]]
      <4>10. (\A x \in X : g[x] = f[x]) /\ (\A x \in Y : g[x] = sub[x]) /\ g[NULL] = {}
        <5>1. X \subseteq NodeOrNull /\ Y \subseteq NodeOrNull /\ NULL \in NodeOrNull /\ NULL \notin X
          BY <1>2, <3>5, NotNull DEF NodeOrNull
        <5> QED
          BY <3>5, <3>8, <5>1
      <4> HIDE DEF g
      <4>11. Tree(cv, r, X, g)
        BY <4>5, <4>10, Framed
      <4>12. Tree(cv, high, Y, g)
        <5>1. \A x \in Y, i \in Sides : cv[i][x] = ch[i][x]
          BY <1>2, <3>5, <3>8, <4>1, <4>3
        <5> QED
          BY <3>9, <4>10, <5>1, Framed
      <4>13. \A x \in X, y \in Y : Cmp(y, x) = "right" /\ Cmp(x, y) # "here"
        <5> SUFFICES ASSUME NEW x \in X, NEW y \in Y PROVE Cmp(y, x) = "right" /\ Cmp(x, y) # "here"
          OBVIOUS
        <5>1. x \in Node /\ y \in Node /\ Cmp(x, n) = "left" /\ Cmp(y, n) = "right"
          BY <1>2, <3>5, <3>7
        <5>2. Cmp(n, x) = "right"
          BY <3>3, <3>4, <5>1, CmpFacts
        <5>3. Cmp(y, x) = "right"
          BY <3>3, <3>4, <5>1, <5>2, CmpTransitive
        <5> QED
          BY <3>4, <5>1, <5>3, CmpFacts
      <4>14. \A x \in X : r \in g[x] /\ x # r => Cmp(r, x) = "right"
        <5> SUFFICES ASSUME NEW x \in X, r \in g[x], x # r PROVE Cmp(r, x) = "right"
          OBVIOUS
        <5>1. r # NULL /\ x \in f[r] /\ x \in X
          BY <4>6, NotNull
        <5>2. x \in f[cv[Cmp(x, r)][r]] /\ Cmp(x, r) \in Sides /\ cv[Cmp(x, r)][r] \in X /\ f[x] \subseteq f[cv[Cmp(x, r)][r]]
          <6>1. x \in f[r]
            BY <5>1
          <6> QED
            BY <4>5, <4>6, <6>1, Below
        <5>3. r \notin f[cv[Cmp(x, r)][r]]
          <6>1. cv[Cmp(x, r)][r] # NULL
            BY <4>5, <5>2 DEF Tree
          <6> QED
            BY <4>5, <4>6, <5>2, <6>1, Child
        <5> QED
          BY <4>10, <5>2, <5>3
      <4>15. cv["right"][r] = NULL /\ cw["right"][r] = high
        BY <3>4, <4>6, <4>8, <4>9
      <4>16. \A x \in X \cup Y, i \in Sides : (x = r /\ i = "right") \/ cw[i][x] = cv[i][x]
        <5>1. X \cup Y \subseteq Places
          BY <1>2, <3>5 DEF Places
        <5> QED
          BY <4>9, <5>1
      <4>17. \A x \in X, y \in Y : r \in g[x] /\ x # r => Cmp(y, x) = Cmp(r, x)
        BY <4>13, <4>14
      <4>18. \A y \in Y : Cmp(y, r) = "right"
        BY <4>6, <4>13
      <4>19. X \cap Y = {} /\ \A x \in X, y \in Y : Cmp(x, y) # "here"
        BY <3>8, <4>13
      <4> HIDE DEF cv, cw, r
      <4>20. Tree(cw, r, X \cup Y, Grown(g, X, r, Y))
        BY <3>4, <4>6, <4>11, <4>12, <4>15, <4>16, <4>17, <4>18, <4>19, Joined
      <4>21. \A i \in Sides : cw[i][Header] = NULL
        <5>1. \A i \in Sides : cv[i][Header] = NULL
          BY <4>4 DEF cv
        <5>2. Header \in Places
          BY DEF Places
        <5> QED
          BY <4>6, <4>9, <5>1, <5>2 DEF cw, cv, r
      <4>22. SpHolds(w, X \cup Y)
        BY <4>9, <4>20, <4>21 DEF SpHolds, cw, r
      <4> QED
        BY <2>2, <2>4, <3>1, <3>8, <3>11, <4>22 DEF w, n, v, r, high
    <3> QED
      BY <3>10, <3>11
  <2> QED
    BY <2>3, <2>4
<1> QED
  BY <1>3, <1>4

\* What elements that are not in the tree hold is of no concern to it.
LEMMA DeadIs ==
  ASSUME NEW t, NEW S, SpHolds(t, S), NEW X, X \cap S = {}, X \subseteq Node
  PROVE  SpHolds(Dead(t, X), S)
<1> DEFINE w == Dead(t, X)
           cw == w.child
           ct == t.child
<1>1. t \in SpMemory
  BY DEF SpHolds
<1>2. w \in SpMemory /\ w.root = t.root
      /\ \A i \in Sides, x \in Places : cw[i][x] = IF x \in X THEN NULL ELSE ct[i][x]
  BY <1>1, SpReads DEF Dead, SpMemory, Places, NodeOrNull
<1>3. PICK sub : Tree(ct, t.root, S, sub)
  BY DEF SpHolds
<1> HIDE DEF w
<1>4. S \subseteq Places /\ sub[NULL] = {}
  BY <1>3 DEF Tree, Places
<1>5. \A x \in S, i \in Sides : cw[i][x] = ct[i][x]
  BY <1>2, <1>4
<1>6. \A i \in Sides : cw[i][Header] = NULL
  <2>1. Header \in Places /\ Header \notin X
    BY HeaderIs DEF Places
  <2> QED
    BY <1>2, <2>1 DEF SpHolds
<1> HIDE DEF cw, ct
<1>7. Tree(cw, t.root, S, sub)
  BY <1>3, <1>4, <1>5, Framed
<1>8. SpHolds(w, S)
  BY <1>2, <1>6, <1>7 DEF SpHolds, cw
<1> QED
  BY <1>8 DEF w

\* SPLAY_MIN and SPLAY_MAX keep the elements and find the outermost ones.
LEMMA MinMaxOf ==
  ASSUME NEW t, NEW S, SpHolds(t, S)
  PROVE  /\ \A side \in Sides : SpHolds(SPLAY_MIN_MAX(t, side), S)
         /\ SPLAY_MIN_MAX(t, "left").root = Least(S)
         /\ SPLAY_MIN_MAX(t, "right").root = Greatest(S)
<1>1. CASE t.root = NULL
  <2>1. S = {} /\ \A side : SPLAY_MIN_MAX(t, side) = t
    BY <1>1, HoldsFacts DEF SPLAY_MIN_MAX
  <2> QED
    BY <1>1, <2>1 DEF Least, Greatest
<1>2. CASE t.root # NULL
  <2>1. \A side : SPLAY_MIN_MAX(t, side) = SPLAY_MINMAX(t, side)
    BY <1>2 DEF SPLAY_MIN_MAX
  <2>2. "left" \in Sides /\ "right" \in Sides /\ Other("left") = "right" /\ Other("right") = "left"
    BY DEF Sides, Other
  <2>3. S \in SUBSET Node
    BY HoldsFacts
  <2> DEFINE l == SPLAY_MINMAX(t, "left").root
             r == SPLAY_MINMAX(t, "right").root
  <2>4. l \in S /\ \A x \in S : x = l \/ Cmp(x, l) = "right"
    BY <1>2, <2>2, MinMaxIs
  <2>5. r \in S /\ \A x \in S : x = r \/ Cmp(x, r) = "left"
    BY <1>2, <2>2, MinMaxIs
  <2>6. \A side \in Sides : SpHolds(SPLAY_MINMAX(t, side), S)
    BY <1>2, MinMaxIs
  <2> HIDE DEF l, r
  <2>7. Least(S) = l /\ Greatest(S) = r
    BY <2>3, <2>4, <2>5, LeastIs, GreatestIs
  <2> QED
    BY <2>1, <2>6, <2>7 DEF l, r
<1> QED
  BY <1>1, <1>2

-----------------------------------------------------------------------------
(* The program that uses the tree                                          *)

\* What a loop has passed is what is below the element it is at.
Walking ==
  /\ scan.x \in members \cup {NULL}
  /\ scan.seen \in Seq(members)
  /\ \A m \in members :
       (\E i \in 1..Len(scan.seen) : scan.seen[i] = m) <=> (scan.x = NULL \/ Cmp(m, scan.x) = "left")
  /\ \A i \in 1..(Len(scan.seen) - 1) : Cmp(scan.seen[i], scan.seen[i + 1]) = "left"

\* The inductive invariant.
SpKept == SpHolds(sp, members) /\ (scan = NoScan \/ Walking)

\* The empty tree is a tree.
LEMMA SpStarts == SpInit => SpKept
<1> SUFFICES ASSUME SpInit PROVE SpKept
  OBVIOUS
<1> DEFINE sub == [x \in NodeOrNull |-> {}]
<1>1. SpEmpty \in SpMemory /\ SpEmpty.root = NULL /\ \A i \in Sides : SpEmpty.child[i][Header] = NULL
  BY DEF SpEmpty, SpMemory, NodeOrNull
<1>2. sub[NULL] = {}
  BY DEF NodeOrNull
<1> HIDE DEF sub
<1>3. Tree(SpEmpty.child, NULL, {}, sub)
  BY <1>2 DEF Tree
<1> QED
  BY <1>1, <1>3 DEF SpInit, SpKept, SpHolds

\* SPLAY_INSERT keeps the invariant.
LEMMA AddStep ==
  ASSUME SpKept, NEW n \in Node, SpAdd(n)
  PROVE  SpKept'
<1>1. SpHolds(sp, members) /\ n \notin members
  BY DEF SpKept, SpAdd
<1>2. SpHolds(SPLAY_INSERT(sp, n), IF Found(sp, n) = NULL THEN members \cup {n} ELSE members)
  BY <1>1, InsertIs
<1>3. SpHolds(sp', members')
  BY <1>2 DEF SpAdd
<1> QED
  BY <1>3 DEF SpKept, SpAdd

\* SPLAY_REMOVE keeps the invariant.
LEMMA DropStep ==
  ASSUME SpKept, NEW elm \in Node, SpDrop(elm)
  PROVE  SpKept'
<1> DEFINE gone == SameKey(members, elm)
           t == SPLAY_REMOVE(sp, elm)
<1>1. SpHolds(t, members \ gone)
  BY RemoveIs DEF SpKept
<1>2. gone \cap (members \ gone) = {} /\ gone \subseteq Node
  <2>1. members \subseteq Node
    BY HoldsFacts DEF SpKept
  <2> QED
    BY <2>1 DEF SameKey
<1>3. sp' = Dead(t, gone) /\ members' = members \ gone /\ scan' = scan /\ scan = NoScan
  BY DEF SpDrop
<1> HIDE DEF gone, t
<1>4. SpHolds(Dead(t, gone), members \ gone)
  BY <1>1, <1>2, DeadIs
<1> QED
  BY <1>3, <1>4 DEF SpKept

\* Lookups, which splay, keep the invariant.
LEMMA LookupStep ==
  ASSUME SpKept, SpLookup
  PROVE  SpKept'
<1>1. SpHolds(sp, members)
  BY DEF SpKept
<1>2. \A n \in Node : SpHolds(SPLAY_FIND(sp, n), members)
  BY <1>1, FindIs
<1>3. \A side \in Sides : SpHolds(SPLAY_MIN_MAX(sp, side), members)
  BY <1>1, MinMaxOf
<1>4. SpHolds(sp', members)
  BY <1>2, <1>3 DEF SpLookup
<1> QED
  BY <1>4 DEF SpKept, SpLookup

\* The start of a loop over the tree keeps the invariant.
LEMMA ForeachStep ==
  ASSUME SpKept, SpForeach
  PROVE  SpKept'
<1> DEFINE r == sp'.root
<1>1. sp' = SPLAY_MINMAX(sp, "left") /\ sp.root # NULL /\ members' = members /\ scan' = [x |-> r, seen |-> <<>>]
  BY DEF SpForeach
<1>2. "left" \in Sides /\ Other("left") = "right"
  BY DEF Sides, Other
<1>3. SpHolds(sp', members) /\ r \in members /\ \A x \in members : x = r \/ Cmp(x, r) = "right"
  BY <1>1, <1>2, MinMaxIs DEF SpKept
<1> HIDE DEF r
<1>4. members \subseteq Node
  BY HoldsFacts DEF SpKept
<1>5. r # NULL /\ \A x \in members : Cmp(x, r) # "left"
  BY <1>3, <1>4, CmpFacts, NotNull DEF Sides
<1>6. scan'.x = r /\ scan'.seen = <<>> /\ Len(<<>>) = 0 /\ <<>> \in Seq(members)
  BY <1>1
<1>7. Walking'
  BY <1>1, <1>3, <1>5, <1>6 DEF Walking
<1> QED
  BY <1>1, <1>3, <1>7 DEF SpKept

\* A turn of a loop over the tree keeps the invariant.
LEMMA BodyStep ==
  ASSUME SpKept, SpBody
  PROVE  SpKept'
<1> DEFINE x == scan.x
           s == scan.seen
           S == members
<1>0. x # NULL /\ Walking /\ SpHolds(sp, S)
  BY DEF SpKept, SpBody, NoScan
<1>1. PICK t \in {sp} \cup {SPLAY_FIND(sp, n) : n \in Node} :
        sp' = SPLAY(t, x) /\ scan' = [x |-> Following(t, x), seen |-> Append(s, x)]
  BY DEF SpBody
<1>2. SpHolds(t, S)
  <2>1. \A n \in Node : SpHolds(SPLAY_FIND(sp, n), S)
    BY <1>0, FindIs
  <2> QED
    BY <1>0, <1>1, <2>1
<1>3. x \in S /\ S \subseteq Node /\ x \in Node
  BY <1>0, HoldsFacts DEF Walking
<1> DEFINE f == Following(t, x)
<1>4. /\ SpHolds(SPLAY(t, x), S)
      /\ f = NULL => \A m \in S : m = x \/ Cmp(m, x) = "left"
      /\ f # NULL => /\ f \in S /\ Cmp(f, x) = "right"
                     /\ \A m \in S : m = x \/ Cmp(m, x) = "left" \/ m = f \/ Cmp(m, f) = "right"
  <2> HIDE DEF x, S
  <2> QED
    BY <1>2, <1>3, FollowingIs
<1> HIDE DEF f
<1>5. scan'.x = f /\ scan'.seen = Append(s, x) /\ members' = S
  BY <1>1 DEF f, SpBody
<1>6. s \in Seq(S) /\ Append(s, x) \in Seq(S) /\ Len(s) \in Nat /\ Len(Append(s, x)) = Len(s) + 1
      /\ Append(s, x)[Len(s) + 1] = x /\ \A i \in 1..Len(s) : Append(s, x)[i] = s[i] /\ s[i] \in S
  BY <1>0, <1>3, AppendProperties, ElementOfSeq DEF Walking
<1>7. \A m \in S : (\E i \in 1..Len(s) : s[i] = m) <=> Cmp(m, x) = "left"
  BY <1>0 DEF Walking
<1>8. \A i \in 1..(Len(s) - 1) : Cmp(s[i], s[i + 1]) = "left"
  BY <1>0 DEF Walking
<1> DEFINE z == Append(s, x)
<1>9. z \in Seq(S) /\ Len(z) = Len(s) + 1 /\ z[Len(s) + 1] = x /\ \A i \in 1..Len(s) : z[i] = s[i] /\ s[i] \in S
  BY <1>6
<1> HIDE DEF z, s, x
<1>10. ASSUME NEW m \in S
       PROVE  (\E i \in 1..Len(z) : z[i] = m) <=> (m = x \/ Cmp(m, x) = "left")
  <2>1. (\E i \in 1..Len(z) : z[i] = m) <=> (m = x \/ \E i \in 1..Len(s) : s[i] = m)
    <3>1. ASSUME NEW i \in 1..Len(z) PROVE i = Len(s) + 1 \/ i \in 1..Len(s)
      BY <1>6, <1>9
    <3>2. Len(s) + 1 \in 1..Len(z) /\ \A i \in 1..Len(s) : i \in 1..Len(z)
      BY <1>6, <1>9
    <3> QED
      BY <1>9, <3>1, <3>2
  <2> QED
    BY <1>7, <2>1
<1>11. ASSUME NEW m \in S
       PROVE  (m = x \/ Cmp(m, x) = "left") <=> (f = NULL \/ Cmp(m, f) = "left")
  <2>1. CASE f = NULL
    BY <1>4, <2>1
  <2>2. CASE f # NULL
    <3>1. f \in Node /\ m \in Node /\ Cmp(x, f) = "left"
      BY <1>3, <1>4, <2>2, CmpFacts DEF Sides, Other
    <3>2. Cmp(m, x) = "left" => Cmp(m, f) = "left"
      BY <1>3, <3>1, CmpTransitive DEF Sides
    <3>3. m = f => Cmp(m, f) # "left"
      BY <3>1, CmpFacts
    <3> QED
      BY <1>4, <2>2, <3>1, <3>2, <3>3
  <2> QED
    BY <2>1, <2>2
<1>12. ASSUME NEW i \in 1..(Len(z) - 1) PROVE Cmp(z[i], z[i + 1]) = "left"
  <2>1. CASE i = Len(s)
    <3>1. i \in 1..Len(s) /\ z[i] = s[i] /\ s[i] \in S /\ z[i + 1] = x
      BY <1>6, <1>9, <2>1
    <3>2. Cmp(s[i], x) = "left"
      BY <1>7, <3>1
    <3> QED
      BY <3>1, <3>2
  <2>2. CASE i # Len(s)
    <3>1. i \in 1..(Len(s) - 1) /\ i \in 1..Len(s) /\ i + 1 \in 1..Len(s)
      BY <1>6, <1>9, <2>2
    <3> QED
      BY <1>8, <1>9, <3>1
  <2> QED
    BY <2>1, <2>2
<1>13. f \in S \cup {NULL}
  BY <1>4
<1>14. Walking'
  BY <1>5, <1>9, <1>10, <1>11, <1>12, <1>13 DEF Walking, z
<1> QED
  BY <1>1, <1>4, <1>5, <1>14 DEF SpKept

\* Every step keeps the invariant.
LEMMA SpStep == SpKept /\ [SpNext]_spVars => SpKept'
<1> SUFFICES ASSUME SpKept, [SpNext]_spVars PROVE SpKept'
  OBVIOUS
<1>1. ASSUME NEW n \in Node, SpAdd(n) PROVE SpKept'
  BY <1>1, AddStep
<1>2. ASSUME NEW n \in Node, SpDrop(n) PROVE SpKept'
  BY <1>2, DropStep
<1>3. CASE SpLookup
  BY <1>3, LookupStep
<1>4. CASE SpForeach
  BY <1>4, ForeachStep
<1>5. CASE SpBody
  BY <1>5, BodyStep
<1>6. CASE SpEndForeach
  BY <1>6 DEF SpEndForeach, SpKept
<1>7. CASE UNCHANGED spVars
  BY <1>7 DEF spVars, SpKept, Walking
<1> QED
  BY <1>1, <1>2, <1>3, <1>4, <1>5, <1>6, <1>7 DEF SpNext

\* The invariant implies what is checked of the loops.
LEMMA KeptWalk == SpKept => SpWalkComplete
<1> SUFFICES ASSUME SpKept PROVE SpWalkComplete
  OBVIOUS
<1> DEFINE s == scan.seen
           x == scan.x
<1>1. CASE scan = NoScan
  BY <1>1 DEF NoScan, SpWalkComplete
<1>2. CASE scan # NoScan
  <2>1. Walking /\ members \subseteq Node
    BY <1>2, HoldsFacts DEF SpKept
  <2>2. s \in Seq(members) /\ Len(s) \in Nat /\ \A i \in 1..Len(s) : s[i] \in members
    BY <2>1, ElementOfSeq DEF Walking
  <2>3. \A m \in members : Key[m] \in Int
    BY <2>1, TreeAssumption
  <2>4. ASSUME NEW i \in 1..(Len(s) - 1) PROVE Key[s[i]] < Key[s[i + 1]]
    <3>1. Cmp(s[i], s[i + 1]) = "left"
      BY <2>1 DEF Walking
    <3> QED
      BY <3>1 DEF Cmp
  <2>5. ASSUME NEW m \in members
        PROVE  (\E i \in 1..Len(s) : s[i] = m) \/ (x # NULL /\ Key[m] >= Key[x])
    <3>1. CASE x = NULL \/ Cmp(m, x) = "left"
      BY <2>1, <3>1 DEF Walking
    <3>2. CASE x # NULL /\ Cmp(m, x) # "left"
      <4>1. x \in members
        BY <2>1, <3>2 DEF Walking
      <4> QED
        BY <2>3, <3>2, <4>1 DEF Cmp
    <3> QED
      BY <3>1, <3>2
  <2>6. {s[i] : i \in 1..Len(s)} \cup {n \in members : x # NULL /\ Key[n] >= Key[x]} = members
    BY <2>2, <2>5
  <2> QED
    BY <2>4, <2>6 DEF SpWalkComplete
<1> QED
  BY <1>1, <1>2

\* The invariant implies the property that is checked of the tree.
LEMMA KeptTree == SpKept => SpTreeKept
<1> SUFFICES ASSUME SpKept PROVE SpTreeKept
  OBVIOUS
<1>1. SpHolds(sp, members) /\ members \subseteq Node
  BY HoldsFacts DEF SpKept
<1>2. Holds(sp, sp.root, members)
  <2>1. PICK sub : TreeOf(sp, sp.root, members, sub)
    BY <1>1 DEF SpHolds, TreeOf
  <2>2. Fields(sp.child)
    BY <1>1, SpReads DEF SpHolds
  <2> DEFINE r == sp.root
  <2>3. TreeOf(sp, r, members, sub)
    BY <2>1
  <2> HIDE DEF r
  <2>4. Holds(sp, r, members)
    BY <2>2, <2>3, TreeHolds
  <2> QED
    BY <2>4 DEF r
<1>3. \A side \in Sides : sp.child[side][Header] = NULL
  BY <1>1 DEF SpHolds
<1>4. ASSUME NEW n \in Node
      PROVE  /\ Found(sp, n) = Least(SameKey(members, n))
             /\ n \in members => SPLAY_FIND(sp, n).root = n
             /\ n \in members => Following(sp, n) = Least({m \in members : Key[m] > Key[n]})
  <2>1. Found(sp, n) = Least(SameKey(members, n)) /\ (n \in members => SPLAY_FIND(sp, n).root = n)
    BY <1>1, FindIs
  <2>2. n \in members => Following(sp, n) = Least(Above(members, n))
    BY <1>1, FollowingIs
  <2> QED
    BY <2>1, <2>2 DEF Above
<1>5. SPLAY_MIN_MAX(sp, "left").root = Least(members) /\ SPLAY_MIN_MAX(sp, "right").root = Greatest(members)
  BY <1>1, MinMaxOf
<1>6. SpWalkComplete
  BY KeptWalk
<1> QED
  BY <1>2, <1>3, <1>4, <1>5, <1>6 DEF SpTreeKept

\* The splay tree is an ordered tree of exactly the elements it was told to hold,
\* whatever is inserted, removed and looked up.
THEOREM SpTreeAlways == SpSpec => []SpTreeKept
<1>1. SpInit => SpKept
  BY SpStarts
<1>2. SpKept /\ [SpNext]_spVars => SpKept'
  BY SpStep
<1>3. SpKept => SpTreeKept
  BY KeptTree
<1> QED
  BY <1>1, <1>2, <1>3, PTL DEF SpSpec
=============================================================================
