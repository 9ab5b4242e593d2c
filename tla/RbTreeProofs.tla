---------------------------- MODULE RbTreeProofs ----------------------------
(***************************************************************************)
(* Proofs about the red-black tree of 009/include/uv/tree.h, for any set of*)
(* elements with any keys.                                                 *)
(***************************************************************************)
EXTENDS SplayTreeProofs, RbTree

-----------------------------------------------------------------------------
(* More of changes to trees                                                *)

\* Of two different elements only one is below the other.
LEMMA Antisymmetric ==
  ASSUME NEW ch, NEW r, NEW S, NEW sub, Tree(ch, r, S, sub), NEW x \in S, NEW y \in S,
         x \in sub[y], y \in sub[x]
  PROVE  x = y
<1> SUFFICES ASSUME x # y PROVE FALSE
  OBVIOUS
<1> DEFINE c == ch[Cmp(x, y)][y]
<1>1. Cmp(x, y) \in Sides /\ c \in S /\ x \in sub[c] /\ sub[x] \subseteq sub[c]
  BY Below
<1>2. c # NULL
  BY <1>1 DEF Tree
<1>3. y \notin sub[c]
  BY <1>1, <1>2, Child
<1> QED
  BY <1>1, <1>3

\* Every element but the root is the child of one.
LEMMA HasParent ==
  ASSUME NEW ch, NEW r, NEW S, NEW sub, Tree(ch, r, S, sub), NEW n \in S, n # r
  PROVE  \E x \in S, i \in Sides : ch[i][x] = n
<1> DEFINE P == {x \in S : \A m \in sub[x] : m = x \/ \E y \in S, i \in Sides : ch[i][y] = m}
<1>1. ASSUME NEW x \in S, \A i \in Sides : ch[i][x] = NULL \/ ch[i][x] \in P
      PROVE  x \in P
  <2> SUFFICES ASSUME NEW m \in sub[x], m # x PROVE \E y \in S, i \in Sides : ch[i][y] = m
    OBVIOUS
  <2> DEFINE c == ch[Cmp(m, x)][x]
  <2>1. Cmp(m, x) \in Sides /\ c \in S /\ m \in sub[c]
    BY Below
  <2>2. c \in P
    BY <1>1, <2>1 DEF Tree
  <2>3. m = c \/ \E y \in S, i \in Sides : ch[i][y] = m
    BY <2>1, <2>2
  <2> QED
    BY <2>1, <2>3
<1>2. S \subseteq P
  <2> HIDE DEF P
  <2> QED
    BY <1>1, TreeInduction
<1>3. r \in S /\ n \in sub[r]
  BY DEF Tree
<1> QED
  BY <1>2, <1>3

\* What is not below n has all that is below n on one side.
LEMMA Convex ==
  ASSUME NEW ch, NEW r, NEW S, NEW sub, Tree(ch, r, S, sub), NEW n \in S, NEW m \in S,
         m \notin sub[n], NEW a \in sub[n]
  PROVE  Cmp(m, a) = Cmp(m, n) /\ Cmp(a, m) = Cmp(n, m)
<1> DEFINE P == {x \in S : \A u, v, w \in sub[x] : v \notin sub[u] /\ w \in sub[u] => Cmp(v, w) = Cmp(v, u)}
<1>1. ASSUME NEW x \in S, \A i \in Sides : ch[i][x] = NULL \/ ch[i][x] \in P
      PROVE  x \in P
  <2> SUFFICES ASSUME NEW u \in sub[x], NEW v \in sub[x], NEW w \in sub[x], v \notin sub[u], w \in sub[u]
               PROVE  Cmp(v, w) = Cmp(v, u)
    OBVIOUS
  <2>1. u # x /\ x \in Node /\ u \in S /\ v \in S /\ w \in S /\ u \in Node /\ v \in Node /\ w \in Node
    BY DEF Tree
  <2> DEFINE i == Cmp(u, x)
             c == ch[i][x]
  <2>2. i \in Sides /\ c \in S /\ u \in sub[c] /\ w \in sub[c]
    BY <2>1, Below
  <2>3. Cmp(w, x) = i
    BY <2>1, <2>2 DEF Tree
  <2>4. Cmp(x, w) = Other(i) /\ Cmp(x, u) = Other(i) /\ Other(i) \in Sides
    BY <2>1, <2>2, <2>3, CmpFacts, SideFacts
  <2>5. CASE v \in sub[c]
    <3>1. c \in P
      BY <1>1, <2>2 DEF Tree
    <3> QED
      BY <2>2, <2>5, <3>1
  <2>6. CASE v \notin sub[c]
    <3>1. v = x \/ Cmp(v, x) = Other(i)
      <4>1. Cmp(v, x) # i
        BY <2>1, <2>2, <2>6 DEF Tree
      <4>2. Cmp(v, x) = "here" => v = x
        BY <2>1 DEF Tree
      <4> QED
        BY <2>1, <2>2, <4>1, <4>2, CmpFacts, SideFacts
    <3>2. CASE v = x
      BY <2>4, <3>2
    <3>3. CASE Cmp(v, x) = Other(i)
      <4> HIDE DEF i
      <4>1. Cmp(v, w) = Other(i) /\ Cmp(v, u) = Other(i)
        BY <2>1, <2>4, <3>3, CmpTransitive
      <4> QED
        BY <4>1
    <3> QED
      BY <3>1, <3>2, <3>3
  <2> QED
    BY <2>5, <2>6
<1>2. S \subseteq P
  <2> HIDE DEF P
  <2> QED
    BY <1>1, TreeInduction
<1>3. r \in S /\ n \in sub[r] /\ m \in sub[r] /\ a \in sub[r] /\ n \in Node /\ m \in Node /\ a \in Node
  BY DEF Tree
<1>4. Cmp(m, a) = Cmp(m, n)
  BY <1>2, <1>3
<1>5. Cmp(a, m) = Cmp(n, m)
  <2>1. CASE Cmp(m, n) = "here"
    BY <1>3, <1>4, <2>1, CmpFacts
  <2>2. CASE Cmp(m, n) # "here"
    BY <1>3, <1>4, <2>2, CmpFacts, SideFacts
  <2> QED
    BY <2>1, <2>2
<1> QED
  BY <1>4, <1>5

\* The subtrees without n.
Without(sub, n) == [x \in NodeOrNull |-> sub[x] \ {n}]

\* n, which has no child on one side, is taken out and its other child takes its place.
\* The only child c of n, if it has one, has taken the place of n.
Splices(ch, r, S, n, side, c, new, top) ==
  /\ ch[side][n] = NULL /\ c = ch[Other(side)][n] /\ top = (IF r = n THEN c ELSE r)
  /\ \A x \in S \ {n}, i \in Sides : new[i][x] = IF ch[i][x] = n THEN c ELSE ch[i][x]

\* A tree without an element that had at most one child is a tree.
LEMMA Spliced ==
  ASSUME NEW ch, NEW r, NEW S, NEW sub, Tree(ch, r, S, sub), NEW n \in S, NEW side \in Sides,
         NEW c, NEW new, NEW top, Splices(ch, r, S, n, side, c, new, top)
  PROVE  Tree(new, top, S \ {n}, Without(sub, n))
<1> USE DEF Splices
<1> DEFINE far == Other(side)
           T == S \ {n}
           sub1 == Without(sub, n)
<1>1. n \in Node /\ S \subseteq Node /\ n # NULL /\ far \in Sides /\ far # side /\ (\A i \in Sides : i = side \/ i = far)
      /\ S \subseteq NodeOrNull /\ NULL \in NodeOrNull /\ sub[NULL] = {}
  BY SideFacts, NotNull DEF Tree, NodeOrNull
<1>2. \A x \in S \cup {NULL} : sub1[x] = sub[x] \ {n}
  BY <1>1 DEF Without
<1> HIDE DEF sub1
<1>3. c \in S \cup {NULL} /\ c # n
  <2>1. c \in S \cup {NULL}
    BY <1>1 DEF Tree
  <2> QED
    BY <1>1, <2>1, Child
<1>4. sub[n] \ {n} = sub[c] /\ n \notin sub[c]
  <2>1. \A m \in S : m \in sub[c] <=> m \in sub[n] /\ Cmp(m, n) = far
    BY <1>1 DEF Tree
  <2>2. \A m \in S : ~(m \in sub[n] /\ Cmp(m, n) = side)
    BY <1>1 DEF Tree
  <2>3. \A m \in S : m \in sub[n] => m = n \/ Cmp(m, n) = far
    BY <1>1, <2>2, CmpFacts DEF Tree
  <2>4. sub[c] \subseteq S /\ sub[n] \subseteq S
    BY <1>1, <1>3 DEF Tree
  <2>5. n \notin sub[c]
    BY <1>1, <2>1, CmpFacts, SideFacts
  <2> QED
    BY <2>1, <2>3, <2>4, <2>5
<1>5. sub1[c] = sub[n] \ {n}
  BY <1>2, <1>3, <1>4
<1>6. ASSUME NEW x \in T PROVE x \in sub1[x] /\ sub1[x] \subseteq T
  BY <1>2 DEF Tree
<1>7. ASSUME NEW x \in T, NEW i \in Sides
      PROVE  /\ new[i][x] \in T \cup {NULL}
             /\ \A m \in T : m \in sub1[new[i][x]] <=> m \in sub1[x] /\ Cmp(m, x) = i
  <2>1. \A m \in S : m \in sub[ch[i][x]] <=> m \in sub[x] /\ Cmp(m, x) = i
    BY DEF Tree
  <2>2. ch[i][x] \in S \cup {NULL} /\ sub1[x] = sub[x] \ {n}
    BY <1>2 DEF Tree
  <2>3. sub1[new[i][x]] = sub[ch[i][x]] \ {n} /\ new[i][x] \in T \cup {NULL}
    BY <1>2, <1>3, <1>5, <2>2
  <2> QED
    BY <2>1, <2>2, <2>3
<1>8. \A a, b \in T : Cmp(a, b) = "here" => a = b
  BY DEF Tree
<1> DEFINE r1 == IF r = n THEN c ELSE r
<1>9. r1 \in T \cup {NULL} /\ sub1[r1] = T
  <2>1. r \in S \cup {NULL} /\ sub[r] = S
    BY DEF Tree
  <2> QED
    BY <1>2, <1>3, <1>5, <2>1
<1>10. sub1[NULL] = {} /\ T \subseteq Node
  BY <1>1, <1>2
<1> HIDE DEF r1, T
<1>11. Tree(new, r1, T, sub1)
  BY <1>6, <1>7, <1>8, <1>9, <1>10 DEF Tree
<1> QED
  BY <1>11 DEF r1, T, sub1

\* The subtrees after n has taken the place of old.
Moved(sub, old, n) ==
  [x \in NodeOrNull |-> IF x = n THEN (sub[old] \ {old}) \cup {n}
                        ELSE IF old \in sub[x] THEN (sub[x] \ {old}) \cup {n} ELSE sub[x]]

\* A new element n takes the place of old; the others are on the same side of both.
Renames(ch, r, S, old, n, new, top) ==
  /\ n \in Node /\ n \notin S /\ top = (IF r = old THEN n ELSE r)
  /\ \A m \in S \ {old} : Cmp(m, n) = Cmp(m, old) /\ Cmp(n, m) = Cmp(old, m)
  /\ \A i \in Sides : new[i][n] = ch[i][old]
  /\ \A x \in S \ {old}, i \in Sides : new[i][x] = IF ch[i][x] = old THEN n ELSE ch[i][x]

\* A tree in which a new element has taken the place of an old one is a tree.
LEMMA Renamed ==
  ASSUME NEW ch, NEW r, NEW S, NEW sub, Tree(ch, r, S, sub), NEW old \in S, NEW n, NEW new, NEW top,
         Renames(ch, r, S, old, n, new, top)
  PROVE  Tree(new, top, (S \ {old}) \cup {n}, Moved(sub, old, n))
<1> USE DEF Renames
<1> DEFINE T == (S \ {old}) \cup {n}
           sub1 == Moved(sub, old, n)
           In(X) == IF old \in X THEN (X \ {old}) \cup {n} ELSE X
<1>1. S \subseteq Node /\ old \in Node /\ old # NULL /\ n # NULL /\ n # old /\ S \subseteq NodeOrNull
      /\ NULL \in NodeOrNull /\ n \in NodeOrNull /\ sub[NULL] = {} /\ old \in sub[old]
  BY NotNull DEF Tree, NodeOrNull
<1>2. (\A x \in (S \ {old}) \cup {NULL} : sub1[x] = In(sub[x])) /\ sub1[n] = In(sub[old])
  <2>1. \A x \in NodeOrNull : sub1[x] = IF x = n THEN (sub[old] \ {old}) \cup {n}
                        ELSE IF old \in sub[x] THEN (sub[x] \ {old}) \cup {n} ELSE sub[x]
    BY DEF Moved
  <2> HIDE DEF sub1
  <2> QED
    BY <1>1, <2>1
<1> HIDE DEF sub1
<1>3. \A x \in S : x \in sub[x] /\ sub[x] \subseteq S
  BY DEF Tree
<1>4. \A x \in T : x \in sub1[x] /\ sub1[x] \subseteq T
  BY <1>1, <1>2, <1>3
<1>5. ASSUME NEW x \in S, NEW i \in Sides, NEW z, z = (IF x = old THEN n ELSE x)
      PROVE  /\ new[i][z] \in T \cup {NULL}
             /\ \A m \in T : m \in sub1[new[i][z]] <=> m \in sub1[z] /\ Cmp(m, z) = i
  <2>1. \A m \in S : m \in sub[ch[i][x]] <=> m \in sub[x] /\ Cmp(m, x) = i
    BY DEF Tree
  <2>2. ch[i][x] \in S \cup {NULL}
    BY DEF Tree
  <2>3. ch[i][x] # x
    <3>1. x # NULL
      BY <1>1, NotNull
    <3> QED
      BY <2>2, <3>1, Child
  <2>4. new[i][z] = IF ch[i][x] = old THEN n ELSE ch[i][x]
    BY <1>5, <2>3
  <2>5. new[i][z] \in T \cup {NULL} /\ sub1[new[i][z]] = In(sub[ch[i][x]]) /\ sub1[z] = In(sub[x])
    <3> DEFINE y == ch[i][x]
               nz == new[i][z]
    <3>1. sub1[z] = In(sub[x])
      BY <1>2, <1>5
    <3>2. y \in S \cup {NULL} /\ nz = IF y = old THEN n ELSE y
      BY <2>2, <2>4
    <3> HIDE DEF y, nz
    <3>3. nz \in T \cup {NULL}
      BY <1>1, <3>2
    <3>4. sub1[nz] = In(sub[y])
      BY <1>2, <3>2
    <3> QED
      BY <3>1, <3>3, <3>4 DEF y, nz
  <2>6. sub[ch[i][x]] \subseteq S /\ sub[x] \subseteq S /\ x \in sub[x]
    BY <1>1, <1>3, <2>2
  <2>7. ASSUME NEW m \in S, m # old
        PROVE  m \in sub1[new[i][z]] <=> m \in sub1[z] /\ Cmp(m, z) = i
    <3>1. Cmp(m, z) = Cmp(m, x)
      BY <1>5, <2>7
    <3>2. (m \in In(sub[ch[i][x]]) <=> m \in sub[ch[i][x]]) /\ (m \in In(sub[x]) <=> m \in sub[x])
      BY <2>7
    <3> QED
      BY <2>1, <2>5, <2>7, <3>1, <3>2
  <2>8. n \in sub1[new[i][z]] <=> n \in sub1[z] /\ Cmp(n, z) = i
    <3>1. (n \in In(sub[ch[i][x]]) <=> old \in sub[ch[i][x]]) /\ (n \in In(sub[x]) <=> old \in sub[x])
      BY <2>6
    <3>2. CASE x = old
      <4>1. Cmp(n, n) = "here" /\ Cmp(old, old) = "here" /\ "here" # i
        BY <1>1, CmpFacts, SideFacts
      <4> QED
        BY <1>5, <2>1, <2>5, <3>1, <3>2, <4>1
    <3>3. CASE x # old
      <4>1. Cmp(n, z) = Cmp(old, x)
        BY <1>5, <3>3
      <4> QED
        BY <2>1, <2>5, <3>1, <4>1
    <3> QED
      BY <3>2, <3>3
  <2> QED
    BY <2>5, <2>7, <2>8
<1>6. ASSUME NEW x \in T, NEW i \in Sides
      PROVE  /\ new[i][x] \in T \cup {NULL}
             /\ \A m \in T : m \in sub1[new[i][x]] <=> m \in sub1[x] /\ Cmp(m, x) = i
  <2>1. CASE x = n
    BY <1>1, <1>5, <2>1
  <2>2. CASE x # n
    BY <1>5, <2>2
  <2> QED
    BY <2>1, <2>2
<1>7. ASSUME NEW a \in T, NEW b \in T, Cmp(a, b) = "here" PROVE a = b
  <2>1. \A x, y \in S : Cmp(x, y) = "here" => x = y
    BY DEF Tree
  <2>2. CASE a = n /\ b # n
    BY <1>7, <2>1, <2>2
  <2>3. CASE b = n /\ a # n
    BY <1>7, <2>1, <2>3
  <2> QED
    BY <1>7, <2>1, <2>2, <2>3
<1> DEFINE r1 == IF r = old THEN n ELSE r
<1>8. r1 \in T \cup {NULL} /\ sub1[r1] = T
  <2>1. r \in S /\ sub[r] = S
    BY DEF Tree
  <2> QED
    BY <1>1, <1>2, <2>1
<1>9. sub1[NULL] = {} /\ T \subseteq Node
  BY <1>1, <1>2
<1> HIDE DEF r1, T
<1>10. Tree(new, r1, T, sub1)
  BY <1>4, <1>6, <1>7, <1>8, <1>9 DEF Tree
<1> QED
  BY <1>10 DEF r1, T, sub1

-----------------------------------------------------------------------------
(* The memory of a red-black tree                                          *)

\* What the fields refer to.
LEMMA RbReads ==
  ASSUME NEW t \in RbMemory
  PROVE  /\ t.root \in NodeOrNull /\ Fields(t.child)
         /\ \A n \in Node : t.parent[n] \in NodeOrNull /\ t.color[n] \in {"red", "black"}
         /\ \A i \in Sides, n \in Node : t.child[i][n] \in NodeOrNull
  BY DEF RbMemory, Fields

\* v is t but for one field.
RootSet(t, m, v) ==
  /\ v \in RbMemory /\ v.root = m /\ v.child = t.child /\ v.parent = t.parent /\ v.color = t.color

\* v is t but for the child field of n on a side.
ChildSet(t, side, n, m, v) ==
  /\ v \in RbMemory /\ v.root = t.root /\ v.parent = t.parent /\ v.color = t.color
  /\ \A i \in Sides, x \in Node : v.child[i][x] = IF i = side /\ x = n THEN m ELSE t.child[i][x]

\* v is t but for the parent field of n, if n is an element.
ParentSet(t, n, p, v) ==
  /\ v \in RbMemory /\ v.root = t.root /\ v.child = t.child /\ v.color = t.color
  /\ \A x \in Node : v.parent[x] = IF x = n THEN p ELSE t.parent[x]

\* v is t but for the colour of n, if n is an element.
Painted(t, n, c, v) ==
  /\ v \in RbMemory /\ v.root = t.root /\ v.child = t.child /\ v.parent = t.parent
  /\ \A x \in Node : v.color[x] = IF x = n THEN c ELSE t.color[x]

\* What an assignment to the root changes.
LEMMA RbRoot ==
  ASSUME NEW t \in RbMemory, NEW m \in NodeOrNull
  PROVE  RootSet(t, m, SetRoot(t, m))
  BY DEF RootSet, SetRoot, RbMemory

\* What an assignment to a child field changes.
LEMMA RbChild ==
  ASSUME NEW t \in RbMemory, NEW side \in Sides, NEW n \in Node, NEW m \in NodeOrNull
  PROVE  ChildSet(t, side, n, m, SetChild(t, side, n, m))
  BY DEF ChildSet, SetChild, RbMemory

\* What an assignment to a parent field changes.
LEMMA RbParent ==
  ASSUME NEW t \in RbMemory, NEW n \in NodeOrNull, NEW p \in NodeOrNull
  PROVE  ParentSet(t, n, p, SetParent(t, n, p))
<1>1. CASE n = NULL
  BY <1>1, NotNull DEF ParentSet, SetParent
<1>2. CASE n # NULL
  BY <1>2 DEF ParentSet, SetParent, RbMemory, NodeOrNull
<1> QED
  BY <1>1, <1>2

\* What an assignment to a colour changes.
LEMMA RbPaint ==
  ASSUME NEW t \in RbMemory, NEW n \in NodeOrNull, NEW c \in {"red", "black"}
  PROVE  Painted(t, n, c, Paint(t, n, c))
<1>1. CASE n = NULL
  BY <1>1, NotNull DEF Painted, Paint
<1>2. CASE n # NULL
  BY <1>2 DEF Painted, Paint, RbMemory, NodeOrNull
<1> QED
  BY <1>1, <1>2

-----------------------------------------------------------------------------
(* Trees with parents                                                      *)

\* t holds the elements in S, and its parent fields agree with its child fields.
Shape(t, S, sub) ==
  /\ t \in RbMemory /\ Tree(t.child, t.root, S, sub)
  /\ \A n \in S, i \in Sides : t.child[i][n] # NULL => t.parent[t.child[i][n]] = n
  /\ t.root # NULL => t.parent[t.root] = NULL

\* What the shape gives in a form without the record.
LEMMA ShapeIs ==
  ASSUME NEW t, NEW S, NEW sub, Shape(t, S, sub)
  PROVE  /\ t \in RbMemory /\ Tree(t.child, t.root, S, sub) /\ S \subseteq Node
         /\ t.root \in S \cup {NULL} /\ sub[t.root] = S /\ sub[NULL] = {}
         /\ \A n \in S, i \in Sides : t.child[i][n] \in S \cup {NULL}
         /\ S # {} => t.root \in S
<1>1. t \in RbMemory /\ Tree(t.child, t.root, S, sub)
  BY DEF Shape
<1> DEFINE r == t.root
           ch == t.child
<1>2. Tree(ch, r, S, sub)
  BY <1>1
<1> HIDE DEF r, ch
<1>3. /\ S \subseteq Node /\ r \in S \cup {NULL} /\ sub[r] = S /\ sub[NULL] = {}
      /\ \A n \in S, i \in Sides : ch[i][n] \in S \cup {NULL}
  BY <1>2 DEF Tree
<1> QED
  BY <1>1, <1>3 DEF r, ch

\* The place of n: it is the root, or one child field of its parent refers to it.
LEMMA Place ==
  ASSUME NEW t, NEW S, NEW sub, Shape(t, S, sub), NEW n \in S
  PROVE  /\ n = t.root => t.parent[n] = NULL
         /\ \A x \in S, i \in Sides : t.child[i][x] # t.root
         /\ n # t.root =>
              /\ t.parent[n] \in S /\ t.parent[n] # n /\ t.parent[n] # NULL
              /\ \E i \in Sides : t.child[i][t.parent[n]] = n /\ t.child[Other(i)][t.parent[n]] # n
         /\ \A x \in S, i \in Sides : t.child[i][x] = n => x = t.parent[n]
<1> DEFINE ch == t.child
           r == t.root
           par == t.parent
<1>1. /\ Tree(ch, r, S, sub) /\ (r # NULL => par[r] = NULL)
      /\ \A x \in S, i \in Sides : ch[i][x] # NULL => par[ch[i][x]] = x
  BY DEF Shape
<1> HIDE DEF ch, r, par
<1>2. n # NULL /\ n \in Node /\ S \subseteq Node
  BY <1>1, NotNull DEF Tree
<1>3. \A x \in S, i \in Sides : ch[i][x] # r
  BY <1>1, RootAbove
<1>4. \A x \in S, i \in Sides : ch[i][x] = n => x = par[n]
  BY <1>1, <1>2
<1>5. ASSUME n # r
      PROVE  /\ par[n] \in S /\ par[n] # n /\ par[n] # NULL
             /\ \E i \in Sides : ch[i][par[n]] = n /\ ch[Other(i)][par[n]] # n
  <2>1. PICK x \in S, i \in Sides : ch[i][x] = n
    BY <1>1, <1>5, HasParent
  <2>2. par[n] = x /\ x # NULL
    BY <1>2, <1>4, <2>1, NotNull
  <2>3. n # x
    BY <1>1, <1>2, <2>1, Child
  <2>4. ch[Other(i)][x] # n
    BY <1>1, <1>2, <2>1, OneParent, SideFacts
  <2> QED
    BY <2>1, <2>2, <2>3, <2>4
<1> QED
  BY <1>1, <1>2, <1>3, <1>4, <1>5 DEF ch, r, par

\* In w, a tree that is changing, what refers to old in t comes to refer to new.
Relinks(w, t, S, old, new, v) ==
  /\ v \in RbMemory /\ v.parent = w.parent /\ v.color = w.color
  /\ v.root = IF t.root = old THEN new ELSE w.root
  /\ \A i \in Sides, x \in Node :
       v.child[i][x] = IF x \in S /\ t.child[i][x] = old THEN new ELSE w.child[i][x]

\* The child field or the root that referred to the old element is set to the new.
LEMMA ReplaceIs ==
  ASSUME NEW t, NEW S, NEW sub, Shape(t, S, sub), NEW old \in S, NEW new \in NodeOrNull,
         NEW w \in RbMemory, NEW p, p = t.parent[old],
         p # NULL => \A i \in Sides : w.child[i][p] = t.child[i][p]
  PROVE  Relinks(w, t, S, old, new, Replace(w, p, old, new))
<1> DEFINE ch == t.child
           r == t.root
           v == Replace(w, p, old, new)
<1>1. /\ old = r => p = NULL
      /\ \A x \in S, i \in Sides : ch[i][x] # r
      /\ old # r => p \in S /\ p # NULL /\ \E i \in Sides : ch[i][p] = old /\ ch[Other(i)][p] # old
      /\ \A x \in S, i \in Sides : ch[i][x] = old => x = p
  BY Place
<1>2. S \subseteq Node
  BY ShapeIs
<1>3. p # NULL => \A i \in Sides : w.child[i][p] = ch[i][p]
  OBVIOUS
<1> HIDE DEF ch, r
<1>4. CASE old = r
  <2>1. v = SetRoot(w, new)
    BY <1>1, <1>4 DEF Replace
  <2>2. v \in RbMemory /\ v.root = new /\ v.child = w.child /\ v.parent = w.parent /\ v.color = w.color
    BY <2>1, RbRoot DEF RootSet
  <2> HIDE DEF v
  <2>3. \A x \in S, i \in Sides : ch[i][x] # old
    BY <1>1, <1>4
  <2>4. \A i \in Sides, x \in Node : v.child[i][x] = IF x \in S /\ ch[i][x] = old THEN new ELSE w.child[i][x]
    BY <2>2, <2>3
  <2> QED
    BY <1>4, <2>2, <2>4 DEF Relinks, ch, r, v
<1>5. CASE old # r
  <2>1. PICK d \in Sides : ch[d][p] = old /\ ch[Other(d)][p] # old
    BY <1>1, <1>5
  <2>2. p \in S /\ p # NULL /\ p \in Node
    BY <1>1, <1>2, <1>5
  <2>3. v = SetChild(w, IF w.child["left"][p] = old THEN "left" ELSE "right", p, new)
    BY <2>2 DEF Replace
  <2>4. (IF w.child["left"][p] = old THEN "left" ELSE "right") = d
    BY <1>3, <2>1, <2>2 DEF Sides, Other
  <2>5. v = SetChild(w, d, p, new)
    BY <2>3, <2>4
  <2>6. /\ v \in RbMemory /\ v.root = w.root /\ v.parent = w.parent /\ v.color = w.color
        /\ \A i \in Sides, x \in Node : v.child[i][x] = IF i = d /\ x = p THEN new ELSE w.child[i][x]
    BY <2>2, <2>5, RbChild DEF ChildSet
  <2> HIDE DEF v
  <2>7. \A i \in Sides, x \in Node : (x \in S /\ ch[i][x] = old) <=> (i = d /\ x = p)
    <3> SUFFICES ASSUME NEW i \in Sides, NEW x \in Node
                 PROVE  (x \in S /\ ch[i][x] = old) <=> (i = d /\ x = p)
      OBVIOUS
    <3>1. i = d \/ i = Other(d)
      BY SideFacts
    <3> QED
      BY <1>1, <2>1, <2>2, <3>1
  <2>8. \A i \in Sides, x \in Node : v.child[i][x] = IF x \in S /\ ch[i][x] = old THEN new ELSE w.child[i][x]
    BY <2>6, <2>7
  <2> QED
    BY <1>5, <2>6, <2>8 DEF Relinks, ch, r, v
<1> QED
  BY <1>4, <1>5

\* v is t after the child c of n on the far side has taken the place of n.
Turns(t, S, side, n, c, v) ==
  /\ v \in RbMemory /\ v.root = IF t.root = n THEN c ELSE t.root
  /\ v.child[Other(side)][n] = t.child[side][c] /\ v.child[side][c] = n
  /\ v.child[Other(side)][c] = t.child[Other(side)][c] /\ v.child[side][n] = t.child[side][n]
  /\ \A x \in S \ {n, c}, i \in Sides :
       v.child[i][x] = IF t.child[i][x] = n THEN c ELSE t.child[i][x]
  /\ v.parent[n] = c /\ v.parent[c] = t.parent[n]
  /\ \A x \in S \ {n, c} : v.parent[x] = IF x = t.child[side][c] THEN n ELSE t.parent[x]

\* RB_ROTATE_LEFT and RB_ROTATE_RIGHT are rotations, and keep the colours.
LEMMA RotateTurns ==
  ASSUME NEW t, NEW S, NEW sub, Shape(t, S, sub), NEW n \in S, NEW side \in Sides,
         NEW c, c = t.child[Other(side)][n], c # NULL
  PROVE  Turns(t, S, side, n, c, RB_ROTATE(t, side, n)) /\ RB_ROTATE(t, side, n).color = t.color
<1> DEFINE far == Other(side)
           ch == t.child
           inner == ch[side][c]
           p == t.parent[n]
           a == SetChild(t, far, n, inner)
           b == SetParent(a, inner, n)
           m == SetParent(b, c, p)
           up == Replace(m, p, n, c)
           e == SetChild(up, side, c, n)
           v == SetParent(e, n, c)
<1>1. RB_ROTATE(t, side, n) = v
  BY DEF RB_ROTATE
<1>2. t \in RbMemory /\ Tree(ch, t.root, S, sub) /\ S \subseteq Node
  BY ShapeIs
<1>3. far \in Sides /\ far # side /\ \A i \in Sides : i = side \/ i = far
  BY SideFacts
<1>4. c \in S /\ c # n /\ n \notin sub[c] /\ c \in Node /\ n \in Node
  <2> DEFINE r == t.root
  <2>1. Tree(ch, r, S, sub)
    BY <1>2
  <2>2. c = ch[far][n]
    OBVIOUS
  <2> HIDE DEF r, ch, far
  <2>3. c \in S /\ c # n /\ n \notin sub[c]
    BY <1>3, <2>1, <2>2, Child
  <2> QED
    BY <1>2, <2>3
<1>5. inner \in NodeOrNull /\ inner # n /\ inner # c /\ n \in NodeOrNull /\ c \in NodeOrNull /\ p \in NodeOrNull
  <2>1. inner \in NodeOrNull /\ p \in NodeOrNull
    BY <1>2, <1>4, RbReads
  <2>2. inner # NULL => inner \in sub[c] /\ inner # c
    <3> DEFINE r == t.root
    <3>1. Tree(ch, r, S, sub)
      BY <1>2
    <3>2. inner = ch[side][c]
      OBVIOUS
    <3> HIDE DEF r, ch, inner
    <3> QED
      BY <1>4, <3>1, <3>2, Child
  <2>3. n \in NodeOrNull /\ c \in NodeOrNull
    BY <1>4 DEF NodeOrNull
  <2> QED
    BY <1>4, <2>1, <2>2, <2>3, NotNull
<1>6. p # NULL => p # n /\ p \in S
  BY Place
<1> HIDE DEF inner, p, far
<1>7. /\ a \in RbMemory /\ a.root = t.root /\ a.parent = t.parent /\ a.color = t.color
      /\ \A i \in Sides, x \in Node : a.child[i][x] = IF i = far /\ x = n THEN inner ELSE ch[i][x]
  BY <1>2, <1>3, <1>4, <1>5, RbChild DEF ChildSet
<1> HIDE DEF a
<1>8. /\ b \in RbMemory /\ b.root = t.root /\ b.child = a.child /\ b.color = t.color
      /\ \A x \in Node : b.parent[x] = IF x = inner THEN n ELSE t.parent[x]
  <2>1. a \in RbMemory /\ inner \in NodeOrNull /\ n \in NodeOrNull
    BY <1>4, <1>5, <1>7
  <2>2. ParentSet(a, inner, n, SetParent(a, inner, n))
    BY <2>1, RbParent
  <2> QED
    BY <1>7, <2>2 DEF ParentSet
<1> HIDE DEF b
<1>9. /\ m \in RbMemory /\ m.root = t.root /\ m.child = a.child /\ m.color = t.color
      /\ \A x \in Node : m.parent[x] = IF x = c THEN p ELSE b.parent[x]
  <2>1. b \in RbMemory /\ c \in NodeOrNull /\ p \in NodeOrNull
    BY <1>4, <1>5, <1>8
  <2>2. ParentSet(b, c, p, SetParent(b, c, p))
    BY <2>1, RbParent
  <2> QED
    BY <1>8, <2>2 DEF ParentSet
<1> HIDE DEF m
<1>10. Relinks(m, t, S, n, c, up)
  <2>1. p # NULL => \A i \in Sides : m.child[i][p] = ch[i][p]
    BY <1>2, <1>6, <1>7, <1>9
  <2> HIDE DEF up
  <2>2. up = Replace(m, p, n, c) /\ p = t.parent[n] /\ m \in RbMemory
    BY <1>9 DEF up, p
  <2> QED
    BY <1>5, <2>1, <2>2, ReplaceIs
<1> HIDE DEF up
<1>11. /\ up \in RbMemory /\ up.root = (IF t.root = n THEN c ELSE t.root)
       /\ up.parent = m.parent /\ up.color = t.color
       /\ \A i \in Sides, x \in Node : up.child[i][x] = IF x \in S /\ ch[i][x] = n THEN c ELSE a.child[i][x]
  BY <1>9, <1>10 DEF Relinks
<1>12. /\ e \in RbMemory /\ e.root = up.root /\ e.parent = m.parent /\ e.color = t.color
       /\ \A i \in Sides, x \in Node : e.child[i][x] = IF i = side /\ x = c THEN n ELSE up.child[i][x]
  <2>1. up \in RbMemory /\ c \in Node /\ n \in NodeOrNull
    BY <1>4, <1>5, <1>11
  <2>2. ChildSet(up, side, c, n, SetChild(up, side, c, n))
    BY <2>1, RbChild
  <2> QED
    BY <1>11, <2>2 DEF ChildSet
<1> HIDE DEF e
<1>13. /\ v \in RbMemory /\ v.root = up.root /\ v.child = e.child /\ v.color = t.color
       /\ \A x \in Node : v.parent[x] = IF x = n THEN c ELSE m.parent[x]
  <2>1. e \in RbMemory /\ n \in NodeOrNull /\ c \in NodeOrNull
    BY <1>4, <1>5, <1>12
  <2>2. ParentSet(e, n, c, SetParent(e, n, c))
    BY <2>1, RbParent
  <2> QED
    BY <1>12, <2>2 DEF ParentSet
<1> HIDE DEF v
<1>14. \A i \in Sides : ch[i][n] # n /\ ch[i][c] # n
  <2> DEFINE r == t.root
  <2>1. Tree(ch, r, S, sub)
    BY <1>2
  <2> HIDE DEF r, ch
  <2>2. \A i \in Sides : ch[i][n] # NULL => ch[i][n] # n
    BY <2>1, Child
  <2>3. \A i \in Sides : ch[i][c] # NULL => ch[i][c] \in sub[c]
    BY <1>4, <2>1, Child
  <2> QED
    BY <1>4, <2>2, <2>3, NotNull
<1>15. \A i \in Sides, x \in Node :
          v.child[i][x] = IF i = side /\ x = c THEN n
                          ELSE IF x \in S /\ ch[i][x] = n THEN c
                          ELSE IF i = far /\ x = n THEN inner ELSE ch[i][x]
  BY <1>7, <1>11, <1>12, <1>13
<1>16. \A x \in Node :
          v.parent[x] = IF x = n THEN c ELSE IF x = c THEN p ELSE IF x = inner THEN n ELSE t.parent[x]
  BY <1>8, <1>9, <1>13
<1>17. /\ v.child[far][n] = inner /\ v.child[side][c] = n
       /\ v.child[far][c] = ch[far][c] /\ v.child[side][n] = ch[side][n]
  BY <1>3, <1>4, <1>14, <1>15
<1>18. \A x \in S \ {n, c}, i \in Sides : v.child[i][x] = IF ch[i][x] = n THEN c ELSE ch[i][x]
  BY <1>2, <1>15
<1>19. v.parent[n] = c /\ v.parent[c] = p /\ \A x \in S \ {n, c} : v.parent[x] = IF x = inner THEN n ELSE t.parent[x]
  BY <1>2, <1>4, <1>5, <1>16
<1> QED
  BY <1>1, <1>11, <1>13, <1>17, <1>18, <1>19 DEF Turns, inner, p, far

\* A rotation keeps the elements, and the parent fields right.
LEMMA TurnsShape ==
  ASSUME NEW t, NEW S, NEW sub, Shape(t, S, sub), NEW n \in S, NEW side \in Sides,
         NEW c, c = t.child[Other(side)][n], c # NULL, NEW v, Turns(t, S, side, n, c, v)
  PROVE  Shape(v, S, Turned(sub, n, c, Other(side)))
<1> DEFINE far == Other(side)
           ch == t.child
           new == v.child
           r == t.root
           par == t.parent
           inner == ch[side][c]
<1>1. /\ Tree(ch, r, S, sub) /\ (r # NULL => par[r] = NULL)
      /\ \A x \in S, i \in Sides : ch[i][x] # NULL => par[ch[i][x]] = x
  BY DEF Shape
<1>2. far \in Sides /\ far # side /\ Other(far) = side /\ \A i \in Sides : i = side \/ i = far
  BY SideFacts
<1>3. /\ new[far][n] = inner /\ new[side][c] = n /\ new[far][c] = ch[far][c] /\ new[side][n] = ch[side][n]
      /\ \A x \in S \ {n, c}, i \in Sides : new[i][x] = IF ch[i][x] = n THEN c ELSE ch[i][x]
      /\ v.root = (IF r = n THEN c ELSE r) /\ v \in RbMemory
      /\ v.parent[n] = c /\ v.parent[c] = par[n]
      /\ \A x \in S \ {n, c} : v.parent[x] = IF x = inner THEN n ELSE par[x]
  BY DEF Turns
<1>4. c = ch[far][n]
  OBVIOUS
<1> HIDE DEF far, ch, new, r, par
<1>5. c \in S /\ c # n /\ n \notin sub[c] /\ c \in Node /\ S \subseteq Node
  <2>1. c \in S /\ c # n /\ n \notin sub[c] /\ c \in Node
    BY <1>1, <1>2, <1>4, Child
  <2> QED
    BY <1>1, <2>1 DEF Tree
<1>6. Tree(new, IF r = n THEN c ELSE r, S, Turned(sub, n, c, far))
  <2>1. new[far][n] = ch[Other(far)][c] /\ new[Other(far)][c] = n
        /\ new[far][c] = ch[far][c] /\ new[Other(far)][n] = ch[Other(far)][n]
    BY <1>2, <1>3
  <2>2. \A x \in S \ {n, c}, i \in Sides : new[i][x] = IF ch[i][x] = n THEN c ELSE ch[i][x]
    BY <1>3
  <2> QED
    BY <1>1, <1>2, <1>4, <2>1, <2>2, Rotated
<1>7. \A x \in S, i \in Sides : ch[i][x] # NULL => ch[i][x] \in S /\ ch[i][x] # x /\ ch[i][x] # r
  BY <1>1, Child, RootAbove
<1>8. par[c] = n /\ n # NULL /\ c # r
  BY <1>1, <1>2, <1>4, <1>5, <1>7, NotNull
<1>9. ASSUME NEW x \in S, NEW i \in Sides, new[i][x] # NULL
      PROVE  v.parent[new[i][x]] = x
  <2>1. CASE x = n /\ i = far
    <3>1. new[i][x] = inner /\ inner \in S /\ inner # c
      BY <1>2, <1>3, <1>5, <1>7, <1>9, <2>1
    <3>2. inner # n
      BY <1>1, <1>2, <1>5, <3>1, <1>9, Child
    <3> QED
      BY <1>3, <2>1, <3>1, <3>2
  <2>2. CASE x = n /\ i = side
    <3>1. new[i][x] = ch[side][n] /\ ch[side][n] \in S /\ ch[side][n] # n /\ par[ch[side][n]] = n
      BY <1>1, <1>3, <1>7, <1>9, <2>2
    <3>2. ch[side][n] # c
      BY <1>1, <1>2, <1>4, <1>9, <3>1, OneParent
    <3>3. ch[side][n] # inner
      <4>1. inner # NULL => par[inner] = c
        BY <1>1, <1>5
      <4> QED
        BY <1>5, <1>9, <3>1, <4>1
    <3> QED
      BY <1>3, <2>2, <3>1, <3>2, <3>3
  <2>3. CASE x = c /\ i = side
    BY <1>3, <2>3
  <2>4. CASE x = c /\ i = far
    <3>1. new[i][x] = ch[far][c] /\ ch[far][c] \in S /\ ch[far][c] # c /\ par[ch[far][c]] = c
      BY <1>1, <1>3, <1>5, <1>7, <1>9, <2>4
    <3>2. ch[far][c] # n
      BY <1>1, <1>2, <1>5, <1>9, <3>1, Child
    <3>3. ch[far][c] # inner
      BY <1>1, <1>2, <1>5, <1>9, <3>1, OneParent
    <3> QED
      BY <1>3, <2>4, <3>1, <3>2, <3>3
  <2>5. CASE x \notin {n, c}
    <3>1. CASE ch[i][x] = n
      <4>1. new[i][x] = c /\ par[n] = x
        BY <1>1, <1>3, <1>8, <2>5, <3>1
      <4> QED
        BY <1>3, <4>1
    <3>2. CASE ch[i][x] # n
      <4>1. new[i][x] = ch[i][x] /\ ch[i][x] \in S /\ par[ch[i][x]] = x
        BY <1>1, <1>3, <1>7, <1>9, <2>5, <3>2
      <4>2. ch[i][x] # c
        BY <1>8, <2>5, <4>1
      <4>3. ch[i][x] # inner
        <5>1. inner # NULL => par[inner] = c
          BY <1>1, <1>5
        <5> QED
          BY <1>9, <2>5, <4>1, <5>1
      <4> QED
        BY <1>3, <3>2, <4>1, <4>2, <4>3
    <3> QED
      BY <3>1, <3>2
  <2> QED
    BY <1>2, <2>1, <2>2, <2>3, <2>4, <2>5
<1>10. v.root # NULL => v.parent[v.root] = NULL
  <2>1. CASE r = n
    BY <1>1, <1>3, <1>8, <2>1
  <2>2. CASE r # n
    <3>1. r \in S \cup {NULL}
      BY <1>1 DEF Tree
    <3>2. r # inner \/ r = NULL
      BY <1>2, <1>5, <1>7
    <3> QED
      BY <1>1, <1>3, <1>8, <2>2, <3>1, <3>2
  <2> QED
    BY <2>1, <2>2
<1>11. Shape(v, S, Turned(sub, n, c, far))
  <2>1. Tree(v.child, v.root, S, Turned(sub, n, c, far))
    BY <1>3, <1>6 DEF new
  <2>2. \A x \in S, i \in Sides : v.child[i][x] # NULL => v.parent[v.child[i][x]] = x
    BY <1>9 DEF new
  <2> QED
    BY <1>3, <1>10, <2>1, <2>2 DEF Shape
<1> QED
  BY <1>11 DEF far

-----------------------------------------------------------------------------
(* Colours                                                                 *)

\* v differs from t in colours only.
SameFields(t, v) ==
  v \in RbMemory /\ v.root = t.root /\ v.child = t.child /\ v.parent = t.parent

\* Colours have nothing to do with the shape of the tree.
LEMMA ShapeSame ==
  ASSUME NEW t, NEW S, NEW sub, Shape(t, S, sub), NEW v, SameFields(t, v)
  PROVE  Shape(v, S, sub)
  BY DEF Shape, SameFields

\* Colours have nothing to do with what a rotation does to the other fields.
LEMMA TurnsSame ==
  ASSUME NEW t, NEW u, SameFields(t, u), NEW S, NEW side, NEW n, NEW c, NEW v, Turns(u, S, side, n, c, v)
  PROVE  Turns(t, S, side, n, c, v)
  BY DEF Turns, SameFields

\* What surrounds n and its child c on the far side.
LEMMA Around ==
  ASSUME NEW t, NEW S, NEW sub, Shape(t, S, sub), NEW n \in S, NEW side \in Sides,
         NEW c, c = t.child[Other(side)][n], c # NULL
  PROVE  /\ n \in Node /\ c \in S /\ c \in Node /\ c # n /\ c # t.root /\ t.parent[c] = n
         /\ \A i \in Sides : t.child[i][n] \in S \cup {NULL} /\ t.child[i][c] \in S \cup {NULL}
         /\ \A i \in Sides : t.child[i][n] # n /\ t.child[i][c] # n /\ t.child[i][c] # c
         /\ t.child[side][n] # c
         /\ \A x \in S \ {n}, i \in Sides : t.child[i][x] # c
<1> DEFINE far == Other(side)
           ch == t.child
           r == t.root
<1>1. /\ Tree(ch, r, S, sub)
      /\ \A x \in S, i \in Sides : ch[i][x] # NULL => t.parent[ch[i][x]] = x
  BY DEF Shape
<1>2. far \in Sides /\ far # side
  BY SideFacts
<1>3. c = ch[far][n]
  OBVIOUS
<1> HIDE DEF far, ch, r
<1>4. c \in S /\ c # n /\ n \notin sub[c] /\ c \in Node
  BY <1>1, <1>2, <1>3, Child
<1>5. n \in Node /\ n # NULL
  BY <1>1, NotNull DEF Tree
<1>6. \A i \in Sides : ch[i][n] \in S \cup {NULL} /\ ch[i][c] \in S \cup {NULL}
  BY <1>1, <1>4 DEF Tree
<1>7. \A x \in S, i \in Sides : ch[i][x] # NULL => ch[i][x] \in sub[x] /\ ch[i][x] # x /\ ch[i][x] # r
  BY <1>1, Child, RootAbove
<1>8. \A i \in Sides : ch[i][n] # n /\ ch[i][c] # n /\ ch[i][c] # c
  BY <1>4, <1>5, <1>7
<1>9. \A x \in S, i \in Sides : ch[i][x] = c => x = n /\ i = far
  BY <1>1, <1>2, <1>3, OneParent
<1>10. c # r /\ t.parent[c] = n
  BY <1>1, <1>2, <1>3, <1>7
<1> QED
  BY <1>2, <1>4, <1>5, <1>6, <1>8, <1>9, <1>10 DEF far, ch, r

\* c is the child of n on the side opposite to side.
FarChild(t, side, n, c) == c = t.child[Other(side)][n] /\ c # NULL

\* What an element counts on a path.
Weight(t, n) == IF t.color[n] = "black" THEN 1 ELSE 0

\* One black element too few is below p on the side d, if p is an element.
Lack(p, d, n, i) == IF n = p /\ i = d THEN 1 ELSE 0

\* From n on, every path down has h[n] black elements, counting the one that is lacking.
Balanced(t, S, h, p, d) ==
  /\ h \in [NodeOrNull -> Nat] /\ h[NULL] = 0
  /\ \A n \in S, i \in Sides : h[n] = h[t.child[i][n]] + Lack(p, d, n, i) + Weight(t, n)

\* No red element has a red child, unless it is in U or the child in L; the root
\* is red only if it is in L.
Calm(t, S, U, L) ==
  /\ \A n \in S, i \in Sides :
       Red(t, n) /\ Red(t, t.child[i][n]) => n \in U \/ t.child[i][n] \in L
  /\ Red(t, t.root) => t.root \in L

\* n and its child c have changed colours.
Swaps(t, S, n, c, v) ==
  /\ v.color[c] = t.color[n] /\ v.color[n] = t.color[c]
  /\ \A x \in S \ {n, c} : v.color[x] = t.color[x]

\* The heights after n and its child c have changed places and colours.
Swapped(h, n, c) == [h EXCEPT ![n] = h[c], ![c] = h[n]]

\* What two sums have in common makes no difference to them.
LEMMA SameRest ==
  \A i, j, k, m \in Nat : j + m = i + k + m => j = i + k
OBVIOUS

\* A red child takes the place and the colour of its parent, which becomes red.
LEMMA SwapBalance ==
  ASSUME NEW t, NEW S, NEW sub, Shape(t, S, sub), NEW n \in S, NEW side \in Sides,
         NEW c, FarChild(t, side, n, c), NEW v, Turns(t, S, side, n, c, v),
         Swaps(t, S, n, c, v), Red(t, c),
         NEW h, NEW p, NEW d \in Sides, Balanced(t, S, h, p, d), p # c, p = n => d = side
  PROVE  Balanced(v, S, Swapped(h, n, c), p, d)
<1> DEFINE far == Other(side)
           ch == t.child
           new == v.child
           g == Swapped(h, n, c)
           w == Weight(t, n)
           inner == ch[side][c]
           outer == ch[far][c]
           near == ch[side][n]
<1>1. far \in Sides /\ far # side /\ \A i \in Sides : i = side \/ i = far
  BY SideFacts
<1>2. /\ n \in Node /\ c \in S /\ c \in Node /\ c # n /\ S \subseteq Node
      /\ \A i \in Sides : ch[i][n] \in S \cup {NULL} /\ ch[i][c] \in S \cup {NULL}
      /\ \A i \in Sides : ch[i][n] # n /\ ch[i][c] # n /\ ch[i][c] # c
      /\ ch[side][n] # c
      /\ \A x \in S \ {n}, i \in Sides : ch[i][x] # c
      /\ \A x \in S, i \in Sides : ch[i][x] \in S \cup {NULL}
  <2>1. c = t.child[Other(side)][n] /\ c # NULL
    BY DEF FarChild
  <2> QED
    BY <2>1, Around, ShapeIs
<1>3. h \in [NodeOrNull -> Nat] /\ h[NULL] = 0 /\ n \in NodeOrNull /\ c \in NodeOrNull /\ S \cup {NULL} \subseteq NodeOrNull
      /\ n # NULL
  BY <1>2, NotNull DEF Balanced, NodeOrNull
<1>4. g \in [NodeOrNull -> Nat] /\ g[n] = h[c] /\ g[c] = h[n] /\ \A x \in NodeOrNull \ {n, c} : g[x] = h[x]
  BY <1>2, <1>3 DEF Swapped
<1>5. \A x \in S, i \in Sides : h[x] = h[ch[i][x]] + Lack(p, d, x, i) + Weight(t, x)
  BY DEF Balanced
<1>6. /\ new[far][n] = inner /\ new[side][c] = n /\ new[far][c] = outer /\ new[side][n] = near
      /\ \A x \in S \ {n, c}, i \in Sides : new[i][x] = IF ch[i][x] = n THEN c ELSE ch[i][x]
  BY DEF Turns
<1>7. Weight(v, c) = w /\ Weight(v, n) = 0 /\ Weight(t, c) = 0 /\ w \in Nat /\ \A x \in S \ {n, c} : Weight(v, x) = Weight(t, x)
  BY DEF Swaps, Weight, Red
<1>8. Lack(p, d, n, far) = 0 /\ Lack(p, d, c, side) = 0 /\ Lack(p, d, c, far) = 0
      /\ Lack(p, d, n, side) \in Nat
  BY <1>1 DEF Lack
<1>9. c = ch[far][n]
  BY DEF FarChild
<1> HIDE DEF far, ch, new, g, w, inner, outer, near
<1>10. h[n] = h[c] + w /\ h[c] \in Nat
  BY <1>1, <1>3, <1>5, <1>7, <1>8, <1>9 DEF w
<1>11. h[c] = h[inner] /\ h[inner] \in Nat
  <2>1. h[c] = h[inner] + Lack(p, d, c, side) + Weight(t, c)
    BY <1>2, <1>5 DEF inner
  <2>2. h[inner] \in Nat
    BY <1>2, <1>3 DEF inner
  <2> QED
    BY <1>7, <1>8, <2>1, <2>2
<1>12. h[c] = h[outer] /\ h[outer] \in Nat
  <2>1. h[c] = h[outer] + Lack(p, d, c, far) + Weight(t, c)
    BY <1>1, <1>2, <1>5 DEF outer
  <2>2. h[outer] \in Nat
    BY <1>1, <1>2, <1>3 DEF outer
  <2> QED
    BY <1>7, <1>8, <2>1, <2>2
<1>13. h[c] = h[near] + Lack(p, d, n, side) /\ h[near] \in Nat
  <2>1. h[n] = h[near] + Lack(p, d, n, side) + w
    BY <1>5 DEF near, w
  <2>2. h[near] \in Nat
    BY <1>2, <1>3 DEF near
  <2> DEFINE l == Lack(p, d, n, side)
             a == h[near]
             b == h[c]
  <2>3. a \in Nat /\ l \in Nat /\ w \in Nat /\ b \in Nat
    BY <1>7, <1>8, <1>10, <2>2
  <2>4. b + w = a + l + w
    BY <1>10, <2>1
  <2> HIDE DEF a, b, l
  <2>5. b = a + l
    BY <2>3, <2>4, SameRest
  <2> QED
    BY <2>2, <2>5 DEF a, b, l
<1>14. ASSUME NEW x \in S, NEW i \in Sides
       PROVE  g[x] = g[new[i][x]] + Lack(p, d, x, i) + Weight(v, x)
  <2>1. CASE x = n /\ i = far
    <3>1. g[inner] = h[inner]
      BY <1>2, <1>3, <1>4 DEF inner
    <3> QED
      BY <1>4, <1>6, <1>7, <1>8, <1>11, <2>1, <3>1
  <2>2. CASE x = n /\ i = side
    <3>1. g[near] = h[near]
      BY <1>2, <1>3, <1>4 DEF near
    <3> QED
      BY <1>4, <1>6, <1>7, <1>8, <1>13, <2>2, <3>1
  <2>3. CASE x = c /\ i = side
    BY <1>4, <1>6, <1>7, <1>8, <1>10, <2>3
  <2>4. CASE x = c /\ i = far
    <3>1. g[outer] = h[outer]
      BY <1>1, <1>2, <1>3, <1>4 DEF outer
    <3> QED
      BY <1>4, <1>6, <1>7, <1>8, <1>10, <1>12, <2>4, <3>1
  <2>5. CASE x \notin {n, c}
    <3>1. g[x] = h[x]
      BY <1>3, <1>4, <2>5
    <3>2. g[new[i][x]] = h[ch[i][x]]
      <4>1. CASE ch[i][x] = n
        BY <1>4, <1>6, <2>5, <4>1
      <4>2. CASE ch[i][x] # n
        BY <1>2, <1>3, <1>4, <1>6, <2>5, <4>2
      <4> QED
        BY <4>1, <4>2
    <3>3. Weight(v, x) = Weight(t, x)
      BY <1>7, <2>5
    <3> QED
      BY <1>5, <3>1, <3>2, <3>3
  <2> QED
    BY <1>1, <2>1, <2>2, <2>3, <2>4, <2>5
<1>15. g[NULL] = 0
  <2>1. NULL \in NodeOrNull \ {n, c}
    BY <1>2, <1>3, NotNull
  <2> QED
    BY <1>3, <1>4, <2>1
<1> QED
  BY <1>4, <1>14, <1>15 DEF Balanced, g, new

\* n is black, and so are the children of n and of c on that side.
BlackBelow(t, side, n, c) ==
  t.color[n] = "black" /\ ~Red(t, t.child[side][n]) /\ ~Red(t, t.child[side][c])

\* The child c was red, as n was not, and none of the elements that come to be below n is.
LEMMA SwapCalm ==
  ASSUME NEW t, NEW S, NEW sub, Shape(t, S, sub), NEW n \in S, NEW side \in Sides,
         NEW c, FarChild(t, side, n, c), NEW v, Turns(t, S, side, n, c, v), Swaps(t, S, n, c, v),
         BlackBelow(t, side, n, c), Calm(t, S, {c}, {})
  PROVE  Calm(v, S, {}, {})
<1> DEFINE far == Other(side)
           ch == t.child
           new == v.child
           r == t.root
<1>1. far \in Sides /\ far # side /\ \A i \in Sides : i = side \/ i = far
  BY SideFacts
<1>2. /\ n \in Node /\ c \in S /\ c \in Node /\ c # n /\ c # r
      /\ \A i \in Sides : ch[i][n] \in S \cup {NULL} /\ ch[i][c] \in S \cup {NULL}
      /\ \A i \in Sides : ch[i][n] # n /\ ch[i][c] # n /\ ch[i][c] # c
      /\ ch[side][n] # c
      /\ \A x \in S \ {n}, i \in Sides : ch[i][x] # c
      /\ \A x \in S, i \in Sides : ch[i][x] \in S \cup {NULL}
      /\ r \in S \cup {NULL}
  <2>1. c = t.child[Other(side)][n] /\ c # NULL
    BY DEF FarChild
  <2> QED
    BY <2>1, Around, ShapeIs
<1>3. /\ new[far][n] = ch[side][c] /\ new[side][n] = ch[side][n]
      /\ \A x \in S \ {n, c}, i \in Sides : new[i][x] = IF ch[i][x] = n THEN c ELSE ch[i][x]
      /\ v.root = (IF r = n THEN c ELSE r)
  BY DEF Turns
<1>4. /\ \A x \in S, i \in Sides : Red(t, x) /\ Red(t, ch[i][x]) => x = c
      /\ ~Red(t, r)
  BY DEF Calm
<1>5. ~Red(v, c) /\ \A x \in (S \cup {NULL}) \ {n, c} : Red(v, x) <=> Red(t, x)
  BY DEF Red, Swaps, BlackBelow
<1>6. ~Red(t, ch[side][n]) /\ ~Red(t, ch[side][c])
  BY DEF BlackBelow
<1> HIDE DEF far, ch, new, r
<1>7. ASSUME NEW x \in S, NEW i \in Sides, Red(v, x), Red(v, new[i][x])
      PROVE  FALSE
  <2>1. x # c
    BY <1>5, <1>7
  <2>2. CASE x = n /\ i = far
    BY <1>2, <1>3, <1>5, <1>6, <1>7, <2>2
  <2>3. CASE x = n /\ i = side
    BY <1>2, <1>3, <1>5, <1>6, <1>7, <2>3
  <2>4. CASE x # n
    <3>1. Red(t, x)
      BY <1>5, <1>7, <2>1, <2>4
    <3>2. ch[i][x] # n
      BY <1>3, <1>5, <1>7, <2>1, <2>4
    <3>3. new[i][x] = ch[i][x] /\ ch[i][x] \in (S \cup {NULL}) \ {n, c}
      BY <1>2, <1>3, <2>1, <2>4, <3>2
    <3> QED
      BY <1>4, <1>5, <1>7, <2>1, <3>1, <3>3
  <2> QED
    BY <1>1, <2>1, <2>2, <2>3, <2>4
<1>8. ~Red(v, v.root)
  <2>1. CASE r = n
    BY <1>3, <1>5, <2>1
  <2>2. CASE r # n
    BY <1>2, <1>3, <1>4, <1>5, <2>2
  <2> QED
    BY <2>1, <2>2
<1> QED
  BY <1>7, <1>8 DEF Calm, new

\* The colours after the last rotation of a removal.
Fills(t, S, n, c, f, v) ==
  /\ v.color[c] = t.color[n] /\ v.color[n] = "black" /\ v.color[f] = "black"
  /\ \A x \in S \ {n, c, f} : v.color[x] = t.color[x]

\* The heights after the last rotation of a removal.
Filled(h, n, c, f) == [h EXCEPT ![n] = h[c], ![c] = h[n], ![f] = h[f] + 1]

\* The child c of n on the side opposite to side is black, and its child f there is red.
BlackRedPair(t, side, n, c, f) ==
  FarChild(t, side, n, c) /\ f = t.child[Other(side)][c] /\ Red(t, f) /\ t.color[c] = "black"

\* What is lacking below n is made up for by its black child c and the red child f of c.
LEMMA FillBalance ==
  ASSUME NEW t, NEW S, NEW sub, Shape(t, S, sub), NEW n \in S, NEW side \in Sides,
         NEW c, NEW f, BlackRedPair(t, side, n, c, f), NEW v, Turns(t, S, side, n, c, v),
         Fills(t, S, n, c, f, v),
         NEW h, Balanced(t, S, h, n, side)
  PROVE  Balanced(v, S, Filled(h, n, c, f), NULL, side)
<1> DEFINE far == Other(side)
           ch == t.child
           new == v.child
           g == Filled(h, n, c, f)
           w == Weight(t, n)
           inner == ch[side][c]
           near == ch[side][n]
<1>1. far \in Sides /\ far # side /\ \A i \in Sides : i = side \/ i = far
  BY SideFacts
<1>2. /\ n \in Node /\ c \in S /\ c \in Node /\ c # n /\ S \subseteq Node
      /\ \A i \in Sides : ch[i][n] \in S \cup {NULL} /\ ch[i][c] \in S \cup {NULL}
      /\ \A i \in Sides : ch[i][n] # n /\ ch[i][c] # n /\ ch[i][c] # c
      /\ ch[side][n] # c
      /\ \A x \in S \ {n}, i \in Sides : ch[i][x] # c
      /\ \A x \in S, i \in Sides : ch[i][x] \in S \cup {NULL}
  <2>1. c = t.child[Other(side)][n] /\ c # NULL
    BY DEF BlackRedPair, FarChild
  <2> QED
    BY <2>1, Around, ShapeIs
<1>3. f # NULL /\ f \in S /\ Weight(t, f) = 0 /\ Weight(t, c) = 1
  <2>1. f = ch[far][c] /\ Red(t, f) /\ t.color[c] = "black"
    BY DEF BlackRedPair
  <2>2. t.color[f] = "red" /\ f # NULL
    BY <2>1 DEF Red
  <2> QED
    BY <1>1, <1>2, <2>1, <2>2 DEF Weight
<1>4. /\ f \in Node /\ f # c
      /\ \A i \in Sides : ch[i][f] \in S \cup {NULL} /\ ch[i][f] # c /\ ch[i][f] # f
      /\ inner # f
      /\ \A x \in S \ {c}, i \in Sides : ch[i][x] # f
  <2>2. Shape(t, S, sub) /\ c \in S /\ side \in Sides /\ f = t.child[Other(side)][c] /\ f # NULL
    BY <1>2, <1>3 DEF BlackRedPair
  <2> HIDE DEF far, ch, new, g, w, inner, near
  <2>3. /\ f \in Node /\ f # c
        /\ \A i \in Sides : t.child[i][f] \in S \cup {NULL}
        /\ \A i \in Sides : t.child[i][f] # c /\ t.child[i][f] # f
        /\ t.child[side][c] # f
        /\ \A x \in S \ {c}, i \in Sides : t.child[i][x] # f
    BY <2>2, Around
  <2> QED
    BY <2>3 DEF ch, inner
<1>5. f # n /\ \A i \in Sides : ch[i][f] # n
  <2>1. f # n
    BY <1>1, <1>2 DEF BlackRedPair
  <2>2. \A i \in Sides : ch[i][f] # n
    <3> SUFFICES ASSUME NEW i \in Sides, ch[i][f] = n PROVE FALSE
      BY Zenon
    <3> DEFINE r == t.root
    <3>1. Tree(ch, r, S, sub) /\ n # NULL /\ c # NULL /\ c = ch[far][n] /\ f = ch[far][c]
      BY <1>2, NotNull DEF Shape, BlackRedPair, FarChild
    <3> HIDE DEF r, ch, far
    <3>2. sub[c] \subseteq sub[n] /\ n \notin sub[c] /\ sub[f] \subseteq sub[c]
      BY <1>1, <1>2, <1>3, <3>1, Child
    <3>3. n \in sub[f]
      BY <1>3, <3>1, Child
    <3> QED
      BY <3>2, <3>3
  <2> QED
    BY <2>1, <2>2
<1>6. h \in [NodeOrNull -> Nat] /\ h[NULL] = 0 /\ n \in NodeOrNull /\ c \in NodeOrNull /\ f \in NodeOrNull
      /\ S \cup {NULL} \subseteq NodeOrNull /\ n # NULL
  BY <1>2, <1>4, NotNull DEF Balanced, NodeOrNull
<1>7. /\ g \in [NodeOrNull -> Nat] /\ g[n] = h[c] /\ g[c] = h[n] /\ g[f] = h[f] + 1
      /\ \A x \in NodeOrNull \ {n, c, f} : g[x] = h[x]
  <2> DEFINE a == h[c]
             b == h[n]
             e == h[f] + 1
  <2>1. a \in Nat /\ b \in Nat /\ e \in Nat
    BY <1>6
  <2>2. g = [h EXCEPT ![n] = a, ![c] = b, ![f] = e]
    BY DEF Filled
  <2> HIDE DEF a, b, e, g
  <2>3. /\ g \in [NodeOrNull -> Nat] /\ g[n] = a /\ g[c] = b /\ g[f] = e
        /\ \A x \in NodeOrNull \ {n, c, f} : g[x] = h[x]
    BY <1>2, <1>4, <1>5, <1>6, <2>1, <2>2
  <2> QED
    BY <2>3 DEF a, b, e
<1>8. \A x \in S, i \in Sides : h[x] = h[ch[i][x]] + Lack(n, side, x, i) + Weight(t, x)
  BY DEF Balanced
<1>9. /\ new[far][n] = inner /\ new[side][c] = n /\ new[far][c] = f /\ new[side][n] = near
      /\ \A x \in S \ {n, c}, i \in Sides : new[i][x] = IF ch[i][x] = n THEN c ELSE ch[i][x]
  <2>1. f = ch[far][c]
    BY DEF BlackRedPair
  <2> QED
    BY <2>1 DEF Turns
<1>10. Weight(v, c) = w /\ Weight(v, n) = 1 /\ Weight(v, f) = 1 /\ w \in Nat
       /\ \A x \in S \ {n, c, f} : Weight(v, x) = Weight(t, x)
  BY DEF Fills, Weight
<1>11. Lack(n, side, n, side) = 1 /\ Lack(n, side, n, far) = 0
       /\ (\A x \in S \ {n}, i \in Sides : Lack(n, side, x, i) = 0)
       /\ (\A x \in S, i \in Sides : Lack(NULL, side, x, i) = 0)
  BY <1>1, <1>2, NotNull DEF Lack
<1>12. c = ch[far][n] /\ f = ch[far][c]
  BY DEF BlackRedPair, FarChild
<1> HIDE DEF far, ch, new, g, w, inner, near
<1>13. h[n] = h[c] + w /\ h[c] \in Nat
  <2>1. h[n] = h[c] + 0 + w /\ h[c] \in Nat
    BY <1>1, <1>6, <1>8, <1>11, <1>12 DEF w
  <2> QED
    BY <1>10, <2>1
<1>14. h[c] = h[inner] + 1 /\ h[inner] \in Nat
  <2>1. h[c] = h[inner] + 0 + 1
    BY <1>2, <1>3, <1>8, <1>11 DEF inner
  <2>2. h[inner] \in Nat
    BY <1>2, <1>6 DEF inner
  <2> QED
    BY <2>1, <2>2
<1>15. h[c] = h[f] + 1 /\ h[f] \in Nat
  <2>1. h[c] = h[f] + 0 + 1
    BY <1>1, <1>2, <1>3, <1>8, <1>11, <1>12
  <2> QED
    BY <1>6, <2>1
<1>16. h[c] = h[near] + 1 /\ h[near] \in Nat
  <2>1. h[n] = h[near] + 1 + w
    BY <1>8, <1>11 DEF near, w
  <2>2. h[near] \in Nat
    BY <1>2, <1>6 DEF near
  <2>3. \A i, j, k \in Nat : i + k = j + 1 + k => i = j + 1
    OBVIOUS
  <2> QED
    BY <1>10, <1>13, <2>1, <2>2, <2>3
<1>17. \A x \in S, i \in Sides : h[ch[i][x]] \in Nat /\ h[x] \in Nat
  BY <1>2, <1>6
<1>18. ASSUME NEW x \in S, NEW i \in Sides
       PROVE  g[x] = g[new[i][x]] + Weight(v, x)
  <2>1. CASE x = n /\ i = far
    <3>1. g[inner] = h[inner]
      BY <1>2, <1>4, <1>6, <1>7 DEF inner
    <3> QED
      BY <1>7, <1>9, <1>10, <1>14, <2>1, <3>1
  <2>2. CASE x = n /\ i = side
    <3>1. g[near] = h[near]
      BY <1>2, <1>4, <1>6, <1>7 DEF near
    <3> QED
      BY <1>7, <1>9, <1>10, <1>16, <2>2, <3>1
  <2>3. CASE x = c /\ i = side
    BY <1>7, <1>9, <1>10, <1>13, <2>3
  <2>4. CASE x = c /\ i = far
    BY <1>7, <1>9, <1>10, <1>13, <1>15, <2>4
  <2>5. CASE x = f
    <3>1. new[i][x] = ch[i][f] /\ g[new[i][x]] = h[ch[i][f]]
      BY <1>2, <1>4, <1>5, <1>6, <1>7, <1>9, <2>5
    <3>2. h[f] = h[ch[i][f]] + Lack(n, side, f, i) + Weight(t, f) /\ h[ch[i][f]] \in Nat
      BY <1>3, <1>8, <1>17
    <3>3. Lack(n, side, f, i) = 0
      BY <1>3, <1>5, <1>11
    <3>4. h[f] = h[ch[i][f]] + 0 + 0
      BY <1>3, <3>2, <3>3
    <3>5. \A k \in Nat : k + 0 + 0 = k
      OBVIOUS
    <3>6. h[f] = h[ch[i][f]]
      BY <3>2, <3>4, <3>5
    <3> QED
      BY <1>7, <1>10, <2>5, <3>1, <3>2, <3>6
  <2>6. CASE x \notin {n, c, f}
    <3>1. g[x] = h[x]
      BY <1>6, <1>7, <2>6
    <3>2. g[new[i][x]] = h[ch[i][x]]
      <4>1. CASE ch[i][x] = n
        BY <1>7, <1>9, <2>6, <4>1
      <4>2. CASE ch[i][x] # n
        <5>1. new[i][x] = ch[i][x]
          BY <1>9, <2>6, <4>2
        <5>2. ch[i][x] \in NodeOrNull \ {n, c, f}
          BY <1>2, <1>4, <1>6, <2>6, <4>2
        <5> QED
          BY <1>7, <5>1, <5>2
      <4> QED
        BY <4>1, <4>2
    <3>3. Weight(v, x) = Weight(t, x) /\ Weight(t, x) \in Nat
      BY <1>10, <2>6 DEF Weight
    <3>4. h[x] = h[ch[i][x]] + 0 + Weight(t, x) /\ h[ch[i][x]] \in Nat
      BY <1>8, <1>11, <1>17, <2>6
    <3> QED
      BY <3>1, <3>2, <3>3, <3>4
  <2> QED
    BY <1>1, <2>1, <2>2, <2>3, <2>4, <2>5, <2>6
<1>19. g[NULL] = 0
  <2>1. NULL \in NodeOrNull \ {n, c, f}
    BY <1>2, <1>3, <1>6, NotNull
  <2> QED
    BY <1>6, <1>7, <2>1
<1>20. ASSUME NEW x \in S, NEW i \in Sides
       PROVE  g[x] = g[new[i][x]] + Lack(NULL, side, x, i) + Weight(v, x)
  <2>1. new[i][x] \in NodeOrNull
    <3>1. CASE x = c /\ i = far
      BY <1>6, <1>9, <3>1
    <3>2. CASE x = c /\ i = side
      BY <1>6, <1>9, <3>2
    <3>3. CASE x = n
      BY <1>1, <1>2, <1>6, <1>9, <3>3 DEF inner, near
    <3>4. CASE x \notin {n, c}
      BY <1>2, <1>6, <1>9, <3>4
    <3> QED
      BY <1>1, <3>1, <3>2, <3>3, <3>4
  <2>2. g[new[i][x]] \in Nat /\ Weight(v, x) \in Nat
    BY <1>7, <2>1 DEF Weight
  <2> QED
    BY <1>11, <1>18, <2>2
<1> QED
  BY <1>7, <1>19, <1>20 DEF Balanced, g, new

\* The last rotation of a removal leaves no red element below a red one.
LEMMA FillCalm ==
  ASSUME NEW t, NEW S, NEW sub, Shape(t, S, sub), NEW n \in S, NEW side \in Sides,
         NEW c, NEW f, BlackRedPair(t, side, n, c, f), NEW v, Turns(t, S, side, n, c, v),
         Fills(t, S, n, c, f, v), Calm(t, S, {}, {})
  PROVE  Calm(v, S, {}, {})
<1> DEFINE far == Other(side)
           ch == t.child
           new == v.child
           r == t.root
<1>1. far \in Sides /\ far # side /\ \A i \in Sides : i = side \/ i = far
  BY SideFacts
<1>2. /\ n \in Node /\ c \in S /\ c \in Node /\ c # n /\ c # r /\ n # NULL
      /\ \A i \in Sides : ch[i][c] # n /\ ch[i][c] # c
      /\ \A x \in S \ {n}, i \in Sides : ch[i][x] # c
      /\ \A x \in S, i \in Sides : ch[i][x] \in S \cup {NULL}
      /\ r \in S \cup {NULL}
  <2>1. c = t.child[Other(side)][n] /\ c # NULL
    BY DEF BlackRedPair, FarChild
  <2> QED
    BY <2>1, Around, ShapeIs, NotNull
<1>3. /\ new[side][c] = n /\ new[far][c] = ch[far][c]
      /\ \A x \in S \ {n, c}, i \in Sides : new[i][x] = IF ch[i][x] = n THEN c ELSE ch[i][x]
      /\ v.root = (IF r = n THEN c ELSE r)
  BY DEF Turns
<1>4. /\ \A x \in S, i \in Sides : ~(Red(t, x) /\ Red(t, ch[i][x]))
      /\ ~Red(t, r)
  BY DEF Calm
<1>5. /\ ~Red(v, n) /\ ~Red(v, f) /\ (Red(v, c) => Red(t, n))
      /\ \A x \in (S \cup {NULL}) \ {n, c, f} : Red(v, x) <=> Red(t, x)
  BY <1>2 DEF Red, Fills
<1>6. \A x \in (S \cup {NULL}) \ {n, c} : Red(v, x) => Red(t, x)
  BY <1>5
<1>7. f = ch[far][c]
  BY DEF BlackRedPair
<1> HIDE DEF far, ch, new, r
<1>8. ASSUME NEW x \in S, NEW i \in Sides, Red(v, x), Red(v, new[i][x])
      PROVE  FALSE
  <2>1. x # n
    BY <1>5, <1>8
  <2>2. CASE x = c
    BY <1>1, <1>3, <1>5, <1>7, <1>8, <2>2
  <2>3. CASE x # c
    <3>1. Red(t, x)
      BY <1>6, <1>8, <2>1, <2>3
    <3>2. CASE ch[i][x] = n
      <4>1. new[i][x] = c
        BY <1>3, <2>1, <2>3, <3>2
      <4>2. Red(t, n)
        BY <1>5, <1>8, <4>1
      <4> QED
        BY <1>4, <3>1, <3>2, <4>2
    <3>3. CASE ch[i][x] # n
      <4>1. new[i][x] = ch[i][x] /\ ch[i][x] \in (S \cup {NULL}) \ {n, c}
        BY <1>2, <1>3, <2>1, <2>3, <3>3
      <4> QED
        BY <1>4, <1>6, <1>8, <3>1, <4>1
    <3> QED
      BY <3>2, <3>3
  <2> QED
    BY <2>2, <2>3
<1>9. ~Red(v, v.root)
  <2>1. CASE r = n
    BY <1>3, <1>4, <1>5, <2>1
  <2>2. CASE r # n
    BY <1>2, <1>3, <1>4, <1>6, <2>2
  <2> QED
    BY <2>1, <2>2
<1> QED
  BY <1>8, <1>9 DEF Calm, new

\* A child is apart from its parent and has no other.
LEMMA Apart ==
  ASSUME NEW t, NEW S, NEW sub, Shape(t, S, sub), NEW x \in S, NEW i \in Sides,
         NEW c, c = t.child[i][x], c # NULL
  PROVE  /\ x \in Node /\ c \in S /\ c \in Node /\ c # x /\ c # t.root /\ t.parent[c] = x
         /\ \A j \in Sides : t.child[j][c] \in S \cup {NULL} /\ t.child[j][c] # x /\ t.child[j][c] # c
         /\ \A y \in S, j \in Sides : t.child[j][y] = c => y = x /\ j = i
<1> DEFINE side == Other(i)
<1>1. side \in Sides /\ Other(side) = i
  BY SideFacts
<1> HIDE DEF side
<1>2. c = t.child[Other(side)][x]
  BY <1>1
<1>3. /\ x \in Node /\ c \in S /\ c \in Node /\ c # x /\ c # t.root /\ t.parent[c] = x
      /\ \A j \in Sides : t.child[j][c] \in S \cup {NULL}
      /\ \A j \in Sides : t.child[j][c] # x /\ t.child[j][c] # c
      /\ t.child[side][x] # c
      /\ \A y \in S \ {x}, j \in Sides : t.child[j][y] # c
  BY <1>1, <1>2, Around
<1>4. \A j \in Sides : j = side \/ j = i
  BY <1>1, SideFacts
<1> QED
  BY <1>3, <1>4

\* What is lacking below p, if p is an element, is the subtree at e; else it is the tree.
At(t, S, p, d, e) ==
  \/ p = NULL /\ e = t.root
  \/ p \in S /\ t.child[d][p] = e

\* The heights after the sibling c has been painted red.
Lowered(h, p, c) == [h EXCEPT ![p] = h[p] - 1, ![c] = h[c] - 1]

\* What is lacking on one side of p is taken from the other side too: it is lacking above p.
LEMMA HoleUpBalance ==
  ASSUME NEW t, NEW S, NEW sub, Shape(t, S, sub), NEW p \in S, NEW side \in Sides,
         NEW c, c = t.child[Other(side)][p], c # NULL, t.color[c] = "black",
         NEW v, Painted(t, c, "red", v), NEW h, Balanced(t, S, h, p, side),
         NEW q, NEW e \in Sides, At(t, S, q, e, p)
  PROVE  Balanced(v, S, Lowered(h, p, c), q, e)
<1> DEFINE far == Other(side)
           ch == t.child
           g == Lowered(h, p, c)
           near == ch[side][p]
<1>1. far \in Sides /\ far # side /\ \A i \in Sides : i = side \/ i = far
  BY SideFacts
<1>2. /\ p \in Node /\ c \in S /\ c \in Node /\ c # p /\ S \subseteq Node /\ p # NULL
      /\ \A i \in Sides : ch[i][p] \in S \cup {NULL} /\ ch[i][c] \in S \cup {NULL}
      /\ \A i \in Sides : ch[i][p] # p /\ ch[i][c] # p /\ ch[i][c] # c
      /\ ch[side][p] # c
      /\ \A x \in S \ {p}, i \in Sides : ch[i][x] # c
      /\ \A x \in S, i \in Sides : ch[i][x] \in S \cup {NULL}
  BY Around, ShapeIs, NotNull
<1>3. h \in [NodeOrNull -> Nat] /\ h[NULL] = 0 /\ p \in NodeOrNull /\ c \in NodeOrNull /\ S \cup {NULL} \subseteq NodeOrNull
  BY <1>2 DEF Balanced, NodeOrNull
<1>4. \A x \in S, i \in Sides : h[x] = h[ch[i][x]] + Lack(p, side, x, i) + Weight(t, x)
  BY DEF Balanced
<1>5. /\ \A x \in S \ {c} : Weight(v, x) = Weight(t, x)
      /\ Weight(v, c) = 0 /\ Weight(t, c) = 1 /\ \A x \in S : Weight(t, x) \in Nat
  BY <1>2 DEF Painted, Weight
<1>6. v.child = ch
  BY DEF Painted
<1>7. q # p /\ q # c
  BY <1>2 DEF At
<1>8. \A x \in S, i \in Sides : ch[i][x] = p <=> x = q /\ i = e
  <2>1. CASE q = NULL /\ p = t.root
    <3>1. \A x \in S, i \in Sides : ch[i][x] # p
      BY <2>1, Place
    <3> QED
      BY <1>2, <2>1, <3>1, NotNull
  <2>2. CASE q \in S /\ ch[e][q] = p
    <3> DEFINE s == p
    <3>1. \A y \in S, j \in Sides : ch[j][y] = p => y = q /\ j = e
      BY <1>2, <2>2, Apart
    <3> QED
      BY <2>2, <3>1
  <2> QED
    BY <2>1, <2>2 DEF At
<1>9. \A x \in S, i \in Sides : Lack(q, e, x, i) = (IF ch[i][x] = p THEN 1 ELSE 0)
                            /\ Lack(p, side, x, i) = (IF x = p /\ i = side THEN 1 ELSE 0)
  BY <1>8 DEF Lack
<1>10. c = ch[far][p]
  OBVIOUS
<1> HIDE DEF far, ch, near
<1>11. h[c] \in Nat /\ h[c] - 1 \in Nat /\ \A i \in Sides : h[c] = h[ch[i][c]] + 1 /\ h[ch[i][c]] \in Nat
  <2> SUFFICES ASSUME NEW i \in Sides
               PROVE  h[c] \in Nat /\ h[c] - 1 \in Nat /\ h[c] = h[ch[i][c]] + 1 /\ h[ch[i][c]] \in Nat
    BY <1>1
  <2>1. h[c] = h[ch[i][c]] + 0 + 1
    BY <1>2, <1>4, <1>5, <1>9
  <2>2. h[ch[i][c]] \in Nat /\ h[c] \in Nat
    BY <1>2, <1>3
  <2> QED
    BY <2>1, <2>2
<1>12. h[p] \in Nat /\ h[p] - 1 \in Nat /\ h[near] \in Nat /\ h[p] - 1 = h[near] + Weight(t, p)
  <2>1. h[p] = h[near] + 1 + Weight(t, p)
    BY <1>4, <1>9 DEF near
  <2>2. h[near] \in Nat /\ h[p] \in Nat /\ Weight(t, p) \in Nat
    BY <1>2, <1>3, <1>5 DEF near
  <2>3. \A i, j, k \in Nat : i = j + 1 + k => i - 1 = j + k /\ i - 1 \in Nat
    OBVIOUS
  <2> QED
    BY <2>1, <2>2, <2>3
<1>13. h[p] - 1 = h[c] - 1 + Weight(t, p)
  <2>1. h[p] = h[c] + 0 + Weight(t, p)
    BY <1>1, <1>4, <1>9, <1>10
  <2>2. \A i, j, k \in Nat : i = j + 0 + k => i - 1 = j - 1 + k
    OBVIOUS
  <2> QED
    BY <1>5, <1>11, <1>12, <2>1, <2>2
<1>14. /\ g \in [NodeOrNull -> Nat] /\ g[p] = h[p] - 1 /\ g[c] = h[c] - 1
       /\ \A x \in NodeOrNull \ {p, c} : g[x] = h[x]
  <2> DEFINE a == h[p] - 1
             b == h[c] - 1
  <2>1. a \in Nat /\ b \in Nat
    BY <1>11, <1>12
  <2>2. g = [h EXCEPT ![p] = a, ![c] = b]
    BY DEF Lowered
  <2> HIDE DEF a, b, g
  <2>3. /\ g \in [NodeOrNull -> Nat] /\ g[p] = a /\ g[c] = b
        /\ \A x \in NodeOrNull \ {p, c} : g[x] = h[x]
    BY <1>2, <1>3, <2>1, <2>2
  <2> QED
    BY <2>3 DEF a, b
<1> HIDE DEF g
<1>15. ASSUME NEW x \in S, NEW i \in Sides
       PROVE  g[x] = g[ch[i][x]] + Lack(q, e, x, i) + Weight(v, x)
  <2>1. CASE x = c
    <3>1. g[ch[i][x]] = h[ch[i][c]] /\ Lack(q, e, x, i) = 0 /\ Weight(v, x) = 0
      BY <1>2, <1>3, <1>5, <1>9, <1>14, <2>1
    <3>2. \A j, k \in Nat : j = k + 1 => j - 1 = k + 0 + 0
      OBVIOUS
    <3>3. h[c] - 1 = h[ch[i][c]] + 0 + 0
      BY <1>11, <3>2
    <3> QED
      BY <1>14, <2>1, <3>1, <3>3
  <2>2. CASE x = p /\ i = side
    <3>1. g[ch[i][x]] = h[near] /\ Lack(q, e, x, i) = 0 /\ Weight(v, x) = Weight(t, p)
      BY <1>2, <1>3, <1>5, <1>9, <1>14, <2>2 DEF near
    <3>2. \A j, k \in Nat : j + k = j + 0 + k
      OBVIOUS
    <3>3. h[p] - 1 = h[near] + 0 + Weight(t, p)
      BY <1>5, <1>12, <3>2
    <3> QED
      BY <1>14, <2>2, <3>1, <3>3
  <2>3. CASE x = p /\ i = far
    <3>1. g[ch[i][x]] = h[c] - 1 /\ Lack(q, e, x, i) = 0 /\ Weight(v, x) = Weight(t, p)
      BY <1>2, <1>5, <1>9, <1>10, <1>14, <2>3
    <3>2. \A j, k \in Nat : j + k = j + 0 + k
      OBVIOUS
    <3>3. h[p] - 1 = (h[c] - 1) + 0 + Weight(t, p)
      BY <1>5, <1>11, <1>13, <3>2
    <3> QED
      BY <1>14, <2>3, <3>1, <3>3
  <2>4. CASE x \notin {p, c} /\ ch[i][x] = p
    <3>1. g[ch[i][x]] = h[p] - 1 /\ g[x] = h[x] /\ Lack(q, e, x, i) = 1 /\ Weight(v, x) = Weight(t, x)
      BY <1>3, <1>5, <1>9, <1>14, <2>4
    <3>2. h[x] = h[p] + 0 + Weight(t, x)
      BY <1>4, <1>9, <2>4
    <3>3. \A j, k \in Nat : j + 0 + k = (j - 1) + 1 + k
      OBVIOUS
    <3>4. h[x] = (h[p] - 1) + 1 + Weight(t, x)
      BY <1>5, <1>12, <3>2, <3>3
    <3> QED
      BY <3>1, <3>4
  <2>5. CASE x \notin {p, c} /\ ch[i][x] # p
    <3>1. g[ch[i][x]] = h[ch[i][x]] /\ g[x] = h[x] /\ Lack(q, e, x, i) = 0 /\ Weight(v, x) = Weight(t, x)
      BY <1>2, <1>3, <1>5, <1>9, <1>14, <2>5
    <3>2. h[x] = h[ch[i][x]] + 0 + Weight(t, x)
      BY <1>4, <1>9, <2>5
    <3> QED
      BY <3>1, <3>2
  <2> QED
    BY <1>1, <2>1, <2>2, <2>3, <2>4, <2>5
<1>16. g[NULL] = 0
  BY <1>2, <1>3, <1>14, NotNull
<1> QED
  BY <1>6, <1>14, <1>15, <1>16 DEF Balanced, g

\* A sibling that is painted red, as what is lacking moves up, can only be in
\* conflict with its parent.
LEMMA HoleUpCalm ==
  ASSUME NEW t, NEW S, NEW sub, Shape(t, S, sub), NEW p \in S, NEW i \in Sides,
         NEW c, c = t.child[i][p], c # NULL, NEW v, Painted(t, c, "red", v),
         \A j \in Sides : ~Red(t, t.child[j][c]), Calm(t, S, {}, {})
  PROVE  Calm(v, S, {p}, {p})
<1>1. /\ c \in S /\ c \in Node /\ c # t.root /\ S \subseteq Node /\ t.root \in S \cup {NULL}
      /\ \A j \in Sides : t.child[j][c] # c
      /\ \A y \in S, j \in Sides : t.child[j][y] = c => y = p
      /\ \A x \in S, j \in Sides : t.child[j][x] \in S \cup {NULL}
  BY Apart, ShapeIs
<1>2. \A x \in (S \cup {NULL}) \ {c} : Red(v, x) <=> Red(t, x)
  BY <1>1 DEF Red, Painted
<1>3. v.child = t.child /\ v.root = t.root
  BY DEF Painted
<1>4. /\ \A x \in S, j \in Sides : ~(Red(t, x) /\ Red(t, t.child[j][x]))
      /\ ~Red(t, t.root)
  BY DEF Calm
<1>5. ASSUME NEW x \in S, NEW j \in Sides, Red(v, x), Red(v, t.child[j][x])
      PROVE  x = p
  <2>1. CASE x = c
    BY <1>1, <1>2, <1>5, <2>1
  <2>2. CASE t.child[j][x] = c
    BY <1>1, <2>2
  <2>3. CASE x # c /\ t.child[j][x] # c
    BY <1>1, <1>2, <1>4, <1>5, <2>3
  <2> QED
    BY <2>1, <2>2, <2>3
<1>6. ~Red(v, v.root)
  BY <1>1, <1>2, <1>3, <1>4
<1> QED
  BY <1>3, <1>5, <1>6 DEF Calm

\* The heights after e has been painted black.
Raised(h, e) == [h EXCEPT ![e] = h[e] + 1]

\* What is lacking is made up for when the red element there becomes black.
LEMMA LowBalance ==
  ASSUME NEW t, NEW S, NEW sub, Shape(t, S, sub), NEW p, NEW d \in Sides, NEW e \in S, At(t, S, p, d, e),
         t.color[e] = "red", NEW v, Painted(t, e, "black", v), NEW h, Balanced(t, S, h, p, d)
  PROVE  Balanced(v, S, Raised(h, e), NULL, d)
<1> DEFINE ch == t.child
           g == Raised(h, e)
<1>1. /\ S \subseteq Node /\ e \in Node /\ e # NULL
      /\ \A x \in S, i \in Sides : ch[i][x] \in S \cup {NULL}
      /\ \A x \in S, i \in Sides : ch[i][x] # NULL => ch[i][x] # x
  <2>1. \A x \in S, i \in Sides : ch[i][x] # NULL => ch[i][x] # x
    BY Apart
  <2> QED
    BY <2>1, ShapeIs, NotNull
<1>2. \A x \in S, i \in Sides : ch[i][x] = e <=> x = p /\ i = d
  <2>1. CASE p = NULL /\ e = t.root
    <3>1. \A x \in S, i \in Sides : ch[i][x] # e
      BY <2>1, Place
    <3> QED
      BY <1>1, <2>1, <3>1, NotNull
  <2>2. CASE p \in S /\ ch[d][p] = e
    <3>1. \A y \in S, j \in Sides : ch[j][y] = e => y = p /\ j = d
      BY <1>1, <2>2, Apart
    <3> QED
      BY <2>2, <3>1
  <2> QED
    BY <2>1, <2>2 DEF At
<1>3. h \in [NodeOrNull -> Nat] /\ h[NULL] = 0 /\ e \in NodeOrNull /\ S \cup {NULL} \subseteq NodeOrNull
      /\ \A x \in S, i \in Sides : h[x] = h[ch[i][x]] + Lack(p, d, x, i) + Weight(t, x)
  BY <1>1 DEF Balanced, NodeOrNull
<1>4. /\ \A x \in S \ {e} : Weight(v, x) = Weight(t, x)
      /\ Weight(v, e) = 1 /\ Weight(t, e) = 0 /\ \A x \in S : Weight(t, x) \in Nat
  BY <1>1 DEF Painted, Weight
<1>5. v.child = ch
  BY DEF Painted
<1>6. \A x \in S, i \in Sides : Lack(NULL, d, x, i) = 0 /\ Lack(p, d, x, i) = (IF ch[i][x] = e THEN 1 ELSE 0)
  BY <1>1, <1>2, NotNull DEF Lack
<1>7. /\ g \in [NodeOrNull -> Nat] /\ g[e] = h[e] + 1 /\ h[e] \in Nat
      /\ \A x \in NodeOrNull \ {e} : g[x] = h[x]
  <2> DEFINE a == h[e] + 1
  <2>1. a \in Nat /\ h[e] \in Nat
    BY <1>3
  <2>2. g = [h EXCEPT ![e] = a]
    BY DEF Raised
  <2> HIDE DEF a, g
  <2>3. g \in [NodeOrNull -> Nat] /\ g[e] = a /\ \A x \in NodeOrNull \ {e} : g[x] = h[x]
    BY <1>3, <2>1, <2>2
  <2> QED
    BY <2>1, <2>3 DEF a
<1> HIDE DEF g, ch
<1>8. ASSUME NEW x \in S, NEW i \in Sides
      PROVE  g[x] = g[ch[i][x]] + Lack(NULL, d, x, i) + Weight(v, x)
  <2>1. CASE x = e
    <3>1. ch[i][x] \in NodeOrNull \ {e}
      BY <1>1, <1>3, <2>1
    <3>2. g[ch[i][x]] = h[ch[i][e]] /\ h[ch[i][e]] \in Nat
      BY <1>3, <1>7, <2>1, <3>1
    <3>3. h[e] = h[ch[i][e]] + 0 + 0
      BY <1>3, <1>4, <1>6, <2>1, <3>1
    <3>4. \A j, k \in Nat : j = k + 0 + 0 => j + 1 = k + 0 + 1
      OBVIOUS
    <3>5. h[e] + 1 = h[ch[i][e]] + 0 + 1
      BY <1>7, <3>2, <3>3, <3>4
    <3> QED
      BY <1>4, <1>6, <1>7, <2>1, <3>2, <3>5
  <2>2. CASE x # e /\ ch[i][x] = e
    <3>1. g[x] = h[x] /\ g[ch[i][x]] = h[e] + 1 /\ Weight(v, x) = Weight(t, x)
      BY <1>3, <1>4, <1>7, <2>2
    <3>2. h[x] = h[e] + 1 + Weight(t, x)
      BY <1>3, <1>6, <2>2
    <3>3. \A j, k \in Nat : j + 1 + k = (j + 1) + 0 + k
      OBVIOUS
    <3>4. h[x] = (h[e] + 1) + 0 + Weight(t, x)
      BY <1>4, <1>7, <3>2, <3>3
    <3> QED
      BY <1>6, <3>1, <3>4
  <2>3. CASE x # e /\ ch[i][x] # e
    <3>1. g[x] = h[x] /\ g[ch[i][x]] = h[ch[i][x]] /\ Weight(v, x) = Weight(t, x)
      BY <1>1, <1>3, <1>4, <1>7, <2>3
    <3>2. h[x] = h[ch[i][x]] + 0 + Weight(t, x)
      BY <1>3, <1>6, <2>3
    <3> QED
      BY <1>6, <3>1, <3>2
  <2> QED
    BY <2>1, <2>2, <2>3
<1>9. g[NULL] = 0
  BY <1>1, <1>3, <1>7
<1> QED
  BY <1>5, <1>7, <1>8, <1>9 DEF Balanced, g

\* The element where red meets red is painted black, and nothing else conflicts.
LEMMA LowCalm ==
  ASSUME NEW t, NEW S, NEW sub, Shape(t, S, sub), NEW e, NEW v, Painted(t, e, "black", v),
         Calm(t, S, {e}, {e})
  PROVE  Calm(v, S, {}, {})
<1>1. /\ S \subseteq Node /\ t.root \in S \cup {NULL}
      /\ \A x \in S, j \in Sides : t.child[j][x] \in S \cup {NULL}
  BY ShapeIs
<1>2. \A x \in S \cup {NULL} : Red(v, x) => x # e /\ Red(t, x)
  BY <1>1 DEF Red, Painted
<1>3. v.child = t.child /\ v.root = t.root
  BY DEF Painted
<1>4. /\ \A x \in S, j \in Sides : Red(t, x) /\ Red(t, t.child[j][x]) => x = e \/ t.child[j][x] = e
      /\ Red(t, t.root) => t.root = e
  BY DEF Calm
<1> QED
  BY <1>1, <1>2, <1>3, <1>4 DEF Calm

\* A red-black tree of the elements in S.
RbOk(t, S) ==
  \E sub, h, d : d \in Sides /\ Shape(t, S, sub) /\ Balanced(t, S, h, NULL, d) /\ Calm(t, S, {}, {})

\* A change of colour changes nothing else.
LEMMA PaintSame ==
  ASSUME NEW t, NEW e, NEW c, NEW v, Painted(t, e, c, v)
  PROVE  SameFields(t, v)
  BY DEF Painted, SameFields

\* What the loops leave to their last line.
LEMMA BlackEnd ==
  ASSUME NEW t, NEW S, NEW sub, Shape(t, S, sub), NEW p, NEW d \in Sides, NEW e, At(t, S, p, d, e),
         NEW h, Balanced(t, S, h, p, d), Calm(t, S, {e}, {e}), Red(t, e) \/ e = t.root
  PROVE  RbOk(Paint(t, e, "black"), S)
<1> DEFINE v == Paint(t, e, "black")
<1>1. /\ t \in RbMemory /\ S \subseteq Node /\ t.root \in S \cup {NULL}
      /\ \A x \in S, i \in Sides : t.child[i][x] \in S \cup {NULL} /\ t.child[i][x] # t.root
      /\ (S # {} => t.root \in S)
  <2>1. \A x \in S, i \in Sides : t.child[i][x] # t.root
    BY Place
  <2> QED
    BY <2>1, ShapeIs
<1>2. e \in S \cup {NULL} /\ e \in NodeOrNull
  BY <1>1 DEF At, NodeOrNull
<1>3. Painted(t, e, "black", v)
  BY <1>1, <1>2, RbPaint
<1> HIDE DEF v
<1>4. Shape(v, S, sub)
  BY <1>3, PaintSame, ShapeSame
<1>5. Calm(v, S, {}, {})
  BY <1>3, LowCalm
<1>6. CASE Red(t, e)
  <2>1. e \in S /\ t.color[e] = "red"
    BY <1>2, <1>6 DEF Red
  <2>2. Balanced(v, S, Raised(h, e), NULL, d)
    BY <1>3, <2>1, LowBalance
  <2> QED
    BY <1>4, <1>5, <2>2 DEF RbOk, v
<1>7. CASE ~Red(t, e)
  <2>1. p = NULL
    BY <1>1, <1>7 DEF At
  <2>2. \A x \in S : v.color[x] = t.color[x]
    <3>1. e \in Node => t.color[e] = "black"
      BY <1>1, <1>7, RbReads, NotNull DEF Red
    <3> QED
      BY <1>1, <1>3, <3>1 DEF Painted
  <2>3. v.child = t.child
    BY <1>3 DEF Painted
  <2>4. Balanced(v, S, h, NULL, d)
    BY <2>1, <2>2, <2>3 DEF Balanced, Weight
  <2> QED
    BY <1>4, <1>5, <2>4 DEF RbOk, v
<1> QED
  BY <1>6, <1>7

\* What RB_SET_BLACKRED does to the colours of b and r.
BlackRed(t, b, r, v) ==
  /\ SameFields(t, v)
  /\ \A x \in Node : v.color[x] = IF x = r THEN "red" ELSE IF x = b THEN "black" ELSE t.color[x]

\* What RB_SET_BLACKRED changes.
LEMMA BlackRedIs ==
  ASSUME NEW t \in RbMemory, NEW b \in NodeOrNull, NEW r \in NodeOrNull
  PROVE  BlackRed(t, b, r, RB_SET_BLACKRED(t, b, r))
<1> DEFINE a == Paint(t, b, "black")
           v == Paint(a, r, "red")
<1>1. Painted(t, b, "black", a)
  BY RbPaint
<1> HIDE DEF a
<1>2. a \in RbMemory
  BY <1>1 DEF Painted
<1>3. Painted(a, r, "red", v)
  BY <1>2, RbPaint
<1> HIDE DEF v
<1>4. BlackRed(t, b, r, v)
  BY <1>1, <1>3, SMTT(30) DEF Painted, BlackRed, SameFields
<1> QED
  BY <1>4 DEF RB_SET_BLACKRED, a, v

-----------------------------------------------------------------------------
(* Insertion                                                               *)

\* The colours after a black element and its red children have changed theirs.
Flushes(t, n, a, b, v) ==
  /\ SameFields(t, v)
  /\ \A x \in Node : v.color[x] = IF x = n THEN "red" ELSE IF x = a \/ x = b THEN "black" ELSE t.color[x]

\* The heights after the colours of a and b have become black.
FlushedHeights(h, a, b) == [h EXCEPT ![a] = h[a] + 1, ![b] = h[b] + 1]

\* A black element that turns red, and its red children black, count the same.
LEMMA FlushBalance ==
  ASSUME NEW t, NEW S, NEW sub, Shape(t, S, sub), NEW n \in S, NEW side \in Sides, t.color[n] = "black",
         NEW a, a = t.child[side][n], Red(t, a), NEW b, b = t.child[Other(side)][n], Red(t, b),
         NEW v, Flushes(t, n, a, b, v), NEW h, NEW d \in Sides, Balanced(t, S, h, NULL, d)
  PROVE  Balanced(v, S, FlushedHeights(h, a, b), NULL, d)
<1> DEFINE ch == t.child
           g == FlushedHeights(h, a, b)
           far == Other(side)
<1>1. far \in Sides /\ far # side /\ \A i \in Sides : i = side \/ i = far
  BY SideFacts
<1>2. a # NULL /\ b # NULL /\ a = ch[side][n] /\ b = ch[far][n]
  BY DEF Red
<1> HIDE DEF far
<1>3. /\ S \subseteq Node /\ n \in Node /\ a \in S /\ b \in S /\ a # n /\ b # n
      /\ \A x \in S, i \in Sides : ch[i][x] = a => x = n /\ i = side
      /\ \A x \in S, i \in Sides : ch[i][x] = b => x = n /\ i = far
      /\ \A i \in Sides : ch[i][a] # a /\ ch[i][b] # b /\ ch[i][a] # n /\ ch[i][b] # n
      /\ \A x \in S, i \in Sides : ch[i][x] \in S \cup {NULL}
  <2>1. /\ n \in Node /\ a \in S /\ a # n
        /\ \A i \in Sides : ch[i][a] # a /\ ch[i][a] # n
        /\ \A x \in S, i \in Sides : ch[i][x] = a => x = n /\ i = side
    BY <1>2, Apart
  <2>2. /\ b \in S /\ b # n
        /\ \A i \in Sides : ch[i][b] # b /\ ch[i][b] # n
        /\ \A x \in S, i \in Sides : ch[i][x] = b => x = n /\ i = far
    BY <1>1, <1>2, Apart
  <2> QED
    BY <2>1, <2>2, ShapeIs
<1>4. a # b
  BY <1>1, <1>2, <1>3
<1>5. h \in [NodeOrNull -> Nat] /\ h[NULL] = 0 /\ a \in NodeOrNull /\ b \in NodeOrNull /\ S \cup {NULL} \subseteq NodeOrNull
      /\ \A x \in S, i \in Sides : h[x] = h[ch[i][x]] + Lack(NULL, d, x, i) + Weight(t, x)
  BY <1>3 DEF Balanced, NodeOrNull
<1>6. \A x \in S, i \in Sides : Lack(NULL, d, x, i) = 0
  BY <1>3, NotNull DEF Lack
<1>7. \A x \in S, i \in Sides : h[x] = h[ch[i][x]] + Weight(t, x) /\ h[x] \in Nat /\ h[ch[i][x]] \in Nat
  <2> SUFFICES ASSUME NEW x \in S, NEW i \in Sides
               PROVE  h[x] = h[ch[i][x]] + Weight(t, x) /\ h[x] \in Nat /\ h[ch[i][x]] \in Nat
    OBVIOUS
  <2>1. h[x] = h[ch[i][x]] + 0 + Weight(t, x)
    BY <1>5, <1>6
  <2>2. h[x] \in Nat /\ h[ch[i][x]] \in Nat /\ Weight(t, x) \in Nat
    BY <1>3, <1>5 DEF Weight
  <2>3. \A j, k \in Nat : j + 0 + k = j + k
    OBVIOUS
  <2> QED
    BY <2>1, <2>2, <2>3
<1>8. /\ Weight(t, n) = 1 /\ Weight(t, a) = 0 /\ Weight(t, b) = 0
      /\ Weight(v, n) = 0 /\ Weight(v, a) = 1 /\ Weight(v, b) = 1
      /\ \A x \in S \ {n, a, b} : Weight(v, x) = Weight(t, x)
  BY <1>3 DEF Flushes, Weight, Red
<1>9. v.child = ch
  BY DEF Flushes, SameFields
<1>10. /\ g \in [NodeOrNull -> Nat] /\ g[a] = h[a] + 1 /\ g[b] = h[b] + 1
       /\ \A x \in NodeOrNull \ {a, b} : g[x] = h[x]
  <2> DEFINE y == h[a] + 1
             z == h[b] + 1
  <2>1. y \in Nat /\ z \in Nat
    BY <1>5
  <2>2. g = [h EXCEPT ![a] = y, ![b] = z]
    BY DEF FlushedHeights
  <2> HIDE DEF y, z, g
  <2>3. g \in [NodeOrNull -> Nat] /\ g[a] = y /\ g[b] = z /\ \A x \in NodeOrNull \ {a, b} : g[x] = h[x]
    BY <1>4, <1>5, <2>1, <2>2
  <2> QED
    BY <2>3 DEF y, z
<1> HIDE DEF g, ch
<1>11. ASSUME NEW x \in S, NEW i \in Sides
       PROVE  g[x] = g[ch[i][x]] + Weight(v, x)
  <2>1. CASE x = n
    <3>1. g[x] = h[n] /\ g[ch[i][x]] = h[ch[i][x]] + 1
      BY <1>1, <1>2, <1>3, <1>5, <1>10, <2>1
    <3>2. h[n] = h[ch[i][n]] + 1 /\ h[ch[i][n]] \in Nat
      BY <1>7, <1>8
    <3> QED
      BY <1>8, <2>1, <3>1, <3>2
  <2>2. CASE x = a \/ x = b
    <3>1. ch[i][x] # a /\ ch[i][x] # b
      BY <1>3, <2>2
    <3>2. g[x] = h[x] + 1 /\ g[ch[i][x]] = h[ch[i][x]]
      BY <1>3, <1>5, <1>10, <2>2, <3>1
    <3>3. h[x] = h[ch[i][x]] + 0 /\ h[ch[i][x]] \in Nat
      BY <1>7, <1>8, <2>2
    <3> QED
      BY <1>8, <2>2, <3>2, <3>3
  <2>3. CASE x \notin {n, a, b}
    <3>1. ch[i][x] # a /\ ch[i][x] # b
      BY <1>3, <2>3
    <3>2. g[x] = h[x] /\ g[ch[i][x]] = h[ch[i][x]]
      BY <1>3, <1>5, <1>10, <2>3, <3>1
    <3> QED
      BY <1>7, <1>8, <2>3, <3>2
  <2> QED
    BY <2>1, <2>2, <2>3
<1>12. ASSUME NEW x \in S, NEW i \in Sides
       PROVE  g[x] = g[ch[i][x]] + Lack(NULL, d, x, i) + Weight(v, x)
  <2>1. g[ch[i][x]] \in Nat /\ Weight(v, x) \in Nat
    BY <1>3, <1>5, <1>10 DEF Weight
  <2>2. \A j, k \in Nat : j + k = j + 0 + k
    OBVIOUS
  <2>3. g[x] = g[ch[i][x]] + 0 + Weight(v, x)
    BY <1>11, <2>1, <2>2
  <2> QED
    BY <1>6, <2>3
<1>13. g[NULL] = 0
  BY <1>2, <1>5, <1>10
<1> QED
  BY <1>9, <1>10, <1>12, <1>13 DEF Balanced, g

\* elm is a child of a or b, if of anything, and not the root.
ChildOf(t, S, elm, a, b) ==
  elm # t.root /\ \A x \in S, i \in Sides : t.child[i][x] = elm => x = a \/ x = b

\* Only e may be red below a red element, or at the root.
CalmBut(t, S, e) == Calm(t, S, {}, {e})

\* After the colours have moved up, only the element itself may be red below red.
LEMMA FlushCalm ==
  ASSUME NEW t, NEW S, NEW sub, Shape(t, S, sub), NEW n \in S, NEW side \in Sides,
         NEW a, a = t.child[side][n], NEW b, b = t.child[Other(side)][n],
         NEW v, Flushes(t, n, a, b, v), NEW elm, CalmBut(t, S, elm),
         ChildOf(t, S, elm, a, b)
  PROVE  CalmBut(v, S, n)
<1> DEFINE ch == t.child
<1>1. \A i \in Sides : i = side \/ i = Other(side)
  BY SideFacts
<1>2. /\ S \subseteq Node /\ t.root \in S \cup {NULL}
      /\ \A x \in S, i \in Sides : ch[i][x] \in S \cup {NULL}
      /\ a \in S \cup {NULL} /\ b \in S \cup {NULL}
  BY ShapeIs, SideFacts
<1>3. \A x \in S \cup {NULL} : Red(v, x) => x = n \/ (x # a /\ x # b /\ Red(t, x))
  BY <1>2 DEF Red, Flushes
<1>4. v.child = ch /\ v.root = t.root
  BY DEF Flushes, SameFields
<1>5. /\ \A x \in S, i \in Sides : Red(t, x) /\ Red(t, ch[i][x]) => ch[i][x] = elm
      /\ ~Red(t, t.root)
  BY DEF Calm, CalmBut, ChildOf
<1>6. \A i \in Sides : ch[i][n] = a \/ ch[i][n] = b
  BY <1>1
<1>7. \A x \in S, i \in Sides : ch[i][x] = elm => x = a \/ x = b
  BY DEF ChildOf
<1> HIDE DEF ch
<1>8. ASSUME NEW x \in S, NEW i \in Sides, Red(v, x), Red(v, ch[i][x])
      PROVE  ch[i][x] = n
  <2> SUFFICES ASSUME ch[i][x] # n PROVE FALSE
    OBVIOUS
  <2>1. ch[i][x] # a /\ ch[i][x] # b /\ Red(t, ch[i][x])
    BY <1>2, <1>3, <1>8
  <2>2. x # n
    BY <1>6, <2>1
  <2>3. x # a /\ x # b /\ Red(t, x)
    BY <1>3, <1>8, <2>2
  <2> QED
    BY <1>5, <1>7, <2>1, <2>3
<1>9. Red(v, v.root) => v.root = n
  BY <1>2, <1>3, <1>4, <1>5
<1> QED
  BY <1>4, <1>8, <1>9 DEF Calm, CalmBut

\* A red element elm of the tree, which may have a red parent.
Inserting(t, S, sub, elm) ==
  /\ elm \in S /\ t.color[elm] = "red" /\ Shape(t, S, sub) /\ Calm(t, S, {}, {elm})
  /\ \E h, d : d \in Sides /\ Balanced(t, S, h, NULL, d)

\* RB_INSERT_COLOR has only to paint the root.
InsertDone(t, S, elm) ==
  (\E sub : Inserting(t, S, sub, elm)) /\ ~Red(t, t.parent[elm])

\* In v the red element elm has taken the place of its red parent n.
InnerTurned(t, S, side, n, elm, v) ==
  /\ Turns(t, S, side, n, elm, v) /\ v.color = t.color
  /\ (\E f : Shape(v, S, f)) /\ Calm(v, S, {elm}, {})
  /\ \E h, d : d \in Sides /\ Balanced(v, S, h, NULL, d)

\* The rotation at the parent of an inner elm changes the two only.
LEMMA InnerTurn ==
  ASSUME NEW t, NEW S, NEW sub, NEW elm, Inserting(t, S, sub, elm), NEW n \in S, NEW side \in Sides,
         elm = t.child[Other(side)][n], t.color[n] = "red"
  PROVE  InnerTurned(t, S, side, n, elm, RB_ROTATE(t, side, n))
<1> DEFINE far == Other(side)
           ch == t.child
           v == RB_ROTATE(t, side, n)
           new == v.child
           r == t.root
<1>1. far \in Sides /\ far # side /\ \A i \in Sides : i = side \/ i = far
  BY SideFacts
<1>2. elm \in S /\ t.color[elm] = "red" /\ Shape(t, S, sub) /\ Calm(t, S, {}, {elm})
  BY DEF Inserting
<1>3. S \subseteq Node /\ elm # NULL /\ n # NULL /\ r \in S \cup {NULL}
  BY <1>2, ShapeIs, NotNull
<1>4. Turns(t, S, side, n, elm, v) /\ v.color = t.color
  BY <1>2, <1>3, RotateTurns
<1> HIDE DEF v
<1>5. Shape(v, S, Turned(sub, n, elm, Other(side)))
  BY <1>2, <1>3, <1>4, TurnsShape
<1>6. \E h, d : d \in Sides /\ Balanced(v, S, h, NULL, d)
  <2>1. PICK h, d : d \in Sides /\ Balanced(t, S, h, NULL, d)
    BY DEF Inserting
  <2>2. Swaps(t, S, n, elm, v)
    BY <1>2, <1>4 DEF Swaps
  <2> DEFINE p == NULL
  <2>3. Balanced(t, S, h, p, d) /\ p # elm /\ (p = n => d = side)
    BY <1>3, <2>1
  <2> HIDE DEF p
  <2>4. FarChild(t, side, n, elm) /\ Red(t, elm)
    BY <1>2, <1>3 DEF FarChild, Red
  <2>5. Balanced(v, S, Swapped(h, n, elm), p, d)
    BY <1>2, <1>4, <2>1, <2>2, <2>3, <2>4, SwapBalance
  <2> QED
    BY <2>1, <2>5 DEF p
<1>7. /\ elm # n /\ \A i \in Sides : ch[i][n] # n /\ ch[i][elm] # n /\ ch[i][elm] # elm
      /\ ch[side][n] # elm
      /\ \A x \in S \ {n}, i \in Sides : ch[i][x] # elm
  BY <1>2, <1>3, Around
<1>8. /\ new[far][n] = ch[side][elm] /\ new[side][n] = ch[side][n]
      /\ \A x \in S \ {n, elm}, i \in Sides : new[i][x] = IF ch[i][x] = n THEN elm ELSE ch[i][x]
      /\ v.root = (IF r = n THEN elm ELSE r)
  BY <1>4 DEF Turns
<1>9. /\ \A x \in S, i \in Sides : Red(t, x) /\ Red(t, ch[i][x]) => ch[i][x] = elm
      /\ (Red(t, r) => r = elm)
  BY <1>2 DEF Calm
<1>10. Red(t, n) /\ Red(t, elm) /\ \A x : Red(v, x) <=> Red(t, x)
  BY <1>2, <1>3, <1>4 DEF Red
<1> HIDE DEF far, ch, new, r
<1>11. ASSUME NEW x \in S, NEW i \in Sides, Red(v, x), Red(v, new[i][x]) PROVE x = elm
  <2> SUFFICES ASSUME x # elm PROVE FALSE
    OBVIOUS
  <2>1. CASE x = n /\ i = far
    BY <1>2, <1>7, <1>8, <1>9, <1>10, <1>11, <2>1
  <2>2. CASE x = n /\ i = side
    BY <1>7, <1>8, <1>9, <1>10, <1>11, <2>2
  <2>3. CASE x # n
    <3>1. CASE ch[i][x] = n
      BY <1>7, <1>9, <1>10, <1>11, <3>1
    <3>2. CASE ch[i][x] # n
      <4>1. new[i][x] = ch[i][x]
        BY <1>8, <2>3, <3>2
      <4> QED
        BY <1>7, <1>9, <1>10, <1>11, <2>3, <4>1
    <3> QED
      BY <3>1, <3>2
  <2> QED
    BY <1>1, <2>1, <2>2, <2>3
<1>12. ~Red(v, v.root)
  <2>1. r # n
    BY <1>7, <1>9, <1>10
  <2>2. r # elm
    <3>1. \A x \in S, i \in Sides : ch[i][x] # r
      BY <1>2, Place DEF ch, r
    <3>2. ch[far][n] = elm
      BY DEF ch, far
    <3> QED
      BY <1>1, <3>1, <3>2
  <2> QED
    BY <1>8, <1>9, <1>10, <2>1, <2>2
<1>13. Calm(v, S, {elm}, {})
  BY <1>11, <1>12 DEF Calm, new
<1> QED
  BY <1>4, <1>5, <1>6, <1>13 DEF InnerTurned, v

\* The red child top of the black n, and the red child low of top, are on one
\* side, and what is on the other side of n and of top is black.
Outer(u, n, side, top, low) ==
  /\ top = u.child[side][n] /\ u.color[top] = "red" /\ top # NULL /\ u.color[n] = "black"
  /\ low = u.child[side][top] /\ Red(u, low)
  /\ ~Red(u, u.child[Other(side)][n]) /\ ~Red(u, u.child[Other(side)][top])

\* The turn that brings top above n.
OuterTurned(u, n, side, top, v) ==
  v = RB_ROTATE(RB_SET_BLACKRED(u, top, n), Other(side), n)

\* The last rotation of an insertion.
LEMMA InsertLast ==
  ASSUME NEW u, NEW S, NEW sub, Shape(u, S, sub), NEW h, NEW d \in Sides, Balanced(u, S, h, NULL, d),
         NEW n \in S, NEW side \in Sides, NEW top, NEW low, Outer(u, n, side, top, low),
         Calm(u, S, {top}, {}), NEW v, OuterTurned(u, n, side, top, v)
  PROVE  InsertDone(v, S, low)
<1> DEFINE far == Other(side)
           w == RB_SET_BLACKRED(u, top, n)
<1>1. far \in Sides /\ Other(far) = side /\ side # far
  BY SideFacts
<1>2. v = RB_ROTATE(w, far, n)
  BY DEF OuterTurned
<1> HIDE DEF w
<1>3. u \in RbMemory /\ S \subseteq Node /\ n \in Node /\ n # NULL
  BY ShapeIs, NotNull
<1>4. top = u.child[Other(far)][n] /\ top # NULL
  BY <1>1 DEF Outer
<1>5. FarChild(u, far, n, top)
  BY <1>4 DEF FarChild
<1>6. Red(u, top) /\ Red(u, low)
  BY DEF Outer, Red
<1>7. top \in S /\ top \in Node /\ top # n
  BY <1>1, <1>4, Apart
<1>8. n \in NodeOrNull /\ top \in NodeOrNull
  BY <1>3, <1>7 DEF NodeOrNull
<1>9. low = u.child[side][top]
  BY DEF Outer
<1>10. low # NULL
  BY <1>6 DEF Red
<1>11. low \in S /\ low \in Node /\ low # top /\ low # n
  <2>1. low \in S /\ low \in Node /\ low # top
    BY <1>7, <1>9, <1>10, Apart
  <2>2. u.child[side][top] # n
    BY <1>1, <1>4, Around
  <2> QED
    BY <1>9, <2>1, <2>2
<1>12. BlackRed(u, top, n, w)
  BY <1>3, <1>8, BlackRedIs DEF w
<1>13. SameFields(u, w)
  BY <1>12 DEF BlackRed
<1>14. Shape(w, S, sub)
  BY <1>13, ShapeSame
<1>15. top = w.child[Other(far)][n]
  BY <1>4, <1>13 DEF SameFields
<1> HIDE DEF far
<1>16. Turns(w, S, far, n, top, v) /\ v.color = w.color
  <2>1. Turns(w, S, far, n, top, RB_ROTATE(w, far, n)) /\ RB_ROTATE(w, far, n).color = w.color
    BY <1>1, <1>4, <1>14, <1>15, RotateTurns
  <2> QED
    BY <1>2, <2>1
<1>17. Turns(u, S, far, n, top, v)
  BY <1>13, <1>16, TurnsSame
<1>18. Shape(v, S, Turned(sub, n, top, Other(far)))
  BY <1>1, <1>4, <1>17, TurnsShape
<1>19. v.color[top] = "black" /\ v.color[n] = "red" /\ \A x \in Node \ {n, top} : v.color[x] = u.color[x]
  BY <1>3, <1>7, <1>12, <1>16 DEF BlackRed
<1>20. Swaps(u, S, n, top, v)
  <2>1. u.color[n] = "black" /\ u.color[top] = "red"
    BY DEF Outer
  <2> QED
    BY <1>3, <1>19, <2>1 DEF Swaps
<1>21. Balanced(v, S, Swapped(h, n, top), NULL, d)
  <2> DEFINE p == NULL
  <2>1. Balanced(u, S, h, p, d) /\ p # top /\ (p = n => d = far)
    BY <1>3, <1>4
  <2> HIDE DEF p
  <2>2. Balanced(v, S, Swapped(h, n, top), p, d)
    BY <1>1, <1>5, <1>6, <1>17, <1>20, <2>1, SwapBalance
  <2> QED
    BY <2>2 DEF p
<1>22. Calm(v, S, {}, {})
  <2>1. BlackBelow(u, far, n, top)
    BY DEF BlackBelow, Outer, far
  <2> QED
    BY <1>1, <1>5, <1>17, <1>20, <2>1, SwapCalm
<1>23. v.child[side][top] = low
  <2>1. v.child[Other(far)][top] = u.child[Other(far)][top]
    BY <1>17 DEF Turns
  <2> QED
    BY <1>1, <1>9, <2>1
<1>24. v.parent[low] = top
  <2>1. \A x \in S, i \in Sides : v.child[i][x] # NULL => v.parent[v.child[i][x]] = x
    BY <1>18 DEF Shape
  <2>2. v.child[side][top] # NULL => v.parent[v.child[side][top]] = top
    BY <1>7, <2>1
  <2> QED
    BY <1>10, <1>23, <2>2
<1>25. ~Red(v, top)
  BY <1>19 DEF Red
<1>26. v.color[low] = "red"
  BY <1>6, <1>11, <1>19 DEF Red
<1>27. Calm(v, S, {}, {low})
  BY <1>22 DEF Calm
<1>28. \E f : Inserting(v, S, f, low)
  BY <1>11, <1>18, <1>21, <1>26, <1>27 DEF Inserting
<1> QED
  BY <1>24, <1>25, <1>28 DEF InsertDone

\* The parent p of elm is red, and g is above p.
RedParent(t, elm, p, g) == p = t.parent[elm] /\ Red(t, p) /\ g = t.parent[p]

\* Where a red element below a red parent is.
InsertAt(t, S, elm, p, g) ==
  /\ p \in S /\ p # elm /\ p # NULL /\ g \in S /\ g # p /\ g # NULL /\ g # elm /\ elm # t.root
  /\ t.color[g] = "black" /\ t.color[p] = "red"
  /\ \A x \in S, i \in Sides : t.child[i][x] = elm => x = p
  /\ \A x \in S, i \in Sides : t.child[i][x] = p => x = g
  /\ \E i \in Sides : t.child[i][p] = elm /\ t.child[Other(i)][p] # elm
  /\ \E i \in Sides : t.child[i][g] = p /\ t.child[Other(i)][g] # p

\* The grandparent of a red element with a red parent is a black element.
LEMMA InsertPlace ==
  ASSUME NEW t, NEW S, NEW sub, NEW elm, Inserting(t, S, sub, elm), NEW p, NEW g, RedParent(t, elm, p, g)
  PROVE  InsertAt(t, S, elm, p, g)
<1>0. p = t.parent[elm] /\ Red(t, p) /\ g = t.parent[p]
  BY DEF RedParent
<1>1. elm \in S /\ t.color[elm] = "red" /\ Shape(t, S, sub) /\ Calm(t, S, {}, {elm})
  BY DEF Inserting
<1>2. elm # NULL /\ p # NULL /\ t \in RbMemory /\ S \subseteq Node
  BY <1>0, <1>1, ShapeIs, NotNull DEF Red
<1>3. /\ elm # t.root /\ p \in S /\ p # elm
      /\ \E i \in Sides : t.child[i][p] = elm /\ t.child[Other(i)][p] # elm
      /\ \A x \in S, i \in Sides : t.child[i][x] = elm => x = p
  <2>1. /\ elm = t.root => t.parent[elm] = NULL
        /\ elm # t.root => p \in S /\ p # elm
             /\ \E i \in Sides : t.child[i][p] = elm /\ t.child[Other(i)][p] # elm
        /\ \A x \in S, i \in Sides : t.child[i][x] = elm => x = p
    BY <1>0, <1>1, Place
  <2> QED
    BY <1>0, <1>2, <2>1
<1>4. /\ \A x \in S, i \in Sides : Red(t, x) /\ Red(t, t.child[i][x]) => t.child[i][x] = elm
      /\ Red(t, t.root) => t.root = elm
  BY <1>1 DEF Calm
<1>5. p # t.root
  BY <1>0, <1>3, <1>4
<1>6. /\ g \in S /\ g # p /\ g # NULL
      /\ \E i \in Sides : t.child[i][g] = p /\ t.child[Other(i)][g] # p
      /\ \A x \in S, i \in Sides : t.child[i][x] = p => x = g
  BY <1>0, <1>1, <1>3, <1>5, Place
<1>7. ~Red(t, g)
  BY <1>0, <1>3, <1>4, <1>6
<1>8. t.color[g] = "black" /\ t.color[p] = "red"
  BY <1>0, <1>2, <1>6, <1>7, RbReads DEF Red
<1>9. g # elm
  BY <1>1, <1>8
<1> QED
  BY <1>2, <1>3, <1>6, <1>8, <1>9 DEF InsertAt

\* p is below g on that side, and its sibling b is red.
RedUncle(t, side, p, g, b) == p = t.child[side][g] /\ b = t.child[Other(side)][g] /\ Red(t, b)

\* p is below g on that side, and its sibling is black.
BlackUncle(t, side, p, g) == p = t.child[side][g] /\ ~Red(t, t.child[Other(side)][g])

\* A turn of the loop of RB_INSERT_COLOR.
InsertMove(t, elm, r) == Red(t, t.parent[elm]) /\ r = InsertTurn(t, elm)

\* A turn whose parent and uncle are red.
LEMMA InsertFlush ==
  ASSUME NEW t, NEW S, NEW sub, NEW elm, Inserting(t, S, sub, elm),
         NEW p, NEW g, RedParent(t, elm, p, g),
         NEW side \in Sides, NEW b, RedUncle(t, side, p, g, b)
  PROVE  Inserting(RB_SET_BLACKRED(Paint(t, b, "black"), p, g), S, sub, g)
<1> DEFINE a == Paint(t, b, "black")
           v == RB_SET_BLACKRED(a, p, g)
<1>1. /\ p \in S /\ g \in S /\ elm # t.root /\ t.color[g] = "black" /\ g # elm
      /\ \A x \in S, i \in Sides : t.child[i][x] = elm => x = p
  BY InsertPlace DEF InsertAt
<1>2. Shape(t, S, sub) /\ Calm(t, S, {}, {elm})
  BY DEF Inserting
<1>3. /\ t \in RbMemory /\ S \subseteq Node /\ g \in Node /\ p \in NodeOrNull /\ g \in NodeOrNull /\ b \in NodeOrNull
  <2>1. t \in RbMemory /\ S \subseteq Node /\ \A x \in S, i \in Sides : t.child[i][x] \in S \cup {NULL}
    BY <1>2, ShapeIs
  <2> QED
    BY <1>1, <2>1, SideFacts DEF NodeOrNull, RedUncle
<1>4. Painted(t, b, "black", a)
  BY <1>3, RbPaint
<1> HIDE DEF a
<1>5. a \in RbMemory
  BY <1>4 DEF Painted
<1>6. BlackRed(a, p, g, v)
  BY <1>3, <1>5, BlackRedIs
<1> HIDE DEF v
<1>7. Flushes(t, g, p, b, v)
  BY <1>4, <1>6 DEF Flushes, Painted, BlackRed, SameFields
<1>14. p = t.child[side][g] /\ b = t.child[Other(side)][g] /\ Red(t, b)
  BY DEF RedUncle
<1>8. Red(t, p)
  BY DEF RedParent
<1>9. CalmBut(v, S, g)
  <2>1. ChildOf(t, S, elm, p, b)
    BY <1>1 DEF ChildOf
  <2>2. CalmBut(t, S, elm)
    BY <1>2 DEF CalmBut
  <2> QED
    BY <1>1, <1>2, <1>7, <1>14, <2>1, <2>2, FlushCalm
<1>10. Shape(v, S, sub)
  BY <1>2, <1>7, ShapeSame DEF Flushes
<1>11. v.color[g] = "red"
  BY <1>3, <1>7 DEF Flushes
<1>12. \E h, d : d \in Sides /\ Balanced(v, S, h, NULL, d)
  <2>1. PICK h, d : d \in Sides /\ Balanced(t, S, h, NULL, d)
    BY DEF Inserting
  <2>2. Balanced(v, S, FlushedHeights(h, p, b), NULL, d)
    BY <1>1, <1>2, <1>7, <1>8, <1>14, <2>1, FlushBalance
  <2> QED
    BY <2>1, <2>2
<1>13. Inserting(v, S, sub, g)
  BY <1>1, <1>9, <1>10, <1>11, <1>12 DEF Inserting, CalmBut
<1> QED
  BY <1>13 DEF a, v

\* A turn whose uncle is black.
LEMMA InsertTurns ==
  ASSUME NEW t, NEW S, NEW sub, NEW elm, Inserting(t, S, sub, elm),
         NEW p, NEW g, RedParent(t, elm, p, g),
         NEW side \in Sides, BlackUncle(t, side, p, g)
  PROVE  /\ elm = t.child[Other(side)][p] =>
              InsertDone(RB_ROTATE(RB_SET_BLACKRED(RB_ROTATE(t, side, p), elm, g), Other(side), g), S, p)
         /\ elm # t.child[Other(side)][p] =>
              InsertDone(RB_ROTATE(RB_SET_BLACKRED(t, p, g), Other(side), g), S, elm)
<1> DEFINE far == Other(side)
           u == RB_ROTATE(t, side, p)
<1>1. /\ p \in S /\ p # elm /\ p # NULL /\ g \in S /\ g # p /\ g # elm /\ elm # t.root
      /\ t.color[g] = "black" /\ t.color[p] = "red"
      /\ \A x \in S, i \in Sides : t.child[i][x] = elm => x = p
      /\ \A x \in S, i \in Sides : t.child[i][x] = p => x = g
      /\ \E i \in Sides : t.child[i][p] = elm /\ t.child[Other(i)][p] # elm
      /\ \E i \in Sides : t.child[i][g] = p /\ t.child[Other(i)][g] # p
  BY InsertPlace DEF InsertAt
<1>2. elm \in S /\ t.color[elm] = "red" /\ Shape(t, S, sub) /\ Calm(t, S, {}, {elm})
  BY DEF Inserting
<1>3. far \in Sides /\ far # side /\ Other(far) = side /\ \A i \in Sides : i = side \/ i = far
  BY SideFacts
<1>4. t \in RbMemory /\ S \subseteq Node /\ elm # NULL /\ elm \in Node /\ p \in Node /\ g \in Node
  <2>1. t \in RbMemory /\ S \subseteq Node
    BY <1>2, ShapeIs
  <2> QED
    BY <1>1, <1>2, <2>1, NotNull
<1>5. /\ \A x \in S, i \in Sides : Red(t, x) /\ Red(t, t.child[i][x]) => t.child[i][x] = elm
      /\ Red(t, t.root) => t.root = elm
  BY <1>2 DEF Calm
<1>6. Red(t, elm) /\ Red(t, p)
  BY <1>2, <1>4 DEF Red, RedParent
<1>7. ASSUME elm = t.child[far][p]
      PROVE  InsertDone(RB_ROTATE(RB_SET_BLACKRED(u, elm, g), far, g), S, p)
  <2>0. elm = t.child[Other(side)][p]
    BY <1>7
  <2>9. InnerTurned(t, S, side, p, elm, u)
    BY <1>1, <2>0, InnerTurn
  <2> HIDE DEF u
  <2>1. /\ Turns(t, S, side, p, elm, u) /\ u.color = t.color
        /\ (\E f : Shape(u, S, f)) /\ Calm(u, S, {elm}, {})
        /\ \E h, d : d \in Sides /\ Balanced(u, S, h, NULL, d)
    BY <2>9 DEF InnerTurned
  <2>2. PICK f, h, d : Shape(u, S, f) /\ d \in Sides /\ Balanced(u, S, h, NULL, d)
    BY <2>1
  <2>3. \A i \in Sides : t.child[i][elm] # elm
    <3>1. \A x \in S, i \in Sides : t.child[i][x] = elm => x = p
      BY <1>1
    <3> QED
      BY <1>1, <1>2, <3>1
  <2>4. /\ u.child[side][g] = elm /\ u.child[far][g] = t.child[far][g]
        /\ u.child[side][elm] = p /\ u.child[far][elm] = t.child[far][elm]
    <3>1. /\ u.child[side][elm] = p /\ u.child[far][elm] = t.child[far][elm]
          /\ \A x \in S \ {p, elm}, i \in Sides : u.child[i][x] = IF t.child[i][x] = p THEN elm ELSE t.child[i][x]
      BY <2>1 DEF Turns
    <3>2. t.child[side][g] = p /\ t.child[far][g] # p
      BY <1>1, <1>3 DEF BlackUncle
    <3> QED
      BY <1>1, <1>3, <3>1, <3>2
  <2>5. \A x : Red(u, x) <=> Red(t, x)
    BY <2>1 DEF Red
  <2>6. ~Red(u, u.child[far][g]) /\ ~Red(u, u.child[far][elm]) /\ Red(u, p)
    <3>1. ~Red(u, u.child[far][g])
      BY <2>4, <2>5 DEF BlackUncle
    <3>2. ~Red(u, u.child[far][elm])
      BY <1>2, <1>3, <1>5, <1>6, <2>3, <2>4, <2>5
    <3> QED
      BY <1>6, <2>5, <3>1, <3>2
  <2>7. u.color[elm] = "red" /\ u.color[g] = "black"
    BY <1>1, <1>2, <2>1
  <2>8. Outer(u, g, side, elm, p)
    BY <1>4, <2>4, <2>6, <2>7 DEF Outer
  <2>10. OuterTurned(u, g, side, elm, RB_ROTATE(RB_SET_BLACKRED(u, elm, g), far, g))
    BY DEF OuterTurned
  <2> QED
    BY <1>1, <2>1, <2>2, <2>8, <2>10, InsertLast
<1>8. ASSUME elm # t.child[far][p]
      PROVE  InsertDone(RB_ROTATE(RB_SET_BLACKRED(t, p, g), far, g), S, elm)
  <2>1. elm = t.child[side][p]
    BY <1>1, <1>3, <1>8
  <2>2. ~Red(t, t.child[far][p])
    BY <1>1, <1>3, <1>5, <1>6, <1>8
  <2>3. Calm(t, S, {p}, {})
    <3>1. \A x \in S, i \in Sides : Red(t, x) /\ Red(t, t.child[i][x]) => x \in {p}
      BY <1>1, <1>5
    <3> QED
      BY <1>1, <1>5, <3>1 DEF Calm
  <2>4. PICK h, d : d \in Sides /\ Balanced(t, S, h, NULL, d)
    BY Zenon DEF Inserting
  <2>5. Outer(t, g, side, p, elm)
    BY <1>1, <1>6, <2>1, <2>2 DEF Outer, BlackUncle
  <2>6. OuterTurned(t, g, side, p, RB_ROTATE(RB_SET_BLACKRED(t, p, g), far, g))
    BY DEF OuterTurned
  <2> QED
    BY <1>1, <1>2, <2>3, <2>4, <2>5, <2>6, InsertLast
<1> QED
  BY <1>7, <1>8

\* A turn repaints, and goes up, or it is the last.
LEMMA InsertStep ==
  ASSUME NEW t, NEW S, NEW sub, NEW elm, Inserting(t, S, sub, elm), NEW r, InsertMove(t, elm, r)
  PROVE  \/ InsertDone(r.tree, S, r.elm)
         \/ /\ Inserting(r.tree, S, sub, r.elm) /\ sub[elm] \subseteq sub[r.elm]
            /\ r.elm \in S /\ r.elm \notin sub[elm]
<1> DEFINE p == t.parent[elm]
           g == t.parent[p]
           side == IF p = t.child["left"][g] THEN "left" ELSE "right"
           far == Other(side)
           b == t.child[far][g]
<1>0. RedParent(t, elm, p, g)
  BY DEF RedParent, InsertMove
<1>1. /\ p \in S /\ p # elm /\ p # NULL /\ g \in S /\ g # p /\ g # NULL
      /\ \E i \in Sides : t.child[i][p] = elm /\ t.child[Other(i)][p] # elm
      /\ \E i \in Sides : t.child[i][g] = p /\ t.child[Other(i)][g] # p
  <2> HIDE DEF p, g
  <2> QED
    BY <1>0, InsertPlace DEF InsertAt
<1>2. side \in Sides /\ p = t.child[side][g]
  BY <1>1 DEF Sides
<1>3. p = t.parent[elm] /\ g = t.parent[p] /\ Red(t, p)
  BY Zenon DEF InsertMove
<1>4. InsertTurn(t, elm) =
        IF Red(t, b) THEN [tree |-> RB_SET_BLACKRED(Paint(t, b, "black"), p, g), elm |-> g]
        ELSE IF t.child[far][p] = elm
             THEN [tree |-> RB_ROTATE(RB_SET_BLACKRED(RB_ROTATE(t, side, p), elm, g), far, g), elm |-> p]
             ELSE [tree |-> RB_ROTATE(RB_SET_BLACKRED(t, p, g), far, g), elm |-> elm]
  BY <1>3, Zenon DEF InsertTurn
<1> HIDE DEF p, g, side
<1>5. CASE Red(t, b)
  <2>1. r = [tree |-> RB_SET_BLACKRED(Paint(t, b, "black"), p, g), elm |-> g]
    BY <1>4, <1>5 DEF InsertMove
  <2>8. Inserting(RB_SET_BLACKRED(Paint(t, b, "black"), p, g), S, sub, g)
    <3>1. RedUncle(t, side, p, g, b)
      BY <1>2, <1>5 DEF RedUncle, far
    <3> QED
      BY <1>0, <1>2, <3>1, InsertFlush
  <2>2. Inserting(r.tree, S, sub, g) /\ r.elm = g
    BY <2>1, <2>8
  <2> DEFINE ch == t.child
             top == t.root
  <2>3. Tree(ch, top, S, sub) /\ elm \in S
    BY DEF Inserting, Shape
  <2>4. PICK i \in Sides : ch[i][p] = elm
    BY <1>1
  <2>5. p = ch[side][g]
    BY <1>2
  <2> HIDE DEF ch, top
  <2>6. elm # NULL
    BY <2>3, NotNull DEF Tree
  <2>7. sub[elm] \subseteq sub[p] /\ sub[p] \subseteq sub[g] /\ g \notin sub[p]
    BY <1>1, <1>2, <2>3, <2>4, <2>5, <2>6, Child
  <2> QED
    BY <1>1, <2>2, <2>7
<1>6. CASE ~Red(t, b) /\ t.child[far][p] = elm
  <2>1. r = [tree |-> RB_ROTATE(RB_SET_BLACKRED(RB_ROTATE(t, side, p), elm, g), far, g), elm |-> p]
    BY <1>4, <1>6 DEF InsertMove
  <2>2. InsertDone(RB_ROTATE(RB_SET_BLACKRED(RB_ROTATE(t, side, p), elm, g), far, g), S, p)
    <3>1. BlackUncle(t, side, p, g)
      BY <1>2, <1>6 DEF BlackUncle, far
    <3> QED
      BY <1>0, <1>2, <1>6, <3>1, InsertTurns DEF far
  <2> QED
    BY <2>1, <2>2
<1>7. CASE ~Red(t, b) /\ t.child[far][p] # elm
  <2>1. r = [tree |-> RB_ROTATE(RB_SET_BLACKRED(t, p, g), far, g), elm |-> elm]
    BY <1>4, <1>7 DEF InsertMove
  <2>2. InsertDone(RB_ROTATE(RB_SET_BLACKRED(t, p, g), far, g), S, elm)
    <3>1. BlackUncle(t, side, p, g)
      BY <1>2, <1>7 DEF BlackUncle, far
    <3> QED
      BY <1>0, <1>2, <1>7, <3>1, InsertTurns DEF far
  <2> QED
    BY <2>1, <2>2
<1> QED
  BY <1>5, <1>6, <1>7

\* Fewer and fewer elements are not below elm.
Outside(S, sub, elm) == Cardinality(S \ sub[elm])

\* Fewer elements are outside a larger subtree.
LEMMA OutsideIs ==
  ASSUME NEW S \in SUBSET Node, NEW sub, NEW a, NEW b \in S, sub[a] \subseteq sub[b], b \in sub[b], b \notin sub[a]
  PROVE  Outside(S, sub, a) \in Nat /\ Outside(S, sub, b) \in Nat /\ Outside(S, sub, b) < Outside(S, sub, a)
<1> DEFINE X == S \ sub[a]
           Y == S \ sub[b]
<1>1. X \in SUBSET Node /\ Y \in SUBSET Node /\ Y \subseteq X /\ b \in X /\ b \notin Y
  OBVIOUS
<1> HIDE DEF X, Y
<1>2. Cardinality(X) \in Nat /\ Cardinality(Y) \in Nat /\ Cardinality(Y) < Cardinality(X)
  BY <1>1, Fewer, Finite
<1> QED
  BY <1>2 DEF Outside, X, Y

\* The measure of the loops that go up the tree.
LEMMA OutsideNat ==
  ASSUME NEW S \in SUBSET Node, NEW sub, NEW a
  PROVE  Outside(S, sub, a) \in Nat /\ Outside(S, sub, a) <= Cardinality(Node)
<1> DEFINE X == S \ sub[a]
<1>1. X \in SUBSET Node
  OBVIOUS
<1> HIDE DEF X
<1>2. Cardinality(X) \in Nat /\ Cardinality(X) <= Cardinality(Node)
  BY <1>1, Finite
<1> QED
  BY <1>2 DEF Outside, X

\* A turn from the state [tree |-> t, elm |-> elm] is again such a state.
LEMMA InsertRecord ==
  ASSUME NEW t \in RbMemory, NEW elm \in Node
  PROVE  /\ \E v, e : InsertTurn(t, elm) = [tree |-> v, elm |-> e]
         /\ ~Red(t, t.parent[elm]) => InsertTurn(t, elm) = [tree |-> t, elm |-> elm]
<1> DEFINE parent == t.parent[elm]
           gparent == t.parent[parent]
           side == IF parent = t.child["left"][gparent] THEN "left" ELSE "right"
           uncle == t.child[Other(side)][gparent]
           inner == t.child[Other(side)][parent] = elm
           outer == IF inner THEN RB_ROTATE(t, side, parent) ELSE t
           top == IF inner THEN elm ELSE parent
           low == IF inner THEN parent ELSE elm
           a == RB_SET_BLACKRED(Paint(t, uncle, "black"), parent, gparent)
           b == RB_ROTATE(RB_SET_BLACKRED(outer, top, gparent), Other(side), gparent)
<1>1. InsertTurn(t, elm) = CASE ~Red(t, parent) -> [tree |-> t, elm |-> elm]
                            [] Red(t, parent) /\ Red(t, uncle) -> [tree |-> a, elm |-> gparent]
                            [] OTHER -> [tree |-> b, elm |-> low]
  BY DEF InsertTurn
<1> HIDE DEF parent, gparent, uncle, a, b, low
<1>2. CASE ~Red(t, parent)
  <2>1. InsertTurn(t, elm) = [tree |-> t, elm |-> elm]
    BY <1>1, <1>2
  <2> QED
    BY <2>1
<1>3. CASE Red(t, parent) /\ Red(t, uncle)
  <2>1. InsertTurn(t, elm) = [tree |-> a, elm |-> gparent]
    BY <1>1, <1>3
  <2> QED
    BY <1>3, <2>1 DEF parent
<1>4. CASE Red(t, parent) /\ ~Red(t, uncle)
  <2>1. InsertTurn(t, elm) = [tree |-> b, elm |-> low]
    BY <1>1, <1>4
  <2> QED
    BY <1>4, <2>1 DEF parent
<1> QED
  BY <1>2, <1>3, <1>4

\* RB_INSERT_COLOR leaves a red-black tree.
LEMMA InsertColorIs ==
  ASSUME NEW t, NEW S, NEW sub, NEW elm, Inserting(t, S, sub, elm)
  PROVE  RbOk(RB_INSERT_COLOR(t, elm), S)
<1> DEFINE V == [tree : RbMemory, elm : Node]
           turn == [s \in V |-> InsertTurn(s.tree, s.elm)]
           begin == [tree |-> t, elm |-> elm]
           last == Loop(turn, begin)
           R == {s \in V : InsertDone(s.tree, S, s.elm)}
           Going(s, k) == \E f : Inserting(s.tree, S, f, s.elm) /\ Outside(S, f, s.elm) <= k
           G == [k \in Nat |-> {s \in V : Going(s, k)}]
<1>1. \A v, f, e : Inserting(v, S, f, e) => v \in RbMemory /\ S \in SUBSET Node /\ e \in S /\ e \in Node
                                        /\ Tree(v.child, v.root, S, f)
  <2> SUFFICES ASSUME NEW v, NEW f, NEW e, Inserting(v, S, f, e)
               PROVE  v \in RbMemory /\ S \in SUBSET Node /\ e \in S /\ e \in Node /\ Tree(v.child, v.root, S, f)
    OBVIOUS
  <2>1. Shape(v, S, f) /\ e \in S
    BY DEF Inserting
  <2> QED
    BY <2>1, ShapeIs
<1>2. \A v, e : InsertDone(v, S, e) => ~Red(v, v.parent[e]) /\ \E f : Inserting(v, S, f, e)
  BY DEF InsertDone
<1>3. RB_INSERT_COLOR(t, elm) = Paint(last.tree, last.tree.root, "black")
  BY DEF RB_INSERT_COLOR
<1>4. \A s \in V : /\ turn[s] = InsertTurn(s.tree, s.elm)
                   /\ \E v, e : turn[s] = [tree |-> v, elm |-> e]
                   /\ ~Red(s.tree, s.tree.parent[s.elm]) => turn[s] = s
  <2> SUFFICES ASSUME NEW s \in V
               PROVE  /\ turn[s] = InsertTurn(s.tree, s.elm)
                      /\ \E v, e : turn[s] = [tree |-> v, elm |-> e]
                      /\ ~Red(s.tree, s.tree.parent[s.elm]) => turn[s] = s
    OBVIOUS
  <2>1. s.tree \in RbMemory /\ s.elm \in Node /\ s = [tree |-> s.tree, elm |-> s.elm]
    OBVIOUS
  <2>2. turn[s] = InsertTurn(s.tree, s.elm)
    OBVIOUS
  <2> HIDE DEF turn
  <2> QED
    BY <2>1, <2>2, InsertRecord
<1> HIDE DEF turn
<1>5. \A s \in R : turn[s] \in R
  <2> SUFFICES ASSUME NEW s \in R PROVE turn[s] \in R
    OBVIOUS
  <2>1. s \in V /\ InsertDone(s.tree, S, s.elm)
    OBVIOUS
  <2>2. turn[s] = s
    BY <1>2, <1>4, <2>1
  <2> QED
    BY <2>2
<1>6. ASSUME NEW k \in Nat, NEW s \in G[k]
      PROVE  s \in R \/ turn[s] \in R \/ \E j \in Nat : j < k /\ turn[s] \in G[j]
  <2>1. s \in V /\ Going(s, k)
    OBVIOUS
  <2>2. PICK f : Inserting(s.tree, S, f, s.elm) /\ Outside(S, f, s.elm) <= k
    BY <2>1
  <2> DEFINE u == s.tree
             e == s.elm
             r == turn[s]
  <2>3. CASE ~Red(u, u.parent[e])
    <3>1. InsertDone(u, S, e)
      BY <2>2, <2>3 DEF InsertDone
    <3> QED
      BY <2>1, <3>1
  <2>4. CASE Red(u, u.parent[e])
    <3>1. r = InsertTurn(u, e) /\ \E v, x : r = [tree |-> v, elm |-> x]
      BY <1>4, <2>1
    <3>2. Inserting(u, S, f, e)
      BY <2>2
    <3> HIDE DEF r, u, e
    <3>3. \/ InsertDone(r.tree, S, r.elm)
          \/ /\ Inserting(r.tree, S, f, r.elm) /\ f[e] \subseteq f[r.elm]
             /\ r.elm \in S /\ r.elm \notin f[e]
      <4>1. InsertMove(u, e, r)
        BY <2>4, <3>1 DEF InsertMove, u, e
      <4> QED
        BY <3>2, <4>1, InsertStep
    <3>4. r.tree \in RbMemory /\ r.elm \in Node /\ r = [tree |-> r.tree, elm |-> r.elm]
      BY <1>1, <1>2, <3>1, <3>3
    <3>5. r \in V
      BY <3>4
    <3>6. CASE InsertDone(r.tree, S, r.elm)
      BY <3>5, <3>6 DEF r
    <3>7. CASE Inserting(r.tree, S, f, r.elm) /\ f[e] \subseteq f[r.elm] /\ r.elm \in S /\ r.elm \notin f[e]
      <4> DEFINE a == r.elm
                 ch == r.tree.child
                 root == r.tree.root
                 j == Outside(S, f, a)
                 o == Outside(S, f, e)
      <4>1. Tree(ch, root, S, f) /\ S \in SUBSET Node /\ Inserting(r.tree, S, f, a)
        BY <1>1, <3>7
      <4>2. a \in S /\ f[e] \subseteq f[a] /\ a \notin f[e]
        BY <3>7
      <4> HIDE DEF a, ch, root
      <4>3. a \in f[a]
        BY <4>1, <4>2 DEF Tree
      <4>4. j \in Nat /\ o \in Nat /\ j < o
        BY <4>1, <4>2, <4>3, OutsideIs
      <4>5. o <= k
        BY <2>2 DEF e
      <4> HIDE DEF j, o
      <4>6. j < k /\ j <= j
        BY <4>4, <4>5
      <4>7. Going(r, j)
        BY <4>1, <4>6 DEF j, a
      <4>8. r \in G[j]
        BY <3>5, <4>4, <4>7
      <4> QED
        BY <4>4, <4>6, <4>8 DEF r
    <3> QED
      BY <3>3, <3>6, <3>7
  <2> QED
    BY <2>3, <2>4
<1>7. \A s \in G[0] : s \in R
  <2> SUFFICES ASSUME NEW s \in G[0] PROVE s \in R
    OBVIOUS
  <2>1. s \in V /\ Going(s, 0)
    OBVIOUS
  <2>2. PICK f : Inserting(s.tree, S, f, s.elm) /\ Outside(S, f, s.elm) <= 0
    BY <2>1
  <2> DEFINE u == s.tree
             e == s.elm
  <2>3. ~Red(u, u.parent[e])
    <3> SUFFICES ASSUME Red(u, u.parent[e]) PROVE FALSE
      OBVIOUS
    <3> DEFINE r == InsertTurn(u, e)
               p == u.parent[e]
               ch == u.child
               root == u.root
               X == S \ f[e]
    <3>1. Inserting(u, S, f, e) /\ Tree(ch, root, S, f) /\ S \in SUBSET Node /\ RedParent(u, e, p, u.parent[p])
      BY <1>1, <2>2 DEF RedParent
    <3>2. Cardinality(X) <= 0
      BY <2>2 DEF Outside
    <3> HIDE DEF p, u, e
    <3>3. p \in S /\ p # e /\ \E i \in Sides : u.child[i][p] = e
      BY <3>1, InsertPlace DEF InsertAt
    <3>4. e # NULL
      BY <1>1, <3>1, NotNull
    <3>5. PICK i \in Sides : ch[i][p] = e
      BY <3>3
    <3> HIDE DEF ch, root
    <3>6. p \notin f[e]
      BY <3>1, <3>3, <3>4, <3>5, Child
    <3>7. p \in X /\ X \in SUBSET Node
      BY <3>1, <3>3, <3>6
    <3> HIDE DEF X
    <3>8. Cardinality({}) < Cardinality(X) /\ Cardinality(X) \in Nat
      BY <3>7, Fewer, Finite
    <3> QED
      BY <3>2, <3>8, FS_EmptySet
  <2>4. InsertDone(u, S, e)
    BY <2>2, <2>3 DEF InsertDone
  <2> QED
    BY <2>1, <2>4
<1>8. begin \in V /\ Inserting(begin.tree, S, sub, begin.elm)
  BY <1>1
<1> DEFINE n == Outside(S, sub, elm)
<1>9. n \in Nat /\ n <= Cardinality(Node)
  BY <1>1, OutsideNat
<1>10. begin \in G[n]
  <2>1. Outside(S, sub, begin.elm) <= n
    BY <1>9
  <2>2. Going(begin, n)
    BY <1>8, <2>1
  <2> QED
    BY <1>8, <1>9, <2>2
<1> HIDE DEF G, R, n, begin, last
<1>11. last \in R
  <2>1. Loop(turn, begin) \in R
    BY <1>5, <1>6, <1>7, <1>9, <1>10, LoopEnds
  <2> QED
    BY <2>1 DEF last
<1> DEFINE v == last.tree
           e == last.elm
           top == v.root
<1>12. InsertDone(v, S, e)
  BY <1>11 DEF R
<1> HIDE DEF v, e
<1>13. PICK f : Inserting(v, S, f, e)
  BY <1>12 DEF InsertDone
<1>14. ~Red(v, v.parent[e]) /\ e \in S /\ Shape(v, S, f) /\ Calm(v, S, {}, {e})
  BY <1>12, <1>13 DEF InsertDone, Inserting
<1>15. \A x \in S, i \in Sides : v.child[i][x] = e => x = v.parent[e]
  BY <1>14, Place
<1>16. \A x \in S, i \in Sides : ~(Red(v, x) /\ Red(v, v.child[i][x]))
  BY <1>14, <1>15 DEF Calm
<1> HIDE DEF top
<1>17. Calm(v, S, {top}, {top})
  BY <1>16 DEF Calm, top
<1>18. PICK h, d : d \in Sides /\ Balanced(v, S, h, NULL, d)
  BY <1>13 DEF Inserting
<1> DEFINE p == NULL
<1>19. At(v, S, p, d, top) /\ Balanced(v, S, h, p, d) /\ top = v.root
  <2>1. top = v.root
    BY DEF top
  <2>2. At(v, S, p, d, top)
    BY <2>1 DEF At
  <2>3. Balanced(v, S, h, p, d)
    BY <1>18
  <2> QED
    BY <2>1, <2>2, <2>3
<1> HIDE DEF p
<1>20. RbOk(Paint(v, top, "black"), S)
  BY <1>14, <1>17, <1>18, <1>19, BlackEnd
<1> QED
  BY <1>3, <1>20 DEF v, top

-----------------------------------------------------------------------------
(* The descent                                                             *)

\* What is above p is on the side of elm on which it is of p.
OnPath(S, sub, elm, p) == \A x \in S : p \in sub[x] /\ x # p => Cmp(elm, x) = Cmp(p, x)

\* elm, or its place, has not been passed.
Path(ch, r, S, sub, elm, at, parent) ==
  /\ at \in S \cup {NULL} /\ parent \in S \cup {NULL}
  /\ \A m \in S : Cmp(elm, m) = "here" => m \in sub[at]
  /\ parent = NULL => at = r
  /\ parent # NULL =>
       /\ Cmp(elm, parent) \in Sides /\ at = ch[Cmp(elm, parent)][parent]
       /\ OnPath(S, sub, elm, parent)

\* The descent goes on to a child, on the side that elm belongs.
LEMMA PathStep ==
  ASSUME NEW ch, NEW r, NEW S, NEW sub, Tree(ch, r, S, sub), NEW elm \in Node, NEW x \in S, NEW p,
         Path(ch, r, S, sub, elm, x, p), NEW i \in Sides, i = Cmp(elm, x), NEW c, c = ch[i][x]
  PROVE  /\ Path(ch, r, S, sub, elm, c, x) /\ Cardinality(sub[c]) \in Nat
         /\ Cardinality(sub[x]) \in Nat /\ Cardinality(sub[c]) < Cardinality(sub[x])
<1>1. S \subseteq Node /\ x \in Node /\ x # NULL /\ c \in S \cup {NULL} /\ sub[r] = S /\ sub[NULL] = {} /\ x \in sub[x]
  BY NotNull DEF Tree
<1>2. \A m \in S : Cmp(elm, m) = "here" => m \in sub[c]
  <2> SUFFICES ASSUME NEW m \in S, Cmp(elm, m) = "here" PROVE m \in sub[c]
    OBVIOUS
  <2>1. m \in sub[x]
    BY DEF Path
  <2>2. Cmp(m, x) = i
    BY <1>1, CmpHere, CmpFacts
  <2> QED
    BY <1>1, <2>1, <2>2 DEF Tree
<1>3. OnPath(S, sub, elm, x)
  <2> SUFFICES ASSUME NEW y \in S, x \in sub[y], y # x PROVE Cmp(elm, y) = Cmp(x, y)
    BY DEF OnPath
  <2>1. p # NULL
    <3> SUFFICES ASSUME p = NULL PROVE FALSE
      OBVIOUS
    <3>1. x = r
      BY DEF Path
    <3>2. y \in sub[x]
      BY <1>1, <3>1
    <3> QED
      BY <3>2, Antisymmetric
  <2> DEFINE j == Cmp(elm, p)
  <2>2. p \in S /\ p \in Node /\ j \in Sides /\ x = ch[j][p] /\ OnPath(S, sub, elm, p)
    BY <1>1, <2>1 DEF Path
  <2>3. j = Cmp(elm, p)
    OBVIOUS
  <2> HIDE DEF j
  <2>4. x \in sub[p] /\ Cmp(x, p) = j
    BY <1>1, <2>2, Child
  <2>5. p \in sub[y] \/ y \in sub[p]
    BY <2>2, <2>4, Comparable
  <2>6. CASE y = p
    BY <2>3, <2>4, <2>6
  <2>7. CASE p \in sub[y] /\ y # p
    <3>1. Cmp(elm, y) = Cmp(p, y)
      BY <2>2, <2>7 DEF OnPath
    <3>2. Cmp(p, y) \in Sides /\ sub[p] \subseteq sub[ch[Cmp(p, y)][y]]
      BY <2>7, Below
    <3>3. Cmp(x, y) = Cmp(p, y)
      BY <1>1, <2>4, <3>2 DEF Tree
    <3> QED
      BY <3>1, <3>3
  <2>8. CASE y \in sub[p] /\ y # p
    <3>1. Cmp(y, p) \in Sides /\ sub[y] \subseteq sub[ch[Cmp(y, p)][p]]
      BY <2>2, <2>8, Below
    <3>2. Cmp(x, p) = Cmp(y, p)
      BY <1>1, <2>2, <3>1 DEF Tree
    <3>3. y \in sub[x]
      BY <2>2, <2>4, <3>1, <3>2 DEF Tree
    <3> QED
      BY <3>3, Antisymmetric
  <2> QED
    BY <2>5, <2>6, <2>7, <2>8
<1>4. Path(ch, r, S, sub, elm, c, x)
  BY <1>1, <1>2, <1>3 DEF Path
<1>5. Cardinality(sub[c]) \in Nat /\ Cardinality(sub[x]) \in Nat /\ Cardinality(sub[c]) < Cardinality(sub[x])
  <2>1. CASE c = NULL
    BY <1>1, <2>1, Inhabited, FS_EmptySet
  <2>2. CASE c # NULL
    BY <1>1, <2>2, Inhabited, Child
  <2> QED
    BY <2>1, <2>2
<1> QED
  BY <1>4, <1>5

\* The descent for elm has ended at an element with its key, or where it belongs.
Descended(ch, r, S, sub, elm, at, parent) ==
  /\ at \in S \cup {NULL} /\ parent \in S \cup {NULL}
  /\ at # NULL => Cmp(elm, at) = "here"
  /\ at = NULL => \A m \in S : Cmp(elm, m) # "here"
  /\ at = NULL /\ parent = NULL => S = {}
  /\ at = NULL /\ parent # NULL =>
       /\ Cmp(elm, parent) \in Sides /\ ch[Cmp(elm, parent)][parent] = NULL
       /\ OnPath(S, sub, elm, parent)

\* The descent ends at an element with the key of elm, or where it belongs.
LEMMA PathEnds ==
  ASSUME NEW ch, NEW r, NEW S, NEW sub, Tree(ch, r, S, sub), NEW elm \in Node, NEW at, NEW parent,
         Path(ch, r, S, sub, elm, at, parent), at = NULL \/ Cmp(elm, at) = "here"
  PROVE  Descended(ch, r, S, sub, elm, at, parent)
<1>1. sub[NULL] = {} /\ sub[r] = S
  BY DEF Tree
<1>2. at = NULL => \A m \in S : Cmp(elm, m) # "here"
  BY <1>1 DEF Path
<1>3. at = NULL /\ parent = NULL => S = {}
  BY <1>1 DEF Path
<1> QED
  BY <1>2, <1>3 DEF Path, Descended

\* The loops of RB_FIND and RB_INSERT find the key of elm, or where it belongs.
LEMMA DescendIs ==
  ASSUME NEW t, NEW S, NEW sub, TreeOf(t, t.root, S, sub), NEW elm \in Node
  PROVE  Descended(t.child, t.root, S, sub, elm, Descend(t, elm).at, Descend(t, elm).parent)
<1> DEFINE ch == t.child
           root == t.root
           V == [at : NodeOrNull, parent : NodeOrNull]
           turn == [d \in V |->
                      IF d.at = NULL \/ Cmp(elm, d.at) = "here" THEN d
                      ELSE [at |-> t.child[Cmp(elm, d.at)][d.at], parent |-> d.at]]
           begin == [at |-> t.root, parent |-> NULL]
           On(d) == Path(ch, root, S, sub, elm, d.at, d.parent)
           R == {d \in V : On(d) /\ (d.at = NULL \/ Cmp(elm, d.at) = "here")}
           G == [k \in Nat |-> {d \in V : On(d) /\ Cardinality(sub[d.at]) <= k}]
<1>1. Tree(ch, root, S, sub) /\ S \subseteq Node /\ sub[NULL] = {} /\ sub[root] = S /\ root \in S \cup {NULL}
  BY DEF TreeOf, Tree
<1>2. \A d \in V : turn[d] = IF d.at = NULL \/ Cmp(elm, d.at) = "here" THEN d
                             ELSE [at |-> ch[Cmp(elm, d.at)][d.at], parent |-> d.at]
  OBVIOUS
<1>3. Descend(t, elm) = Loop(turn, begin)
  BY DEF Descend
<1>4. begin \in V /\ begin.at = root /\ begin.parent = NULL
  BY <1>1 DEF NodeOrNull
<1> HIDE DEF turn, begin, ch, root
<1>5. \A d \in R : turn[d] \in R
  BY <1>2
<1>6. ASSUME NEW k \in Nat, NEW d \in G[k]
      PROVE  d \in R \/ turn[d] \in R \/ \E j \in Nat : j < k /\ turn[d] \in G[j]
  <2> DEFINE x == d.at
             p == d.parent
             i == Cmp(elm, x)
             c == ch[i][x]
  <2>1. d \in V /\ Path(ch, root, S, sub, elm, x, p) /\ Cardinality(sub[x]) <= k
    OBVIOUS
  <2>2. CASE x = NULL \/ Cmp(elm, x) = "here"
    BY <2>1, <2>2
  <2>3. CASE ~(x = NULL \/ Cmp(elm, x) = "here")
    <3>1. turn[d] = [at |-> c, parent |-> x]
      BY <1>2, <2>1, <2>3
    <3>2. x \in S /\ x # NULL /\ i # "here"
      BY <2>1, <2>3 DEF Path
    <3> HIDE DEF x, p
    <3>3. x \in Node /\ i \in Sides
      BY <1>1, <3>2, CmpFacts
    <3>4. i = Cmp(elm, x) /\ c = ch[i][x]
      OBVIOUS
    <3> HIDE DEF i, c
    <3>5. /\ Path(ch, root, S, sub, elm, c, x) /\ Cardinality(sub[c]) \in Nat
          /\ Cardinality(sub[x]) \in Nat /\ Cardinality(sub[c]) < Cardinality(sub[x])
      BY <1>1, <2>1, <3>2, <3>3, <3>4, PathStep
    <3> DEFINE j == Cardinality(sub[c])
               next == turn[d]
    <3>6. next.at = c /\ next.parent = x /\ next = [at |-> c, parent |-> x]
      BY <3>1
    <3>7. c \in NodeOrNull /\ x \in NodeOrNull
      BY <1>1, <3>5 DEF Path, NodeOrNull
    <3> HIDE DEF next
    <3>8. next \in V
      BY <3>6, <3>7
    <3>9. On(next) /\ Cardinality(sub[next.at]) <= j
      BY <3>5, <3>6
    <3>10. next \in G[j]
      BY <3>5, <3>8, <3>9
    <3>11. j \in Nat /\ j < k
      BY <2>1, <3>5
    <3> QED
      BY <3>10, <3>11 DEF next
  <2> QED
    BY <2>2, <2>3
<1>7. \A d \in G[0] : d \in R
  <2> SUFFICES ASSUME NEW d \in G[0] PROVE d \in R
    OBVIOUS
  <2>1. d \in V /\ On(d) /\ Cardinality(sub[d.at]) <= 0
    OBVIOUS
  <2>2. d.at \in S \cup {NULL}
    BY <2>1 DEF Path
  <2>3. d.at \notin S
    <3> DEFINE x == d.at
    <3> SUFFICES ASSUME x \in S PROVE FALSE
      OBVIOUS
    <3>1. Cardinality(sub[x]) <= 0
      BY <2>1
    <3> HIDE DEF x
    <3> QED
      BY <1>1, <3>1, Inhabited
  <2> QED
    BY <2>1, <2>2, <2>3
<1> DEFINE n == Cardinality(S)
<1>8. n \in Nat /\ n <= Cardinality(Node)
  BY <1>1, Finite
<1>9. On(begin)
  <2>1. Path(ch, root, S, sub, elm, root, NULL)
    BY <1>1 DEF Path
  <2> QED
    BY <1>4, <2>1
<1>10. begin \in G[n]
  <2>1. Cardinality(sub[begin.at]) <= n
    BY <1>1, <1>4, <1>8
  <2> QED
    BY <1>4, <1>8, <1>9, <2>1
<1> HIDE DEF G, R, n
<1>11. Loop(turn, begin) \in R
  BY <1>5, <1>6, <1>7, <1>8, <1>10, LoopEnds
<1> DEFINE d == Descend(t, elm)
           a == d.at
           p == d.parent
<1>12. Path(ch, root, S, sub, elm, a, p) /\ (a = NULL \/ Cmp(elm, a) = "here")
  BY <1>3, <1>11 DEF R
<1> HIDE DEF a, p
<1>13. Descended(ch, root, S, sub, elm, a, p)
  BY <1>1, <1>12, PathEnds
<1> QED
  BY <1>13 DEF ch, root, a, p

\* v is t with a new red leaf elm on a side of p, or as its only element.
Leaf(t, S, elm, p, side, v) ==
  /\ v \in RbMemory /\ v.root = (IF p = NULL THEN elm ELSE t.root)
  /\ v.parent[elm] = p /\ v.color[elm] = "red" /\ \A i \in Sides : v.child[i][elm] = NULL
  /\ \A x \in S : v.parent[x] = t.parent[x] /\ v.color[x] = t.color[x]
  /\ \A x \in S, i \in Sides : v.child[i][x] = IF x = p /\ i = side THEN elm ELSE t.child[i][x]

\* v is t with the fields of elm as RB_SET leaves them.
Reset(t, elm, p, v) ==
  /\ v \in RbMemory /\ v.root = t.root
  /\ v.parent[elm] = p /\ v.color[elm] = "red" /\ \A i \in Sides : v.child[i][elm] = NULL
  /\ \A x \in Node \ {elm} :
       v.parent[x] = t.parent[x] /\ v.color[x] = t.color[x] /\ \A i \in Sides : v.child[i][x] = t.child[i][x]

\* What RB_SET changes.
LEMMA ResetIs ==
  ASSUME NEW t \in RbMemory, NEW elm \in Node, NEW p \in NodeOrNull
  PROVE  Reset(t, elm, p, RB_SET(t, elm, p))
<1> DEFINE v == RB_SET(t, elm, p)
<1>1. v = [t EXCEPT !.parent[elm] = p, !.color[elm] = "red",
                    !.child = [side \in Sides |-> [t.child[side] EXCEPT ![elm] = NULL]]]
  BY DEF RB_SET
<1>2. /\ v.root = t.root /\ v.parent = [t.parent EXCEPT ![elm] = p] /\ v.color = [t.color EXCEPT ![elm] = "red"]
      /\ v.child = [side \in Sides |-> [t.child[side] EXCEPT ![elm] = NULL]]
      /\ v = [root |-> v.root, child |-> v.child, parent |-> v.parent, color |-> v.color]
  BY <1>1 DEF RbMemory
<1> HIDE DEF v
<1>3. /\ t.root \in NodeOrNull /\ t.child \in [Sides -> [Node -> NodeOrNull]]
      /\ t.parent \in [Node -> NodeOrNull] /\ t.color \in [Node -> {"red", "black"}]
  BY DEF RbMemory
<1>4. /\ v.parent \in [Node -> NodeOrNull] /\ v.parent[elm] = p /\ \A x \in Node \ {elm} : v.parent[x] = t.parent[x]
  BY <1>2, <1>3
<1>5. /\ v.color \in [Node -> {"red", "black"}] /\ v.color[elm] = "red" /\ \A x \in Node \ {elm} : v.color[x] = t.color[x]
  BY <1>2, <1>3
<1>6. v.child \in [Sides -> [Node -> NodeOrNull]]
  <2>1. \A i \in Sides : [t.child[i] EXCEPT ![elm] = NULL] \in [Node -> NodeOrNull]
    BY <1>3 DEF NodeOrNull
  <2> QED
    BY <1>2, <2>1
<1>7. \A i \in Sides : v.child[i][elm] = NULL /\ \A x \in Node \ {elm} : v.child[i][x] = t.child[i][x]
  <2> SUFFICES ASSUME NEW i \in Sides
               PROVE  v.child[i][elm] = NULL /\ \A x \in Node \ {elm} : v.child[i][x] = t.child[i][x]
    OBVIOUS
  <2>1. v.child[i] = [t.child[i] EXCEPT ![elm] = NULL] /\ t.child[i] \in [Node -> NodeOrNull]
    BY <1>2, <1>3
  <2> QED
    BY <2>1
<1>8. v \in RbMemory
  BY <1>2, <1>3, <1>4, <1>5, <1>6 DEF RbMemory
<1>9. Reset(t, elm, p, v)
  BY <1>2, <1>4, <1>5, <1>7, <1>8 DEF Reset
<1> QED
  BY <1>9 DEF v

\* RB_INSERT hangs elm below the parent it found.
LEMMA LeafIs ==
  ASSUME NEW t \in RbMemory, NEW S \in SUBSET Node, NEW elm \in Node, elm \notin S,
         NEW p \in S \cup {NULL}, NEW side \in Sides,
         NEW v, v = IF p = NULL THEN SetRoot(RB_SET(t, elm, p), elm)
                    ELSE SetChild(RB_SET(t, elm, p), side, p, elm)
  PROVE  Leaf(t, S, elm, p, side, v)
<1> DEFINE set == RB_SET(t, elm, p)
<1>1. p \in NodeOrNull /\ elm \in NodeOrNull
  BY DEF NodeOrNull
<1>2. Reset(t, elm, p, set)
  BY <1>1, ResetIs
<1>3. v = IF p = NULL THEN SetRoot(set, elm) ELSE SetChild(set, side, p, elm)
  OBVIOUS
<1> HIDE DEF set
<1>4. set \in RbMemory
  BY <1>2 DEF Reset
<1>5. CASE p = NULL
  <2>1. RootSet(set, elm, v)
    BY <1>1, <1>3, <1>4, <1>5, RbRoot
  <2>2. \A x \in S : x # p /\ x \in Node \ {elm}
    BY <1>5, NotNull
  <2>3. \A x \in S, i \in Sides : v.child[i][x] = t.child[i][x]
    BY <1>2, <2>1, <2>2 DEF RootSet, Reset
  <2>4. /\ v \in RbMemory /\ v.root = elm
        /\ v.parent[elm] = p /\ v.color[elm] = "red" /\ \A i \in Sides : v.child[i][elm] = NULL
        /\ \A x \in S : v.parent[x] = t.parent[x] /\ v.color[x] = t.color[x]
    BY <1>2, <2>1, <2>2 DEF RootSet, Reset
  <2> QED
    BY <1>5, <2>2, <2>3, <2>4 DEF Leaf
<1>6. CASE p # NULL
  <2>1. p \in Node /\ p # elm /\ \A x \in S : x \in Node \ {elm}
    BY <1>6
  <2>2. ChildSet(set, side, p, elm, v)
    BY <1>1, <1>3, <1>4, <1>6, <2>1, RbChild
  <2>3. \A x \in S, i \in Sides : v.child[i][x] = IF x = p /\ i = side THEN elm ELSE t.child[i][x]
    BY <1>2, <2>1, <2>2 DEF ChildSet, Reset
  <2>4. /\ v \in RbMemory /\ v.root = t.root
        /\ v.parent[elm] = p /\ v.color[elm] = "red" /\ \A i \in Sides : v.child[i][elm] = NULL
        /\ \A x \in S : v.parent[x] = t.parent[x] /\ v.color[x] = t.color[x]
    BY <1>2, <2>1, <2>2 DEF ChildSet, Reset
  <2> QED
    BY <1>6, <2>3, <2>4 DEF Leaf
<1> QED
  BY <1>5, <1>6

\* A place for elm in a tree with none of its key.
Free(t, S, sub, elm, p, side) ==
  /\ elm \in Node /\ elm \notin S /\ p \in S \cup {NULL} /\ side \in Sides
  /\ \A m \in S : Cmp(elm, m) # "here"
  /\ p = NULL => S = {}
  /\ p # NULL => side = Cmp(elm, p) /\ t.child[side][p] = NULL /\ OnPath(S, sub, elm, p)

\* The tree with the new leaf is a tree.
LEMMA LeafTree ==
  ASSUME NEW t, NEW S, NEW sub, Shape(t, S, sub), NEW elm, NEW p, NEW side, Free(t, S, sub, elm, p, side),
         NEW v, Leaf(t, S, elm, p, side, v)
  PROVE  \E g : Shape(v, S \cup {elm}, g)
<1> DEFINE ch == t.child
           new == v.child
           r == t.root
           T == S \cup {elm}
<1>1. /\ elm \in Node /\ elm \notin S /\ p \in S \cup {NULL} /\ side \in Sides
      /\ \A m \in S : Cmp(elm, m) # "here"
      /\ p = NULL => S = {}
      /\ p # NULL => side = Cmp(elm, p) /\ ch[side][p] = NULL /\ OnPath(S, sub, elm, p)
  BY DEF Free
<1>2. /\ v \in RbMemory /\ v.root = (IF p = NULL THEN elm ELSE r)
      /\ v.parent[elm] = p /\ \A i \in Sides : new[i][elm] = NULL
      /\ \A x \in S : v.parent[x] = t.parent[x]
      /\ \A x \in S, i \in Sides : new[i][x] = IF x = p /\ i = side THEN elm ELSE ch[i][x]
  BY DEF Leaf
<1>3. /\ Tree(ch, r, S, sub) /\ S \subseteq Node /\ elm # NULL /\ (S # {} => r \in S) /\ r \in S \cup {NULL}
      /\ \A x \in S, i \in Sides : ch[i][x] \in S \cup {NULL}
  BY <1>1, ShapeIs, NotNull
<1>4. /\ \A n \in S, i \in Sides : ch[i][n] # NULL => t.parent[ch[i][n]] = n
      /\ (r # NULL => t.parent[r] = NULL)
  BY DEF Shape
<1> HIDE DEF ch, new, r
<1>5. \E g : Tree(new, v.root, T, g)
  <2>1. CASE p = NULL
    <3> DEFINE g == [x \in NodeOrNull |-> IF x = elm THEN {elm} ELSE {}]
    <3>1. g[elm] = {elm} /\ g[NULL] = {}
      BY <1>1, <1>3 DEF NodeOrNull
    <3>2. T = {elm} /\ v.root = elm
      BY <1>1, <1>2, <2>1
    <3>3. Cmp(elm, elm) = "here"
      BY <1>1, CmpFacts
    <3> HIDE DEF g
    <3>4. Tree(new, v.root, T, g)
      BY <1>1, <1>2, <3>1, <3>2, <3>3, SideFacts DEF Tree
    <3> QED
      BY <3>4
  <2>2. CASE p # NULL
    <3> DEFINE mid == [i \in Sides |-> [x \in Node |-> IF x = elm THEN NULL ELSE ch[i][x]]]
               g == [x \in NodeOrNull |-> IF x = elm THEN {elm} ELSE sub[x]]
               X == {elm}
    <3>1. \A x \in S : g[x] = sub[x] /\ \A i \in Sides : mid[i][x] = ch[i][x]
      BY <1>1, <1>3 DEF NodeOrNull
    <3>2. g[elm] = {elm} /\ g[NULL] = {} /\ \A i \in Sides : mid[i][elm] = NULL
      BY <1>1, <1>3 DEF NodeOrNull, Tree
    <3> HIDE DEF mid, g
    <3>3. Tree(mid, r, S, g)
      BY <1>3, <3>1, <3>2, Framed
    <3>4. Cmp(elm, elm) = "here"
      BY <1>1, CmpFacts
    <3>5. Tree(mid, elm, X, g)
      BY <1>1, <3>2, <3>4, SideFacts DEF Tree
    <3>6. S \cap X = {} /\ \A a \in S, b \in X : Cmp(a, b) # "here"
      BY <1>1, <1>3, CmpFacts
    <3>7. p \in S /\ mid[side][p] = NULL /\ \A b \in X : Cmp(b, p) = side
      BY <1>1, <2>2, <3>1
    <3>8. \A x \in S, b \in X : p \in g[x] /\ x # p => Cmp(b, x) = Cmp(p, x)
      BY <1>1, <2>2, <3>1 DEF OnPath
    <3>9. new[side][p] = elm
      BY <1>1, <1>2, <3>7
    <3>10. \A x \in S \cup X, i \in Sides : (x = p /\ i = side) \/ new[i][x] = mid[i][x]
      BY <1>2, <3>1, <3>2
    <3> HIDE DEF X
    <3>11. Tree(new, r, S \cup X, Grown(g, S, p, X))
      BY <1>1, <3>3, <3>5, <3>6, <3>7, <3>8, <3>9, <3>10, Joined, SMTT(30)
    <3>12. Tree(new, v.root, T, Grown(g, S, p, X))
      BY <1>2, <2>2, <3>11 DEF X
    <3> QED
      BY <3>12
  <2> QED
    BY <2>1, <2>2
<1>6. \A n \in T, i \in Sides : new[i][n] # NULL => v.parent[new[i][n]] = n
  <2> SUFFICES ASSUME NEW n \in T, NEW i \in Sides, new[i][n] # NULL PROVE v.parent[new[i][n]] = n
    OBVIOUS
  <2>1. n \in S
    BY <1>2
  <2>2. CASE n = p /\ i = side
    BY <1>2, <2>1, <2>2
  <2>3. CASE ~(n = p /\ i = side)
    <3>1. new[i][n] = ch[i][n] /\ ch[i][n] \in S
      BY <1>2, <1>3, <2>1, <2>3
    <3> QED
      BY <1>2, <1>4, <2>1, <3>1
  <2> QED
    BY <2>2, <2>3
<1>7. v.root # NULL => v.parent[v.root] = NULL
  BY <1>1, <1>2, <1>3, <1>4
<1> QED
  BY <1>2, <1>5, <1>6, <1>7 DEF Shape, new

\* A red leaf does not count.
LEMMA LeafBalance ==
  ASSUME NEW t, NEW S, NEW sub, Shape(t, S, sub), NEW elm, NEW p, NEW side, Free(t, S, sub, elm, p, side),
         NEW v, Leaf(t, S, elm, p, side, v), NEW h, NEW d, Balanced(t, S, h, NULL, d)
  PROVE  Balanced(v, S \cup {elm}, [h EXCEPT ![elm] = 0], NULL, d)
<1> DEFINE ch == t.child
           new == v.child
           T == S \cup {elm}
           g == [h EXCEPT ![elm] = 0]
<1>1. /\ elm \in Node /\ elm \notin S /\ p \in S \cup {NULL} /\ side \in Sides
      /\ p # NULL => ch[side][p] = NULL
  BY DEF Free
<1>2. /\ v.color[elm] = "red" /\ \A i \in Sides : new[i][elm] = NULL
      /\ \A x \in S : v.color[x] = t.color[x]
      /\ \A x \in S, i \in Sides : new[i][x] = IF x = p /\ i = side THEN elm ELSE ch[i][x]
  BY DEF Leaf
<1>3. S \subseteq Node /\ elm # NULL /\ \A x \in S, i \in Sides : ch[i][x] \in S \cup {NULL}
  BY <1>1, ShapeIs, NotNull
<1>4. h \in [NodeOrNull -> Nat] /\ h[NULL] = 0 /\ \A x \in S, i \in Sides : h[x] = h[ch[i][x]] + Lack(NULL, d, x, i) + Weight(t, x)
  BY DEF Balanced
<1>5. elm \in NodeOrNull /\ NULL \in NodeOrNull /\ S \subseteq NodeOrNull
  BY <1>1, <1>3 DEF NodeOrNull
<1>6. g \in [NodeOrNull -> Nat] /\ g[elm] = 0 /\ g[NULL] = 0 /\ \A x \in S \cup {NULL} : g[x] = h[x]
  BY <1>1, <1>3, <1>4, <1>5
<1>7. Weight(v, elm) = 0 /\ \A x \in S : Weight(v, x) = Weight(t, x)
  BY <1>2 DEF Weight
<1>8. \A x \in T, i \in Sides : Lack(NULL, d, x, i) = 0
  BY <1>3, NotNull DEF Lack
<1> HIDE DEF g, ch, new
<1>9. ASSUME NEW n \in T, NEW i \in Sides PROVE g[n] = g[new[i][n]] + Lack(NULL, d, n, i) + Weight(v, n)
  <2>1. CASE n = elm
    BY <1>2, <1>6, <1>7, <1>8, <2>1
  <2>2. CASE n \in S
    <3>1. h[n] = h[ch[i][n]] + Lack(NULL, d, n, i) + Weight(t, n)
      BY <1>4, <2>2
    <3>2. g[n] = h[n] /\ g[new[i][n]] = h[ch[i][n]]
      <4>1. CASE n = p /\ i = side
        BY <1>1, <1>2, <1>3, <1>4, <1>6, <2>2, <4>1, NotNull
      <4>2. CASE ~(n = p /\ i = side)
        BY <1>2, <1>3, <1>6, <2>2, <4>2
      <4> QED
        BY <4>1, <4>2
    <3> QED
      BY <1>7, <2>2, <3>1, <3>2
  <2> QED
    BY <2>1, <2>2
<1>10. Balanced(v, T, g, NULL, d)
  BY <1>6, <1>9 DEF Balanced, new
<1> QED
  BY <1>10 DEF g

\* Only the new leaf may be red below a red element.
LEMMA LeafCalm ==
  ASSUME NEW t, NEW S, NEW sub, Shape(t, S, sub), NEW elm, NEW p, NEW side, Free(t, S, sub, elm, p, side),
         NEW v, Leaf(t, S, elm, p, side, v), Calm(t, S, {}, {})
  PROVE  Calm(v, S \cup {elm}, {}, {elm})
<1> DEFINE ch == t.child
           new == v.child
<1>1. elm \notin S /\ elm \in Node /\ elm # NULL /\ (p = NULL => S = {}) /\ p \in S \cup {NULL}
  BY NotNull DEF Free
<1>2. /\ v.root = (IF p = NULL THEN elm ELSE t.root) /\ \A i \in Sides : new[i][elm] = NULL
      /\ \A x \in S : v.color[x] = t.color[x]
      /\ \A x \in S, i \in Sides : new[i][x] = IF x = p /\ i = side THEN elm ELSE ch[i][x]
  BY DEF Leaf
<1>3. t.root \in S \cup {NULL} /\ \A x \in S, i \in Sides : ch[i][x] \in S \cup {NULL}
  BY ShapeIs
<1>4. \A x \in S \cup {NULL} : Red(v, x) <=> Red(t, x)
  BY <1>2 DEF Red
<1>5. (\A x \in S, i \in Sides : ~(Red(t, x) /\ Red(t, ch[i][x]))) /\ ~Red(t, t.root)
  BY DEF Calm
<1>6. ~Red(v, NULL)
  BY DEF Red
<1> HIDE DEF ch, new
<1>7. ASSUME NEW n \in S \cup {elm}, NEW i \in Sides, Red(v, n), Red(v, new[i][n]) PROVE new[i][n] = elm
  <2>1. n \in S
    BY <1>2, <1>6, <1>7
  <2> QED
    BY <1>2, <1>3, <1>4, <1>5, <1>7, <2>1
<1>8. Red(v, v.root) => v.root = elm
  BY <1>2, <1>3, <1>4, <1>5
<1> QED
  BY <1>7, <1>8 DEF Calm, new

\* The root of a red-black tree is one of its elements, or the tree is empty.
LEMMA RbOkFacts ==
  ASSUME NEW t, NEW S, RbOk(t, S)
  PROVE  t \in RbMemory /\ S \in SUBSET Node /\ S \subseteq Node /\ (S # {} => t.root \in S) /\ t.root \in S \cup {NULL}
<1>1. PICK sub : Shape(t, S, sub)
  BY DEF RbOk
<1> QED
  BY <1>1, ShapeIs

\* RB_INSERT adds the element unless its key is in the tree.
LEMMA RbInsertIs ==
  ASSUME NEW t, NEW S, RbOk(t, S), NEW elm \in Node, elm \notin S
  PROVE  RbOk(RB_INSERT(t, elm), IF RB_FIND(t, elm) = NULL THEN S \cup {elm} ELSE S)
<1> DEFINE d == Descend(t, elm)
           at == d.at
           p == d.parent
           set == RB_SET(t, elm, p)
           put == IF p = NULL THEN SetRoot(set, elm) ELSE SetChild(set, Cmp(elm, p), p, elm)
<1>1. PICK sub, h, i : i \in Sides /\ Shape(t, S, sub) /\ Balanced(t, S, h, NULL, i) /\ Calm(t, S, {}, {})
  BY DEF RbOk
<1>2. t \in RbMemory /\ S \in SUBSET Node /\ TreeOf(t, t.root, S, sub)
  BY <1>1, ShapeIs DEF TreeOf
<1>3. RB_INSERT(t, elm) = (IF at # NULL THEN t ELSE RB_INSERT_COLOR(put, elm)) /\ RB_FIND(t, elm) = at
  BY DEF RB_INSERT, RB_FIND
<1>4. Descended(t.child, t.root, S, sub, elm, at, p)
  BY <1>2, DescendIs
<1>5. CASE at # NULL
  BY <1>3, <1>5
<1>6. CASE at = NULL
  <2> DEFINE side == IF p = NULL THEN "left" ELSE Cmp(elm, p)
             v == put
             T == S \cup {elm}
  <2>1. v = IF p = NULL THEN SetRoot(RB_SET(t, elm, p), elm) ELSE SetChild(RB_SET(t, elm, p), side, p, elm)
    OBVIOUS
  <2>2. Free(t, S, sub, elm, p, side)
    BY <1>4, <1>6 DEF Free, Descended, Sides
  <2> HIDE DEF d, at, p, set, put, v, side
  <2>3. p \in S \cup {NULL} /\ side \in Sides
    BY <2>2 DEF Free
  <2>4. Leaf(t, S, elm, p, side, v)
    BY <1>2, <2>1, <2>3, LeafIs
  <2>5. PICK g : Shape(v, S \cup {elm}, g)
    BY <1>1, <2>2, <2>4, LeafTree
  <2>6. Balanced(v, S \cup {elm}, [h EXCEPT ![elm] = 0], NULL, i)
    BY <1>1, <2>2, <2>4, LeafBalance
  <2>7. Calm(v, S \cup {elm}, {}, {elm})
    BY <1>1, <2>2, <2>4, LeafCalm
  <2>8. v.color[elm] = "red" /\ elm \in T
    BY <2>4 DEF Leaf
  <2>9. Inserting(v, T, g, elm)
    BY <1>1, <2>5, <2>6, <2>7, <2>8 DEF Inserting
  <2> HIDE DEF T
  <2>10. RbOk(RB_INSERT_COLOR(v, elm), T)
    BY <2>9, InsertColorIs
  <2> QED
    BY <1>3, <1>6, <2>10 DEF T, v
<1> QED
  BY <1>5, <1>6

-----------------------------------------------------------------------------
(* Lookups                                                                 *)

\* RB_FIND finds the element with the key, if there is one.
LEMMA RbFindIs ==
  ASSUME NEW t, NEW S, NEW sub, Shape(t, S, sub), NEW elm \in Node
  PROVE  /\ RB_FIND(t, elm) = Least(SameKey(S, elm))
         /\ elm \in S => RB_FIND(t, elm) = elm
<1> DEFINE at == Descend(t, elm).at
           p == Descend(t, elm).parent
           X == SameKey(S, elm)
<1>1. S \subseteq Node /\ S \in SUBSET Node /\ TreeOf(t, t.root, S, sub)
  BY ShapeIs DEF TreeOf
<1>2. Descended(t.child, t.root, S, sub, elm, at, p) /\ RB_FIND(t, elm) = at
  BY <1>1, DescendIs DEF RB_FIND
<1> HIDE DEF at, p
<1>3. X = {m \in S : Cmp(m, elm) = "here"}
  BY <1>1, KeySets
<1> HIDE DEF X
<1>4. \A m, n \in S : Cmp(m, n) = "here" => m = n
  BY <1>1 DEF TreeOf, Tree
<1>5. CASE at = NULL
  <2>1. X = {}
    BY <1>1, <1>2, <1>3, <1>5, CmpFacts DEF Descended
  <2>2. Least(X) = NULL /\ elm \notin S
    BY <1>1, <1>3, <2>1, CmpFacts DEF Least
  <2> QED
    BY <1>2, <1>5, <2>2 DEF X
<1>6. CASE at # NULL
  <2>1. at \in S /\ at \in Node /\ Cmp(elm, at) = "here"
    BY <1>1, <1>2, <1>6 DEF Descended
  <2>2. Cmp(at, elm) = "here"
    BY <2>1, CmpFacts
  <2>3. \A m \in X : m = at
    BY <1>1, <1>3, <1>4, <2>1, CmpHere
  <2>4. X \in SUBSET Node /\ at \in X
    BY <1>1, <1>3, <2>1, <2>2
  <2>5. Least(X) = at
    BY <2>3, <2>4, LeastIs
  <2>6. elm \in S => at = elm
    BY <1>4, <2>1
  <2> QED
    BY <1>2, <2>5, <2>6 DEF X
<1> QED
  BY <1>5, <1>6

\* The loop of Extreme ends at once at NULL.
LEMMA ExtremeNull ==
  ASSUME NEW t, NEW side \in Sides
  PROVE  Extreme(t, NULL, side) = NULL
<1> DEFINE turn == [x \in NodeOrNull |-> IF x # NULL /\ t.child[side][x] # NULL THEN t.child[side][x] ELSE x]
           R == {NULL}
           H == [k \in Nat |-> {NULL}]
<1>1. Extreme(t, NULL, side) = Loop(turn, NULL)
  BY DEF Extreme
<1>2. turn[NULL] = NULL
  BY DEF NodeOrNull
<1> HIDE DEF turn
<1>3. \A x \in R : turn[x] \in R
  BY <1>2
<1>4. \A k \in Nat : \A x \in H[k] : x \in R
  OBVIOUS
<1>5. NULL \in H[0] /\ 0 \in Nat /\ 0 <= Cardinality(Node)
  BY Elements
<1> HIDE DEF H, R
<1>6. Loop(turn, NULL) \in R
  BY <1>3, <1>4, <1>5, LoopEnds
<1> QED
  BY <1>1, <1>6 DEF R

\* RB_MINMAX finds the outermost element on a side.
LEMMA RbMinMaxIs ==
  ASSUME NEW t, NEW S, NEW sub, Shape(t, S, sub), NEW side \in Sides
  PROVE  /\ S = {} => RB_MINMAX(t, side) = NULL
         /\ S # {} => RB_MINMAX(t, side) \in S
                      /\ \A m \in S : m = RB_MINMAX(t, side) \/ Cmp(m, RB_MINMAX(t, side)) = Other(side)
<1> DEFINE r == t.root
           m == RB_MINMAX(t, side)
<1>1. TreeOf(t, r, S, sub) /\ r \in S \cup {NULL} /\ sub[r] = S /\ (S # {} => r \in S)
  BY ShapeIs DEF TreeOf
<1>2. m = Extreme(t, r, side)
  BY DEF RB_MINMAX
<1> HIDE DEF r, m
<1>3. CASE S = {}
  BY <1>1, <1>2, <1>3, ExtremeNull DEF m
<1>4. CASE S # {}
  <2>1. r \in S
    BY <1>1, <1>4
  <2>2. Extreme(t, r, side) \in sub[r]
        /\ \A x \in sub[r] : x = Extreme(t, r, side) \/ Cmp(x, Extreme(t, r, side)) = Other(side)
    BY <1>1, <2>1, ExtremeIs
  <2> QED
    BY <1>1, <1>2, <1>4, <2>2 DEF m
<1> QED
  BY <1>3, <1>4

\* RB_MIN and RB_MAX find the least and the greatest element.
LEMMA RbEndsAre ==
  ASSUME NEW t, NEW S, NEW sub, Shape(t, S, sub)
  PROVE  RB_MINMAX(t, "left") = Least(S) /\ RB_MINMAX(t, "right") = Greatest(S)
<1>1. "left" \in Sides /\ "right" \in Sides /\ Other("left") = "right" /\ Other("right") = "left"
  BY DEF Sides, Other
<1>2. S \in SUBSET Node
  BY ShapeIs
<1>3. CASE S = {}
  <2>1. Least({}) = NULL /\ Greatest({}) = NULL
    BY DEF Least, Greatest
  <2> QED
    BY <1>1, <1>3, <2>1, RbMinMaxIs
<1>4. CASE S # {}
  <2> DEFINE a == RB_MINMAX(t, "left")
             b == RB_MINMAX(t, "right")
  <2>1. a \in S /\ \A m \in S : m = a \/ Cmp(m, a) = "right"
    BY <1>1, <1>4, RbMinMaxIs
  <2>2. b \in S /\ \A m \in S : m = b \/ Cmp(m, b) = "left"
    BY <1>1, <1>4, RbMinMaxIs
  <2> HIDE DEF a, b
  <2>3. Least(S) = a /\ Greatest(S) = b
    BY <1>2, <2>1, <2>2, LeastIs, GreatestIs
  <2> QED
    BY <2>3 DEF a, b
<1> QED
  BY <1>3, <1>4

\* res is the best found so far; the rest of what is not below elm is under tmp.
NPath(S, sub, elm, tmp, res) ==
  /\ tmp \in S \cup {NULL} /\ res \in S \cup {NULL}
  /\ res # NULL => Cmp(res, elm) = "right"
  /\ \A m \in S : Cmp(m, elm) # "left" => m \in sub[tmp] \/ (res # NULL /\ (m = res \/ Cmp(m, res) = "right"))
  /\ res # NULL => \A m \in sub[tmp] : Cmp(m, res) = "left"

\* The descent of RB_NFIND goes on with the best so far.
LEMMA NPathStep ==
  ASSUME NEW ch, NEW r, NEW S, NEW sub, Tree(ch, r, S, sub), NEW elm \in Node, NEW x \in S, NEW res,
         NPath(S, sub, elm, x, res), NEW i \in Sides, i = Cmp(elm, x), NEW c, c = ch[i][x],
         NEW next, next = IF i = "left" THEN x ELSE res
  PROVE  /\ NPath(S, sub, elm, c, next) /\ Cardinality(sub[c]) \in Nat
         /\ Cardinality(sub[x]) \in Nat /\ Cardinality(sub[c]) < Cardinality(sub[x])
<1>1. /\ S \subseteq Node /\ x \in Node /\ x # NULL /\ c \in S \cup {NULL} /\ sub[NULL] = {} /\ x \in sub[x]
      /\ sub[x] \subseteq S
      /\ \A m \in S : m \in sub[c] <=> m \in sub[x] /\ Cmp(m, x) = i
      /\ \A m \in S : Cmp(m, x) = "here" => m = x
  BY NotNull DEF Tree
<1>2. /\ res \in S \cup {NULL}
      /\ res # NULL => Cmp(res, elm) = "right"
      /\ \A m \in S : Cmp(m, elm) # "left" => m \in sub[x] \/ (res # NULL /\ (m = res \/ Cmp(m, res) = "right"))
      /\ res # NULL => \A m \in sub[x] : Cmp(m, res) = "left"
  BY DEF NPath
<1>3. sub[c] \subseteq sub[x]
  <2>1. CASE c = NULL
    BY <1>1, <2>1
  <2>2. CASE c # NULL
    BY <2>2, Child
  <2> QED
    BY <2>1, <2>2
<1>4. Cardinality(sub[c]) \in Nat /\ Cardinality(sub[x]) \in Nat /\ Cardinality(sub[c]) < Cardinality(sub[x])
  <2>1. Cardinality(sub[x]) \in Nat /\ 0 < Cardinality(sub[x])
    BY Inhabited
  <2>2. CASE c = NULL
    <3>1. sub[c] = {}
      BY <1>1, <2>2
    <3> QED
      BY <2>1, <3>1, FS_EmptySet
  <2>3. CASE c # NULL
    <3>1. c \in S /\ Cardinality(sub[c]) < Cardinality(sub[x])
      BY <2>3, Child
    <3> QED
      BY <2>1, <3>1, Inhabited
  <2> QED
    BY <2>2, <2>3
<1>5. CASE i = "left"
  <2>1. next = x /\ Cmp(x, elm) = "right" /\ "right" \in Sides /\ "left" \in Sides
    BY <1>1, <1>5, CmpFacts DEF Sides, Other
  <2>2. ASSUME NEW m \in S, Cmp(m, elm) # "left", m \notin sub[c]
        PROVE  m = x \/ Cmp(m, x) = "right"
    <3>1. m \in Node /\ (m = x \/ Cmp(m, x) = "left" \/ Cmp(m, x) = "right")
      BY <1>1, CmpFacts DEF Sides
    <3>2. CASE m \in sub[x]
      BY <1>1, <1>5, <2>2, <3>1, <3>2
    <3>3. CASE m \notin sub[x]
      <4>1. res # NULL /\ res \in S /\ (m = res \/ Cmp(m, res) = "right") /\ Cmp(x, res) = "left"
        BY <1>1, <1>2, <2>2, <3>3
      <4>2. Cmp(res, x) = "right" /\ res \in Node
        BY <1>1, <4>1, CmpFacts DEF Sides, Other
      <4> QED
        BY <1>1, <2>1, <3>1, <4>1, <4>2, CmpTransitive
    <3> QED
      BY <3>2, <3>3
  <2>3. \A m \in sub[c] : Cmp(m, x) = "left"
    BY <1>1, <1>3, <1>5
  <2>4. NPath(S, sub, elm, c, x)
    BY <1>1, <2>1, <2>2, <2>3 DEF NPath
  <2> QED
    BY <1>4, <2>1, <2>4
<1>6. CASE i = "right"
  <2>1. next = res /\ Cmp(x, elm) = "left" /\ "right" \in Sides /\ "left" \in Sides
    BY <1>1, <1>6, CmpFacts DEF Sides, Other
  <2>2. ASSUME NEW m \in S, Cmp(m, elm) # "left", m \in sub[x]
        PROVE  m \in sub[c]
    <3>1. m \in Node /\ (Cmp(m, elm) = "right" \/ Cmp(m, elm) = "here") /\ Cmp(elm, x) = "right"
      BY <1>1, <1>6, <2>2, CmpFacts DEF Sides
    <3>2. Cmp(m, x) = "right"
      BY <1>1, <2>1, <3>1, CmpTransitive, CmpHere
    <3> QED
      BY <1>1, <1>6, <2>2, <3>2
  <2>3. NPath(S, sub, elm, c, res)
    BY <1>1, <1>2, <1>3, <2>2 DEF NPath
  <2> QED
    BY <1>4, <2>1, <2>3
<1> QED
  BY <1>5, <1>6 DEF Sides

\* Where the loop has ended, the answer is the first element not below elm.
LEMMA NPathEnds ==
  ASSUME NEW ch, NEW r, NEW S, NEW sub, Tree(ch, r, S, sub), NEW elm \in Node, NEW tmp, NEW res,
         NPath(S, sub, elm, tmp, res), tmp = NULL \/ Cmp(elm, tmp) = "here",
         NEW f, f = IF tmp = NULL THEN res ELSE tmp
  PROVE  f = Least({m \in S : Key[m] >= Key[elm]})
<1> DEFINE X == {m \in S : Key[m] >= Key[elm]}
<1>1. /\ S \subseteq Node /\ S \in SUBSET Node /\ sub[NULL] = {}
      /\ \A m, n \in S : Cmp(m, n) = "here" => m = n
  BY DEF Tree
<1>2. X = {m \in S : Cmp(m, elm) # "left"}
  BY <1>1, KeySets
<1>3. X \in SUBSET Node
  BY <1>1
<1> HIDE DEF X
<1>4. CASE tmp = NULL /\ res = NULL
  <2>1. X = {}
    BY <1>1, <1>2, <1>4 DEF NPath
  <2> QED
    BY <1>4, <2>1 DEF Least, X
<1>5. CASE tmp = NULL /\ res # NULL
  <2>1. f = res /\ f \in S /\ Cmp(f, elm) = "right" /\ \A m \in X : m = f \/ Cmp(m, f) = "right"
    BY <1>1, <1>2, <1>5 DEF NPath
  <2>2. f \in X
    BY <1>2, <2>1
  <2>3. Least(X) = f
    BY <1>3, <2>1, <2>2, LeastIs
  <2> QED
    BY <2>3 DEF X
<1>6. CASE tmp # NULL
  <2>1. f = tmp /\ f \in S /\ f \in Node /\ Cmp(elm, f) = "here"
    BY <1>1, <1>6 DEF NPath
  <2>2. f \in X
    BY <1>2, <2>1, CmpFacts
  <2>3. ASSUME NEW m \in X PROVE m = f \/ Cmp(m, f) = "right"
    <3>1. m \in S /\ m \in Node /\ Cmp(m, elm) # "left" /\ Cmp(m, elm) = Cmp(m, f)
      BY <1>1, <1>2, <2>1, CmpHere
    <3> QED
      BY <1>1, <2>1, <3>1, CmpFacts DEF Sides
  <2>4. Least(X) = f
    BY <1>3, <2>2, <2>3, LeastIs
  <2> QED
    BY <2>4 DEF X
<1> QED
  BY <1>4, <1>5, <1>6

\* RB_NFIND finds the least element that is not less.
LEMMA RbNFindIs ==
  ASSUME NEW t, NEW S, NEW sub, Shape(t, S, sub), NEW elm \in Node
  PROVE  RB_NFIND(t, elm) = Least({m \in S : Key[m] >= Key[elm]})
<1> DEFINE ch == t.child
           root == t.root
           V == [tmp : NodeOrNull, res : NodeOrNull]
           turn == [d \in V |-> NFind(t, elm, d)]
           begin == [tmp |-> t.root, res |-> NULL]
           On(d) == NPath(S, sub, elm, d.tmp, d.res)
           R == {d \in V : On(d) /\ (d.tmp = NULL \/ Cmp(elm, d.tmp) = "here")}
           G == [k \in Nat |-> {d \in V : On(d) /\ Cardinality(sub[d.tmp]) <= k}]
           last == Loop(turn, begin)
<1>1. Tree(ch, root, S, sub) /\ S \subseteq Node /\ S \in SUBSET Node /\ sub[NULL] = {} /\ sub[root] = S /\ root \in S \cup {NULL}
  BY ShapeIs
<1>2. \A d \in V : turn[d] = IF d.tmp = NULL \/ Cmp(elm, d.tmp) = "here" THEN d
                             ELSE [tmp |-> ch[Cmp(elm, d.tmp)][d.tmp],
                                   res |-> IF Cmp(elm, d.tmp) = "left" THEN d.tmp ELSE d.res]
  BY DEF NFind
<1>3. RB_NFIND(t, elm) = IF last.tmp = NULL THEN last.res ELSE last.tmp
  BY DEF RB_NFIND
<1>4. begin \in V /\ begin.tmp = root /\ begin.res = NULL
  BY <1>1 DEF NodeOrNull
<1> HIDE DEF turn, begin, ch, root, last
<1>5. \A d \in R : turn[d] \in R
  BY <1>2
<1>6. ASSUME NEW k \in Nat, NEW d \in G[k]
      PROVE  d \in R \/ turn[d] \in R \/ \E j \in Nat : j < k /\ turn[d] \in G[j]
  <2> DEFINE x == d.tmp
             p == d.res
             i == Cmp(elm, x)
             c == ch[i][x]
             q == IF i = "left" THEN x ELSE p
  <2>1. d \in V /\ NPath(S, sub, elm, x, p) /\ Cardinality(sub[x]) <= k
    OBVIOUS
  <2>2. CASE x = NULL \/ Cmp(elm, x) = "here"
    BY <2>1, <2>2
  <2>3. CASE ~(x = NULL \/ Cmp(elm, x) = "here")
    <3>1. turn[d] = [tmp |-> c, res |-> q]
      BY <1>2, <2>1, <2>3
    <3>2. x \in S /\ x # NULL /\ i # "here"
      BY <2>1, <2>3 DEF NPath
    <3> HIDE DEF x, p
    <3>3. x \in Node /\ i \in Sides
      BY <1>1, <3>2, CmpFacts
    <3>4. i = Cmp(elm, x) /\ c = ch[i][x] /\ q = IF i = "left" THEN x ELSE p
      OBVIOUS
    <3> HIDE DEF i, c, q
    <3>5. /\ NPath(S, sub, elm, c, q) /\ Cardinality(sub[c]) \in Nat
          /\ Cardinality(sub[x]) \in Nat /\ Cardinality(sub[c]) < Cardinality(sub[x])
      BY <1>1, <2>1, <3>2, <3>3, <3>4, NPathStep
    <3> DEFINE j == Cardinality(sub[c])
               next == turn[d]
    <3>6. next.tmp = c /\ next.res = q /\ next = [tmp |-> c, res |-> q]
      BY <3>1
    <3>7. c \in NodeOrNull /\ q \in NodeOrNull
      BY <1>1, <3>5 DEF NPath, NodeOrNull
    <3> HIDE DEF next
    <3>8. next \in V
      BY <3>6, <3>7
    <3>9. On(next) /\ Cardinality(sub[next.tmp]) <= j
      BY <3>5, <3>6
    <3>10. next \in G[j]
      BY <3>5, <3>8, <3>9
    <3>11. j \in Nat /\ j < k
      BY <2>1, <3>5
    <3> QED
      BY <3>10, <3>11 DEF next
  <2> QED
    BY <2>2, <2>3
<1>7. \A d \in G[0] : d \in R
  <2> SUFFICES ASSUME NEW d \in G[0] PROVE d \in R
    OBVIOUS
  <2>1. d \in V /\ On(d) /\ Cardinality(sub[d.tmp]) <= 0
    OBVIOUS
  <2>2. d.tmp \in S \cup {NULL}
    BY <2>1 DEF NPath
  <2>3. d.tmp \notin S
    <3> DEFINE x == d.tmp
    <3> SUFFICES ASSUME x \in S PROVE FALSE
      OBVIOUS
    <3>1. Cardinality(sub[x]) <= 0
      BY <2>1
    <3> HIDE DEF x
    <3> QED
      BY <1>1, <3>1, Inhabited
  <2> QED
    BY <2>1, <2>2, <2>3
<1> DEFINE n == Cardinality(S)
<1>8. n \in Nat /\ n <= Cardinality(Node)
  BY <1>1, Finite
<1>9. On(begin)
  <2>1. NPath(S, sub, elm, root, NULL)
    BY <1>1 DEF NPath
  <2> QED
    BY <1>4, <2>1
<1>10. begin \in G[n]
  <2>1. Cardinality(sub[begin.tmp]) <= n
    BY <1>1, <1>4, <1>8
  <2> QED
    BY <1>4, <1>8, <1>9, <2>1
<1> HIDE DEF G, R, n
<1>11. last \in R
  <2>1. Loop(turn, begin) \in R
    BY <1>5, <1>6, <1>7, <1>8, <1>10, LoopEnds
  <2> QED
    BY <2>1 DEF last
<1> DEFINE a == last.tmp
           p == last.res
           f == RB_NFIND(t, elm)
<1>12. NPath(S, sub, elm, a, p) /\ (a = NULL \/ Cmp(elm, a) = "here") /\ f = IF a = NULL THEN p ELSE a
  BY <1>3, <1>11 DEF R
<1> HIDE DEF a, p, f
<1>13. f = Least({m \in S : Key[m] >= Key[elm]})
  BY <1>1, <1>12, NPathEnds
<1> QED
  BY <1>13 DEF f

-----------------------------------------------------------------------------
(* RB_NEXT and RB_PREV                                                     *)

\* An element on one side of another has it on the other side.
LEMMA CmpFlip ==
  ASSUME NEW a \in Node, NEW b \in Node, NEW i \in Sides, Cmp(a, b) = i
  PROVE  Cmp(b, a) = Other(i) /\ Other(i) \in Sides /\ Other(i) # i
BY CmpFacts, SideFacts

\* An element is on one side or the other of another, or has its key.
LEMMA CmpCases ==
  ASSUME NEW a \in Node, NEW b \in Node, NEW i \in Sides
  PROVE  Cmp(a, b) = i \/ Cmp(a, b) = Other(i) \/ Cmp(a, b) = "here"
BY CmpFacts, SideFacts

\* f is the element of S after n in the direction of side, if there is one.
Neighbour(S, n, side, f) ==
  \/ f = NULL /\ \A m \in S : Cmp(m, n) # side
  \/ f \in S /\ Cmp(f, n) = side /\ \A m \in S : Cmp(m, n) = side => m = f \/ Cmp(m, f) = side

\* The neighbours are the next larger and the next smaller element.
LEMMA NeighbourIs ==
  ASSUME NEW S \in SUBSET Node, NEW n \in S, NEW f
  PROVE  /\ Neighbour(S, n, "right", f) => f = Least({m \in S : Key[m] > Key[n]})
         /\ Neighbour(S, n, "left", f) => f = Greatest({m \in S : Key[m] < Key[n]})
<1> DEFINE X == {m \in S : Key[m] > Key[n]}
           Y == {m \in S : Key[m] < Key[n]}
<1>1. X = {m \in S : Cmp(m, n) = "right"} /\ Y = {m \in S : Cmp(m, n) = "left"}
  BY KeySets
<1>2. X \in SUBSET Node /\ Y \in SUBSET Node
  OBVIOUS
<1> HIDE DEF X, Y
<1>3. ASSUME Neighbour(S, n, "right", f) PROVE f = Least(X)
  <2>1. CASE f = NULL /\ \A m \in S : Cmp(m, n) # "right"
    <3>1. X = {}
      BY <1>1, <2>1
    <3> QED
      BY <2>1, <3>1 DEF Least
  <2>2. CASE f \in S /\ Cmp(f, n) = "right" /\ \A m \in S : Cmp(m, n) = "right" => m = f \/ Cmp(m, f) = "right"
    <3>1. f \in X /\ \A m \in X : m = f \/ Cmp(m, f) = "right"
      BY <1>1, <2>2
    <3> QED
      BY <1>2, <3>1, LeastIs
  <2> QED
    BY <1>3, <2>1, <2>2 DEF Neighbour
<1>4. ASSUME Neighbour(S, n, "left", f) PROVE f = Greatest(Y)
  <2>1. CASE f = NULL /\ \A m \in S : Cmp(m, n) # "left"
    <3>1. Y = {}
      BY <1>1, <2>1
    <3> QED
      BY <2>1, <3>1 DEF Greatest
  <2>2. CASE f \in S /\ Cmp(f, n) = "left" /\ \A m \in S : Cmp(m, n) = "left" => m = f \/ Cmp(m, f) = "left"
    <3>1. f \in Y /\ \A m \in Y : m = f \/ Cmp(m, f) = "left"
      BY <1>1, <2>2
    <3> QED
      BY <1>2, <3>1, GreatestIs
  <2> QED
    BY <1>4, <2>1, <2>2 DEF Neighbour
<1> QED
  BY <1>3, <1>4 DEF X, Y

\* The neighbour of an element with a subtree on that side is the innermost there.
LEMMA StepDown ==
  ASSUME NEW t, NEW S, NEW sub, Shape(t, S, sub), NEW n \in S, NEW side \in Sides, t.child[side][n] # NULL
  PROVE  Neighbour(S, n, side, Extreme(t, t.child[side][n], Other(side)))
<1> DEFINE ch == t.child
           r == t.root
           c == ch[side][n]
           f == Extreme(t, c, Other(side))
<1>1. Tree(ch, r, S, sub) /\ TreeOf(t, r, S, sub) /\ S \subseteq Node
  BY ShapeIs DEF TreeOf
<1>2. c = ch[side][n] /\ c # NULL
  OBVIOUS
<1>3. Other(side) \in Sides /\ Other(Other(side)) = side
  BY SideFacts
<1> HIDE DEF ch, r, c
<1>4. c \in S /\ c \in sub[n] /\ sub[c] \subseteq sub[n]
  BY <1>1, <1>2, Child
<1>5. f \in sub[c] /\ \A m \in sub[c] : m = f \/ Cmp(m, f) = side
  BY <1>1, <1>3, <1>4, ExtremeIs
<1> HIDE DEF f
<1>6. f \in S /\ f \in sub[n] /\ Cmp(f, n) = side
  BY <1>1, <1>2, <1>4, <1>5 DEF Tree
<1>7. ASSUME NEW m \in S, Cmp(m, n) = side PROVE m = f \/ Cmp(m, f) = side
  <2>1. CASE m \in sub[n]
    BY <1>1, <1>2, <1>5, <1>7, <2>1 DEF Tree
  <2>2. CASE m \notin sub[n]
    BY <1>1, <1>6, <1>7, <2>2, Convex
  <2> QED
    BY <2>1, <2>2
<1>8. Neighbour(S, n, side, f)
  BY <1>6, <1>7 DEF Neighbour
<1> QED
  BY <1>8 DEF f, c, ch

\* n is the last element below x in the direction of side.
LastBelow(S, sub, n, side, x) ==
  x \in S /\ n \in sub[x] /\ \A m \in sub[x] : m = n \/ Cmp(m, n) = Other(side)

\* The last element below a child on that side is the last one below its parent.
LEMMA LastAbove ==
  ASSUME NEW ch, NEW r, NEW S, NEW sub, Tree(ch, r, S, sub), NEW n \in S, NEW side \in Sides, NEW p \in S,
         NEW x, x = ch[side][p], x # NULL, LastBelow(S, sub, n, side, x)
  PROVE  LastBelow(S, sub, n, side, p) /\ sub[x] \subseteq sub[p] /\ p \notin sub[x] /\ p \in sub[p]
<1>1. S \subseteq Node /\ p \in sub[p] /\ p \in Node /\ n \in Node
  BY DEF Tree
<1>2. x \in S /\ n \in sub[x] /\ \A m \in sub[x] : m = n \/ Cmp(m, n) = Other(side)
  BY Zenon DEF LastBelow
<1>3. sub[x] \subseteq sub[p] /\ p \notin sub[x]
  BY Child
<1>4. Cmp(n, p) = side /\ n \in sub[p]
  BY <1>2, <1>3 DEF Tree
<1> DEFINE o == Other(side)
<1>5. Cmp(p, n) = o /\ o \in Sides
  BY <1>1, <1>4, CmpFlip
<1>6. ASSUME NEW m \in sub[p] PROVE m = n \/ Cmp(m, n) = o
  <2>1. m \in S /\ m \in Node /\ (Cmp(m, p) = "here" => m = p)
    BY <1>1 DEF Tree
  <2>2. CASE Cmp(m, p) = side
    <3>1. m \in sub[x]
      BY <2>1, <2>2 DEF Tree
    <3> QED
      BY <1>2, <3>1
  <2>3. CASE Cmp(m, p) = o
    <3> HIDE DEF o
    <3> QED
      BY <1>1, <1>5, <2>1, <2>3, CmpTransitive
  <2> QED
    BY <1>1, <1>5, <2>1, <2>2, <2>3, CmpCases
<1>7. LastBelow(S, sub, n, side, p)
  BY <1>4, <1>6 DEF LastBelow
<1> QED
  BY <1>1, <1>3, <1>7

\* x is the child of p on a side, by its parent field and by the child field of p.
Up(t, side, x, p) == p = t.parent[x] /\ p # NULL /\ x = t.child[side][p]

\* Going up from a child on that side, n stays the last element below.
LEMMA ClimbStep ==
  ASSUME NEW t, NEW S, NEW sub, Shape(t, S, sub), NEW n \in S, NEW side \in Sides, NEW x,
         LastBelow(S, sub, n, side, x), NEW p, Up(t, side, x, p)
  PROVE  /\ LastBelow(S, sub, n, side, p) /\ Outside(S, sub, p) \in Nat /\ Outside(S, sub, x) \in Nat
         /\ Outside(S, sub, p) < Outside(S, sub, x)
<1> DEFINE ch == t.child
           r == t.root
<1>1. Tree(ch, r, S, sub) /\ S \in SUBSET Node /\ S \subseteq Node
  BY ShapeIs
<1>2. x \in S
  BY Zenon DEF LastBelow
<1>3. p \in S
  BY <1>2, Place DEF Up
<1>4. x = ch[side][p] /\ x # NULL
  BY <1>1, <1>2, NotNull DEF Up
<1> HIDE DEF ch, r
<1>5. LastBelow(S, sub, n, side, p) /\ sub[x] \subseteq sub[p] /\ p \notin sub[x] /\ p \in sub[p]
  BY <1>1, <1>3, <1>4, LastAbove
<1>6. /\ Outside(S, sub, p) \in Nat /\ Outside(S, sub, x) \in Nat
      /\ Outside(S, sub, p) < Outside(S, sub, x)
  BY <1>1, <1>3, <1>5, OutsideIs
<1> QED
  BY <1>5, <1>6

\* Where n is last on the near side of p, the neighbour of n is p.
LEMMA LastEnds ==
  ASSUME NEW ch, NEW r, NEW S, NEW sub, Tree(ch, r, S, sub), NEW n \in S, NEW side \in Sides, NEW p \in S,
         NEW o, o = Other(side), NEW x, x = ch[o][p], x # NULL, LastBelow(S, sub, n, side, x)
  PROVE  Neighbour(S, n, side, p)
<1>1. S \subseteq Node /\ p \in sub[p] /\ p \in Node /\ n \in Node /\ Cmp(n, n) = "here"
  BY CmpFacts DEF Tree
<1>2. x \in S /\ n \in sub[x] /\ \A m \in sub[x] : m = n \/ Cmp(m, n) = o
  BY Zenon DEF LastBelow
<1>3. o \in Sides /\ o # side /\ "here" \notin Sides /\ side = Other(o)
  BY SideFacts
<1>4. sub[x] \subseteq sub[p]
  BY <1>3, Child
<1>5. Cmp(n, p) = o /\ n \in sub[p]
  BY <1>2, <1>3, <1>4 DEF Tree
<1>6. Cmp(p, n) = side
  <2>1. Cmp(p, n) = Other(o)
    BY <1>1, <1>3, <1>5, CmpFlip
  <2> QED
    BY <1>3, <2>1
<1>7. ASSUME NEW m \in S, Cmp(m, n) = side PROVE m = p \/ Cmp(m, p) = side
  <2>1. m \in Node /\ m \notin sub[x] /\ (Cmp(m, p) = "here" => m = p)
    BY <1>1, <1>2, <1>3, <1>7 DEF Tree
  <2>2. CASE m \in sub[p]
    <3>1. Cmp(m, p) # o
      BY <1>3, <2>1, <2>2 DEF Tree
    <3> QED
      BY <1>1, <2>1, <3>1, CmpCases
  <2>3. CASE m \notin sub[p]
    <3>1. Cmp(m, n) = Cmp(m, p)
      BY <1>5, <2>3, Convex
    <3> QED
      BY <1>7, <3>1
  <2> QED
    BY <2>2, <2>3
<1> QED
  BY <1>6, <1>7 DEF Neighbour

\* Where the way up from that side ends is the neighbour, or there is none.
LEMMA ClimbEnds ==
  ASSUME NEW t, NEW S, NEW sub, Shape(t, S, sub), NEW n \in S, NEW side \in Sides, NEW x,
         LastBelow(S, sub, n, side, x), NEW p, p = t.parent[x], p = NULL \/ x # t.child[side][p]
  PROVE  Neighbour(S, n, side, p)
<1> DEFINE ch == t.child
           r == t.root
<1>1. Tree(ch, r, S, sub) /\ S \subseteq Node /\ sub[r] = S
  BY ShapeIs
<1>2. x \in S /\ n \in sub[x] /\ \A m \in sub[x] : m = n \/ Cmp(m, n) = Other(side)
  BY Zenon DEF LastBelow
<1>3. n \in Node /\ Cmp(n, n) = "here" /\ Other(side) # side /\ "here" \notin Sides /\ Other(side) \in Sides
  BY <1>1, CmpFacts, SideFacts
<1>4. \A m \in S : Cmp(m, n) = side => m \notin sub[x]
  BY <1>2, <1>3
<1>5. /\ x = r => p = NULL
      /\ x # r => p \in S /\ p # NULL /\ \E i \in Sides : ch[i][p] = x
  BY <1>2, Place
<1>6. p # NULL => x # ch[side][p]
  OBVIOUS
<1> HIDE DEF ch, r
<1>7. CASE x = r
  BY <1>1, <1>4, <1>5, <1>7 DEF Neighbour
<1>8. CASE x # r
  <2> DEFINE o == Other(side)
  <2>1. p \in S /\ x = ch[o][p] /\ x # NULL
    <3>1. PICK i \in Sides : ch[i][p] = x /\ p \in S /\ p # NULL
      BY <1>5, <1>8
    <3>2. i # side /\ x # NULL
      BY <1>1, <1>2, <1>6, <3>1, NotNull
    <3> QED
      BY <3>1, <3>2, SideFacts
  <2>2. o = Other(side)
    OBVIOUS
  <2> HIDE DEF o
  <2> QED
    BY <1>1, <2>1, <2>2, LastEnds
<1> QED
  BY <1>7, <1>8

\* n has no child on a side.
Bare(t, side, n) == t.child[side][n] = NULL

\* The neighbour of an element without a subtree on that side is above it.
LEMMA StepUp ==
  ASSUME NEW t, NEW S, NEW sub, Shape(t, S, sub), NEW n \in S, NEW side \in Sides, Bare(t, side, n)
  PROVE  Neighbour(S, n, side, Climb(t, n, side))
<1> DEFINE turn == [x \in Node |->
                     IF t.parent[x] # NULL /\ x = t.child[side][t.parent[x]] THEN t.parent[x] ELSE x]
           On(x) == LastBelow(S, sub, n, side, x)
           Over(x) == t.parent[x] = NULL \/ x # t.child[side][t.parent[x]]
           R == {x \in S : On(x) /\ Over(x)}
           G == [k \in Nat |-> {x \in S : On(x) /\ Outside(S, sub, x) <= k}]
           last == Loop(turn, n)
           k0 == Outside(S, sub, n)
<1>1. S \subseteq Node /\ S \in SUBSET Node /\ n \in Node
  BY ShapeIs
<1>2. Climb(t, n, side) = t.parent[last]
  BY DEF Climb
<1>3. \A x \in S : /\ Over(x) => turn[x] = x
                   /\ ~Over(x) => turn[x] = t.parent[x] /\ t.parent[x] # NULL /\ x = t.child[side][t.parent[x]]
  BY <1>1
<1>4. On(n)
  <2> DEFINE ch == t.child
             r == t.root
  <2>1. Tree(ch, r, S, sub) /\ ch[side][n] = NULL
    BY ShapeIs DEF Bare
  <2> HIDE DEF ch, r
  <2>2. n \in sub[n] /\ sub[n] \subseteq S
    BY <2>1 DEF Tree
  <2>3. ASSUME NEW m \in sub[n] PROVE m = n \/ Cmp(m, n) = Other(side)
    <3>1. m \in S /\ m \in Node /\ (Cmp(m, n) = "here" => m = n)
      BY <1>1, <2>1, <2>2 DEF Tree
    <3>2. Cmp(m, n) # side
      BY <2>1, <3>1 DEF Tree
    <3> QED
      BY <1>1, <3>1, <3>2, CmpFacts, SideFacts
  <2> QED
    BY <2>2, <2>3 DEF LastBelow
<1> HIDE DEF turn, last
<1>5. \A x \in R : turn[x] \in R
  BY <1>3
<1>6. ASSUME NEW k \in Nat, NEW x \in G[k]
      PROVE  x \in R \/ turn[x] \in R \/ \E j \in Nat : j < k /\ turn[x] \in G[j]
  <2>1. x \in S /\ On(x) /\ Outside(S, sub, x) <= k
    OBVIOUS
  <2>2. CASE Over(x)
    BY <2>1, <2>2
  <2>3. CASE ~Over(x)
    <3> DEFINE p == t.parent[x]
               j == Outside(S, sub, p)
               o == Outside(S, sub, x)
    <3>1. turn[x] = p /\ Up(t, side, x, p)
      BY <1>3, <2>1, <2>3 DEF Up
    <3> HIDE DEF p
    <3>2. On(p) /\ j \in Nat /\ o \in Nat /\ j < o
      BY <2>1, <3>1, ClimbStep
    <3>3. o <= k
      BY <2>1
    <3> HIDE DEF j, o
    <3>4. j < k /\ j <= j
      BY <3>2, <3>3
    <3>5. p \in S
      BY <3>2 DEF LastBelow
    <3>6. p \in G[j]
      BY <3>2, <3>4, <3>5 DEF j
    <3> QED
      BY <3>1, <3>2, <3>4, <3>6
  <2> QED
    BY <2>2, <2>3
<1>7. \A x \in G[0] : x \in R
  <2> SUFFICES ASSUME NEW x \in G[0] PROVE x \in R
    OBVIOUS
  <2>1. x \in S /\ On(x) /\ Outside(S, sub, x) <= 0
    OBVIOUS
  <2>2. Over(x)
    <3> SUFFICES ASSUME ~Over(x) PROVE FALSE
      OBVIOUS
    <3> DEFINE p == t.parent[x]
    <3>1. Up(t, side, x, p)
      BY <1>3, <2>1 DEF Up
    <3> HIDE DEF p
    <3>2. /\ Outside(S, sub, p) \in Nat /\ Outside(S, sub, x) \in Nat
          /\ Outside(S, sub, p) < Outside(S, sub, x)
      BY <2>1, <3>1, ClimbStep
    <3> QED
      BY <2>1, <3>2
  <2> QED
    BY <2>1, <2>2
<1>8. k0 \in Nat /\ k0 <= Cardinality(Node)
  BY <1>1, OutsideNat
<1>9. n \in G[k0]
  BY <1>4, <1>8
<1> HIDE DEF R, G, k0
<1>10. last \in R
  <2>1. Loop(turn, n) \in R
    BY <1>5, <1>6, <1>7, <1>8, <1>9, LoopEnds
  <2> QED
    BY <2>1 DEF last
<1> DEFINE p == t.parent[last]
<1>11. On(last) /\ p = t.parent[last] /\ (p = NULL \/ last # t.child[side][p])
  BY <1>10 DEF R
<1> HIDE DEF p
<1>12. Neighbour(S, n, side, p)
  BY <1>11, ClimbEnds
<1> QED
  BY <1>2, <1>12 DEF p

\* RB_NEXT and RB_PREV find the neighbours.
LEMMA RbStepIs ==
  ASSUME NEW t, NEW S, NEW sub, Shape(t, S, sub), NEW n \in S, NEW side \in Sides
  PROVE  Neighbour(S, n, side, RB_STEP(t, n, side))
BY StepDown, StepUp DEF RB_STEP, Bare

-----------------------------------------------------------------------------
(* What is checked                                                         *)

\* BlackHeights, which the invariants of the model are stated with, counts on all
\* paths down what h says.
LEMMA HeightsAre ==
  ASSUME NEW t, NEW S, NEW sub, Shape(t, S, sub), NEW h, NEW d, Balanced(t, S, h, NULL, d),
         NEW p \in S \cup {NULL}
  PROVE  BlackHeights(t)[p] = {h[p]}
<1> DEFINE ch == t.child
           r == t.root
           w(n) == IF Red(t, n) THEN 0 ELSE 1
           low == [n \in NodeOrNull |-> {0}]
           V == [NodeOrNull -> SUBSET Nat]
           deeper == [f \in V |->
                   [n \in NodeOrNull |->
                      IF n = NULL THEN {0}
                      ELSE {x + w(n) : x \in f[t.child["left"][n]] \cup f[t.child["right"][n]]}]]
           N == Cardinality(Node)
<1>0. Tree(ch, r, S, sub) /\ S \subseteq Node /\ t \in RbMemory /\ sub[NULL] = {}
  BY ShapeIs
<1>1. low \in V /\ low[NULL] = {0}
  BY DEF NodeOrNull
<1>2. \A f \in V : deeper[f] \in V
  <2> SUFFICES ASSUME NEW f \in V PROVE deeper[f] \in V
    OBVIOUS
  <2>1. \A n \in NodeOrNull \ {NULL} : ch["left"][n] \in NodeOrNull /\ ch["right"][n] \in NodeOrNull
    BY <1>0, RbReads DEF NodeOrNull, Sides
  <2>2. \A n \in NodeOrNull \ {NULL} : f[ch["left"][n]] \cup f[ch["right"][n]] \in SUBSET Nat
    BY <2>1
  <2>3. \A n : w(n) \in Nat
    OBVIOUS
  <2>4. \A n \in NodeOrNull \ {NULL} : {x + w(n) : x \in f[ch["left"][n]] \cup f[ch["right"][n]]} \in SUBSET Nat
    BY <2>2, <2>3
  <2>5. {0} \in SUBSET Nat
    OBVIOUS
  <2> HIDE DEF w
  <2> QED
    BY <2>4, <2>5
<1>3. BlackHeights(t) = Loop(deeper, low)
  BY DEF BlackHeights
<1>4. \A f \in V, n \in Node : deeper[f][n] = {x + w(n) : x \in f[ch["left"][n]] \cup f[ch["right"][n]]}
  BY NotNull DEF NodeOrNull
<1>5. \A f \in V : deeper[f][NULL] = {0}
  BY DEF NodeOrNull
<1>6. /\ h \in [NodeOrNull -> Nat] /\ h[NULL] = 0
      /\ \A n \in S, i \in Sides : h[n] = h[ch[i][n]] + Lack(NULL, d, n, i) + Weight(t, n)
  BY DEF Balanced
<1>7. \A n \in S, i \in Sides : h[n] = h[ch[i][n]] + w(n) /\ h[ch[i][n]] \in Nat
  <2> SUFFICES ASSUME NEW n \in S, NEW i \in Sides
               PROVE  h[n] = h[ch[i][n]] + w(n) /\ h[ch[i][n]] \in Nat
    OBVIOUS
  <2>1. Lack(NULL, d, n, i) = 0 /\ n # NULL /\ n \in Node
    BY <1>0, NotNull DEF Lack
  <2>2. Weight(t, n) = w(n) /\ w(n) \in Nat
    BY <1>0, <2>1, RbReads DEF Weight, Red
  <2>3. h[n] = h[ch[i][n]] + 0 + w(n)
    BY <1>6, <2>1, <2>2
  <2>4. ch[i][n] \in NodeOrNull
    BY <1>0, <2>1, RbReads
  <2>5. h[ch[i][n]] \in Nat
    BY <1>6, <2>4
  <2>6. \A x, y \in Nat : x + 0 + y = x + y
    OBVIOUS
  <2> QED
    BY <2>2, <2>3, <2>5, <2>6
<1> HIDE DEF low, V, deeper, ch, r, w
<1>8. PICK after \in [0..N -> V] : Runs(deeper, low, N, after) /\ Loop(deeper, low) = after[N]
  BY <1>1, <1>2, LoopRuns, SMTT(60)
<1>9. N \in Nat
  BY Elements
<1> HIDE DEF N
<1> DEFINE Near(k) == after[k][NULL] = {0} /\ \A n \in S : Cardinality(sub[n]) <= k => after[k][n] = {h[n]}
           T == {k \in 0..N : ~Near(k)}
<1>10. T = {}
  <2> SUFFICES ASSUME T # {} PROVE FALSE
    OBVIOUS
  <2>0. T \subseteq Nat
    BY <1>9
  <2>1. PICK k \in T : \A j \in T : ~(j < k)
    <3> HIDE DEF T
    <3> QED
      BY <2>0, LeastNumber
  <2>2. k # 0
    <3>1. \A n \in S : ~(Cardinality(sub[n]) <= 0)
      BY <1>0, Inhabited
    <3>2. Near(0)
      BY <1>1, <1>8, <3>1 DEF Runs
    <3> QED
      BY <2>1, <3>2
  <2>3. k - 1 \in 0..N /\ k - 1 < k /\ k \in 1..N
    BY <1>9, <2>1, <2>2
  <2>4. Near(k - 1)
    BY <2>1, <2>3
  <2>5. after[k] = deeper[after[k - 1]] /\ after[k - 1] \in V
    BY <1>8, <2>3 DEF Runs
  <2>6. ASSUME NEW n \in S, Cardinality(sub[n]) <= k
        PROVE  after[k][n] = {h[n]}
    <3>1. ASSUME NEW i \in Sides
          PROVE  after[k - 1][ch[i][n]] = {h[ch[i][n]]}
      <4>1. CASE ch[i][n] = NULL
        BY <1>6, <2>4, <4>1
      <4>2. CASE ch[i][n] # NULL
        <5>1. ch[i][n] \in S /\ Cardinality(sub[ch[i][n]]) < Cardinality(sub[n])
          BY <1>0, <4>2, Child
        <5>2. Cardinality(sub[ch[i][n]]) \in Nat /\ Cardinality(sub[n]) \in Nat
          BY <1>0, <5>1, Inhabited
        <5>3. Cardinality(sub[ch[i][n]]) <= k - 1
          BY <2>3, <2>6, <5>1, <5>2
        <5> QED
          BY <2>4, <5>1, <5>3
      <4> QED
        BY <4>1, <4>2
    <3>2. n \in Node /\ "left" \in Sides /\ "right" \in Sides
      BY <1>0 DEF Sides
    <3> DEFINE a == h[ch["left"][n]]
               b == h[ch["right"][n]]
    <3>3. after[k][n] = {x + w(n) : x \in {a} \cup {b}}
      BY <1>4, <2>5, <3>1, <3>2
    <3>4. h[n] = a + w(n) /\ h[n] = b + w(n)
      BY <1>7, <3>2
    <3> QED
      BY <3>3, <3>4
  <2>7. Near(k)
    BY <1>5, <2>5, <2>6
  <2> QED
    BY <2>1, <2>7
<1>11. Near(N)
  BY <1>9, <1>10
<1>12. \A n \in S : Cardinality(sub[n]) <= N
  BY <1>0, Finite DEF Tree, N
<1>13. \A n \in S : after[N][n] = {h[n]}
  BY <1>11, <1>12
<1>14. BlackHeights(t) = after[N] /\ after[N][NULL] = {0}
  BY <1>3, <1>8, <1>11
<1>15. CASE p = NULL
  BY <1>6, <1>14, <1>15
<1>16. CASE p \in S
  BY <1>13, <1>14, <1>16
<1> QED
  BY <1>15, <1>16

\* A red-black tree is one in the sense of the property that is checked.
LEMMA RbOkKept ==
  ASSUME NEW t, NEW S, RbOk(t, S)
  PROVE  /\ Holds(t, t.root, S)
         /\ \A n \in S, side \in Sides : t.child[side][n] # NULL => t.parent[t.child[side][n]] = n
         /\ t.root # NULL => t.parent[t.root] = NULL
         /\ Cardinality(BlackHeights(t)[t.root]) = 1
         /\ \A n \in S : Red(t, n) => ~Red(t, t.parent[n])
<1>1. PICK sub, h, d : d \in Sides /\ Shape(t, S, sub) /\ Balanced(t, S, h, NULL, d) /\ Calm(t, S, {}, {})
  BY DEF RbOk
<1>2. t \in RbMemory /\ TreeOf(t, t.root, S, sub) /\ t.root \in S \cup {NULL}
  BY <1>1, ShapeIs DEF TreeOf
<1>3. Fields(t.child)
  BY <1>2, RbReads
<1>4. Holds(t, t.root, S)
  BY <1>2, <1>3, TreeHolds
<1>5. Cardinality(BlackHeights(t)[t.root]) = 1
  <2> DEFINE r == t.root
  <2>1. r \in S \cup {NULL}
    BY <1>2
  <2> HIDE DEF r
  <2>2. BlackHeights(t)[r] = {h[r]}
    BY <1>1, <2>1, HeightsAre
  <2> QED
    BY <2>2, FS_Singleton DEF r
<1>6. ASSUME NEW n \in S, Red(t, n) PROVE ~Red(t, t.parent[n])
  <2> DEFINE p == t.parent[n]
  <2>1. n # t.root
    BY <1>1, <1>6 DEF Calm
  <2>2. p \in S /\ \E i \in Sides : t.child[i][p] = n
    BY <1>1, <2>1, Place
  <2> HIDE DEF p
  <2>3. ~Red(t, p)
    BY <1>1, <1>6, <2>2 DEF Calm
  <2> QED
    BY <2>3 DEF p
<1> QED
  BY <1>1, <1>4, <1>5, <1>6 DEF Shape

\* The lookups in a red-black tree answer as its set of elements would.
LEMMA RbOkLookups ==
  ASSUME NEW t, NEW S, RbOk(t, S)
  PROVE  /\ RB_MINMAX(t, "left") = Least(S) /\ RB_MINMAX(t, "right") = Greatest(S)
         /\ \A n \in Node :
              /\ RB_FIND(t, n) = Least(SameKey(S, n))
              /\ RB_NFIND(t, n) = Least({m \in S : Key[m] >= Key[n]})
         /\ \A n \in S :
              /\ RB_STEP(t, n, "right") = Least({m \in S : Key[m] > Key[n]})
              /\ RB_STEP(t, n, "left") = Greatest({m \in S : Key[m] < Key[n]})
<1>1. PICK sub : Shape(t, S, sub)
  BY DEF RbOk
<1>2. RB_MINMAX(t, "left") = Least(S) /\ RB_MINMAX(t, "right") = Greatest(S)
  BY <1>1, RbEndsAre
<1>3. ASSUME NEW n \in Node
      PROVE  /\ RB_FIND(t, n) = Least(SameKey(S, n))
             /\ RB_NFIND(t, n) = Least({m \in S : Key[m] >= Key[n]})
  BY <1>1, RbFindIs, RbNFindIs
<1>4. ASSUME NEW n \in S
      PROVE  /\ RB_STEP(t, n, "right") = Least({m \in S : Key[m] > Key[n]})
             /\ RB_STEP(t, n, "left") = Greatest({m \in S : Key[m] < Key[n]})
  <2> DEFINE f == RB_STEP(t, n, "right")
             g == RB_STEP(t, n, "left")
  <2>1. "left" \in Sides /\ "right" \in Sides /\ S \in SUBSET Node
    BY <1>1, ShapeIs DEF Sides
  <2>2. Neighbour(S, n, "right", f) /\ Neighbour(S, n, "left", g)
    BY <1>1, <2>1, RbStepIs
  <2> HIDE DEF f, g
  <2>3. f = Least({m \in S : Key[m] > Key[n]}) /\ g = Greatest({m \in S : Key[m] < Key[n]})
    BY <2>1, <2>2, NeighbourIs
  <2> QED
    BY <2>3 DEF f, g
<1> QED
  BY <1>2, <1>3, <1>4

-----------------------------------------------------------------------------
(* Removal: what is lacking                                                *)

\* A black element is missing on the paths through elm, on the side d of p.
Deficit(t, S, sub, p, d, elm, h) ==
  /\ d \in Sides /\ p \in S /\ Shape(t, S, sub) /\ t.child[d][p] = elm /\ ~Red(t, elm)
  /\ Balanced(t, S, h, p, d) /\ Calm(t, S, {}, {}) /\ t.child[Other(d)][p] # NULL

\* The same of the loop of RB_REMOVE_COLOR, where elm may be red or the root.
Removing(t, S, sub, p, elm) ==
  /\ Shape(t, S, sub) /\ Calm(t, S, {elm}, {elm})
  /\ \E h, d : d \in Sides /\ At(t, S, p, d, elm) /\ Balanced(t, S, h, p, d)

\* The other child of the parent of what is lacking is never null: tree.h reads
\* its colour unchecked.
LEMMA Sibling ==
  ASSUME NEW t, NEW S, NEW sub, Shape(t, S, sub), NEW p \in S, NEW d \in Sides, NEW h, Balanced(t, S, h, p, d)
  PROVE  t.child[Other(d)][p] # NULL /\ t.child[Other(d)][p] # t.child[d][p]
<1> DEFINE ch == t.child
           far == Other(d)
           e == ch[d][p]
           c == ch[far][p]
<1>1. far \in Sides /\ far # d
  BY SideFacts
<1>2. e \in S \cup {NULL} /\ c \in S \cup {NULL} /\ S \subseteq Node /\ p # NULL
  BY <1>1, ShapeIs, NotNull
<1>3. h \in [NodeOrNull -> Nat] /\ h[NULL] = 0
      /\ \A i \in Sides : h[p] = h[ch[i][p]] + Lack(p, d, p, i) + Weight(t, p)
  BY DEF Balanced
<1>4. h[p] = h[e] + 1 + Weight(t, p) /\ h[p] = h[c] + 0 + Weight(t, p)
  <2>1. Lack(p, d, p, d) = 1 /\ Lack(p, d, p, far) = 0
    BY <1>1 DEF Lack
  <2> QED
    BY <1>1, <1>3, <2>1
<1>5. h[e] \in Nat /\ h[c] \in Nat /\ Weight(t, p) \in Nat
  BY <1>2, <1>3 DEF NodeOrNull, Weight
<1> HIDE DEF e, c
<1>6. h[c] = h[e] + 1
  BY <1>4, <1>5
<1>7. c # NULL /\ c # e
  BY <1>3, <1>5, <1>6
<1> QED
  BY <1>7 DEF e, c, ch, far

\* In the loop of RB_REMOVE_COLOR elm is the child of parent where an element is
\* lacking.
LEMMA RemovePlace ==
  ASSUME NEW t, NEW S, NEW sub, NEW p, NEW elm, Removing(t, S, sub, p, elm), ~Red(t, elm), elm # t.root,
         NEW side, side = IF t.child["left"][p] = elm THEN "left" ELSE "right"
  PROVE  \E h : Deficit(t, S, sub, p, side, elm, h)
<1>1. PICK h, d : d \in Sides /\ At(t, S, p, d, elm) /\ Balanced(t, S, h, p, d)
  BY DEF Removing
<1>2. Shape(t, S, sub) /\ Calm(t, S, {elm}, {elm})
  BY DEF Removing
<1>3. p \in S /\ t.child[d][p] = elm
  BY <1>1 DEF At
<1>4. t.child[Other(d)][p] # NULL /\ t.child[Other(d)][p] # elm
  <2>1. t.child[Other(d)][p] # NULL /\ t.child[Other(d)][p] # t.child[d][p]
    BY <1>1, <1>2, <1>3, Sibling
  <2> QED
    BY <1>3, <2>1
<1>5. side = d
  BY <1>1, <1>3, <1>4 DEF Sides, Other
<1>6. Calm(t, S, {}, {})
  <2>1. /\ \A n \in S, i \in Sides :
             Red(t, n) /\ Red(t, t.child[i][n]) => n = elm \/ t.child[i][n] = elm
        /\ (Red(t, t.root) => t.root = elm)
    BY <1>2 DEF Calm
  <2> QED
    BY <2>1 DEF Calm
<1> QED
  BY <1>1, <1>2, <1>3, <1>4, <1>5, <1>6 DEF Deficit

\* The sibling c below p is red, and the turn brings it above p.
SiblingTurned(t, p, d, c, v) ==
  c = t.child[Other(d)][p] /\ Red(t, c) /\ v = RB_ROTATE(RB_SET_BLACKRED(t, c, p), d, p)

\* The red sibling c goes up, and elm has a black sibling.
LEMMA SiblingTurn ==
  ASSUME NEW t, NEW S, NEW sub, NEW p, NEW d, NEW elm, NEW h, Deficit(t, S, sub, p, d, elm, h),
         NEW c, NEW v, SiblingTurned(t, p, d, c, v)
  PROVE  \E f, g : /\ Deficit(v, S, f, p, d, elm, g) /\ f[elm] = sub[elm]
                   /\ ~Red(v, v.child[Other(d)][p])
<1> DEFINE far == Other(d)
           u == RB_SET_BLACKRED(t, c, p)
<1>0. Red(t, c) /\ c = t.child[far][p] /\ c # NULL
  BY DEF SiblingTurned, Red
<1>1. d \in Sides /\ p \in S /\ Shape(t, S, sub) /\ t.child[d][p] = elm /\ ~Red(t, elm)
      /\ Balanced(t, S, h, p, d) /\ Calm(t, S, {}, {}) /\ c # NULL
  BY <1>0 DEF Deficit
<1>2. far \in Sides /\ far # d /\ c = t.child[far][p]
  BY <1>0, <1>1, SideFacts
<1>3. /\ p \in Node /\ c \in S /\ c \in Node /\ c # p /\ c # t.root
      /\ \A i \in Sides : t.child[i][c] \in S \cup {NULL} /\ t.child[i][c] # p /\ t.child[i][c] # c
      /\ \A y \in S, j \in Sides : t.child[j][y] = c => y = p /\ j = far
  <2>1. /\ p \in Node /\ c \in S /\ c \in Node /\ c # p /\ c # t.root /\ t.parent[c] = p
        /\ \A j \in Sides : t.child[j][c] \in S \cup {NULL} /\ t.child[j][c] # p /\ t.child[j][c] # c
        /\ \A y \in S, j \in Sides : t.child[j][y] = c => y = p /\ j = far
    BY <1>1, <1>2, Apart
  <2> QED
    BY <2>1
<1>4. t \in RbMemory /\ S \subseteq Node /\ p \in NodeOrNull /\ c \in NodeOrNull /\ elm \in S \cup {NULL}
  <2>1. t \in RbMemory /\ S \subseteq Node /\ \A x \in S, i \in Sides : t.child[i][x] \in S \cup {NULL}
    BY <1>1, ShapeIs
  <2> QED
    BY <1>1, <1>3, <2>1 DEF NodeOrNull
<1>5. BlackRed(t, c, p, u)
  BY <1>4, BlackRedIs
<1> HIDE DEF u
<1>6. SameFields(t, u) /\ u.color[p] = "red" /\ u.color[c] = "black" /\ \A x \in S \ {p, c} : u.color[x] = t.color[x]
  BY <1>3, <1>4, <1>5 DEF BlackRed
<1>7. Shape(u, S, sub) /\ c = u.child[far][p]
  <2>1. Shape(u, S, sub)
    BY <1>1, <1>6, ShapeSame
  <2> QED
    BY <1>2, <1>6, <2>1 DEF SameFields
<1>8. Turns(u, S, d, p, c, v) /\ v.color = u.color
  <2>1. v = RB_ROTATE(u, d, p)
    BY DEF u, SiblingTurned
  <2>2. c = u.child[Other(d)][p]
    BY <1>7
  <2>3. Turns(u, S, d, p, c, RB_ROTATE(u, d, p)) /\ RB_ROTATE(u, d, p).color = u.color
    BY <1>1, <1>7, <2>2, RotateTurns
  <2> QED
    BY <2>1, <2>3
<1>9. Turns(t, S, d, p, c, v)
  BY <1>6, <1>8, TurnsSame
<1> DEFINE f == Turned(sub, p, c, Other(d))
           g == Swapped(h, p, c)
<1>10. Shape(v, S, f)
  BY <1>0, <1>1, <1>9, TurnsShape
<1>11. t.color[c] = "red" /\ t.color[p] = "black"
  <2>1. ~Red(t, p)
    BY <1>0, <1>1, <1>2 DEF Calm
  <2> QED
    BY <1>0, <1>3, <1>4, <2>1, NotNull, RbReads DEF Red
<1>12. Swaps(t, S, p, c, v)
  BY <1>6, <1>8, <1>11 DEF Swaps
<1> HIDE DEF f, g
<1>21. FarChild(t, d, p, c)
  BY <1>0 DEF FarChild
<1>13. Balanced(v, S, g, p, d)
  BY <1>0, <1>1, <1>3, <1>9, <1>12, <1>21, SwapBalance DEF g
<1>14. Calm(v, S, {}, {})
  <2>1. ~Red(t, t.child[d][p]) /\ ~Red(t, t.child[d][c])
    BY <1>0, <1>1, <1>3 DEF Calm
  <2>2. Calm(t, S, {c}, {})
    BY <1>1 DEF Calm
  <2>3. BlackBelow(t, d, p, c)
    BY <1>11, <2>1 DEF BlackBelow
  <2> QED
    BY <1>1, <1>9, <1>12, <1>21, <2>2, <2>3, SwapCalm
<1>15. v.child[d][p] = elm
  BY <1>1, <1>9 DEF Turns
<1>16. ~Red(v, elm) /\ Red(v, p)
  <2>1. elm # p /\ elm # c
    <3>1. elm # c
      BY <1>1, <1>2, <1>3
    <3>2. t.child[d][p] # p
      BY <1>1, <1>2, Around
    <3> QED
      BY <1>1, <3>1, <3>2
  <2> QED
    BY <1>1, <1>3, <1>4, <1>6, <1>8, <2>1, NotNull DEF Red
<1>17. ~Red(v, v.child[far][p])
  BY <1>1, <1>2, <1>14, <1>16 DEF Calm
<1>18. v.child[Other(d)][p] # NULL
  BY <1>1, <1>10, <1>13, Sibling
<1>19. f[elm] = sub[elm]
  <2>1. elm # p /\ elm # c /\ elm \in NodeOrNull
    <3>1. elm # c
      BY <1>1, <1>2, <1>3
    <3>2. t.child[d][p] # p
      BY <1>1, <1>2, Around
    <3> QED
      BY <1>1, <1>4, <3>1, <3>2 DEF NodeOrNull
  <2> QED
    BY <2>1 DEF f, Turned
<1>20. Deficit(v, S, f, p, d, elm, g)
  BY <1>1, <1>10, <1>13, <1>14, <1>15, <1>16, <1>18 DEF Deficit
<1> QED
  BY <1>17, <1>19, <1>20

\* The sibling c below p is black, and its children are.
BlackSibling(t, p, d, c) ==
  c = t.child[Other(d)][p] /\ ~Red(t, c) /\ \A i \in Sides : ~Red(t, t.child[i][c])

\* The black sibling c has no red child: it is painted red, and p is one short.
LEMMA DeficitUp ==
  ASSUME NEW t, NEW S, NEW sub, NEW p, NEW d, NEW elm, NEW h, Deficit(t, S, sub, p, d, elm, h),
         NEW c, BlackSibling(t, p, d, c), NEW v, v = Paint(t, c, "red")
  PROVE  /\ Removing(v, S, sub, t.parent[p], p)
         /\ p \in S /\ sub[elm] \subseteq sub[p] /\ p \in sub[p] /\ p \notin sub[elm]
<1> DEFINE far == Other(d)
           q == t.parent[p]
<1>0. c = t.child[far][p] /\ ~Red(t, c)
  BY DEF BlackSibling
<1>1. d \in Sides /\ p \in S /\ Shape(t, S, sub) /\ t.child[d][p] = elm /\ ~Red(t, elm)
      /\ Balanced(t, S, h, p, d) /\ Calm(t, S, {}, {}) /\ c # NULL
  BY <1>0 DEF Deficit
<1>2. far \in Sides /\ far # d /\ c = t.child[far][p]
  BY <1>0, <1>1, SideFacts
<1>3. c \in S /\ c \in Node /\ c \in NodeOrNull /\ t \in RbMemory
  <2>1. c \in S /\ c \in Node
    BY <1>1, <1>2, Apart
  <2>2. t \in RbMemory
    BY <1>1, ShapeIs
  <2> QED
    BY <2>1, <2>2 DEF NodeOrNull
<1>4. t.color[c] = "black"
  BY <1>0, <1>1, <1>3, RbReads DEF Red
<1>5. Painted(t, c, "red", v)
  BY <1>3, RbPaint
<1>6. SameFields(t, v)
  BY <1>5, PaintSame
<1>7. Shape(v, S, sub)
  BY <1>1, <1>6, ShapeSame
<1>8. \E e : e \in Sides /\ At(t, S, q, e, p)
  <2>1. CASE p = t.root
    <3>1. q = NULL
      BY <1>1, <2>1, Place
    <3> QED
      BY <1>1, <2>1, <3>1 DEF At
  <2>2. CASE p # t.root
    <3>1. q \in S /\ \E i \in Sides : t.child[i][q] = p
      BY <1>1, <2>2, Place
    <3> QED
      BY <3>1 DEF At
  <2> QED
    BY <2>1, <2>2
<1>9. PICK e : e \in Sides /\ At(t, S, q, e, p)
  BY <1>8
<1> HIDE DEF q
<1>10. Balanced(v, S, Lowered(h, p, c), q, e)
  BY <1>0, <1>1, <1>4, <1>5, <1>9, HoleUpBalance
<1>11. Calm(v, S, {p}, {p})
  <2>1. \A i \in Sides : ~Red(t, t.child[i][c])
    BY DEF BlackSibling
  <2> QED
    BY <1>0, <1>1, <1>2, <1>5, <2>1, HoleUpCalm
<1>12. At(v, S, q, e, p)
  BY <1>6, <1>9 DEF At, SameFields
<1>13. Removing(v, S, sub, q, p)
  BY <1>7, <1>9, <1>10, <1>11, <1>12 DEF Removing
<1>14. sub[elm] \subseteq sub[p] /\ p \in sub[p] /\ p \notin sub[elm]
  <2> DEFINE ch == t.child
             r == t.root
  <2>1. Tree(ch, r, S, sub) /\ elm = ch[d][p] /\ sub[NULL] = {}
    BY <1>1, ShapeIs
  <2> HIDE DEF ch, r
  <2>2. p \in sub[p]
    BY <1>1, <2>1 DEF Tree
  <2>3. elm # NULL => sub[elm] \subseteq sub[p] /\ p \notin sub[elm]
    BY <1>1, <2>1, Child
  <2> QED
    BY <2>1, <2>2, <2>3
<1> QED
  BY <1>1, <1>13, <1>14 DEF q

\* The black sibling of elm has a red child on the far side.
FarRed(t, S, p, d, elm, far) ==
  \E f, g : /\ Deficit(t, S, f, p, d, elm, g) /\ ~Red(t, t.child[far][p])
            /\ Red(t, t.child[far][t.child[far][p]])

\* The child c of p on the side far is black, and its child b on the other side
\* is its only red child.
NearRed(t, p, d, far, c, b) ==
  /\ far = Other(d) /\ c = t.child[far][p] /\ ~Red(t, c) /\ ~Red(t, t.child[far][c])
  /\ b = t.child[d][c] /\ Red(t, b)

\* The turn that brings b above c.
NearTurned(t, far, c, b, v) == v = RB_ROTATE(RB_SET_BLACKRED(t, b, c), far, c)

\* The child c of p on the side far is black, and its child f there is red.
FarNephew(t, p, d, far, c, f) ==
  far = Other(d) /\ c = t.child[far][p] /\ ~Red(t, c) /\ f = t.child[far][c] /\ Red(t, f)

\* The turn that brings c above p, in the color of p.
FarTurned(t, p, d, c, f, v) ==
  v = RB_ROTATE(Paint(Paint(Paint(t, c, t.color[p]), p, "black"), f, "black"), d, p)

\* The black sibling c has a red child only on the side of elm: a turn brings
\* it above c.
LEMMA DeficitNear ==
  ASSUME NEW t, NEW S, NEW sub, NEW p, NEW d, NEW elm, NEW h, Deficit(t, S, sub, p, d, elm, h),
         NEW far, NEW c, NEW b, NearRed(t, p, d, far, c, b), NEW v, NearTurned(t, far, c, b, v)
  PROVE  FarRed(v, S, p, d, elm, far)
<1> DEFINE u == RB_SET_BLACKRED(t, b, c)
<1>1. d \in Sides /\ p \in S /\ Shape(t, S, sub) /\ ~Red(t, elm) /\ Balanced(t, S, h, p, d) /\ Calm(t, S, {}, {})
  BY DEF Deficit
<1>2. far = Other(d) /\ ~Red(t, c) /\ Red(t, b)
  BY DEF NearRed
<1>3. far \in Sides /\ far # d /\ Other(far) = d
  BY <1>1, <1>2, SideFacts
<1>4. c = t.child[far][p]
  BY DEF NearRed
<1>5. b = t.child[d][c]
  BY DEF NearRed
<1>6. t.child[d][p] = elm
  BY DEF Deficit
<1>7. c # NULL /\ b # NULL
  <2>1. t.child[Other(d)][p] # NULL
    BY DEF Deficit
  <2>2. c # NULL
    BY <1>2, <1>4, <2>1
  <2> QED
    BY <1>2, <2>2 DEF Red
<1>8. /\ p \in Node /\ c \in S /\ c \in Node /\ c # p /\ c # t.root
      /\ \A y \in S, j \in Sides : t.child[j][y] = c => y = p /\ j = far
  BY <1>1, <1>3, <1>4, <1>7, Apart
<1>9. \A j \in Sides : t.child[j][c] \in S \cup {NULL} /\ t.child[j][c] # p /\ t.child[j][c] # c
  BY <1>1, <1>3, <1>4, <1>7, Apart
<1>10. /\ b \in S /\ b \in Node /\ b # c /\ b # t.root
       /\ \A y \in S, j \in Sides : t.child[j][y] = b => y = c /\ j = d
  BY <1>1, <1>5, <1>7, <1>8, Apart
<1>11. b # p
  BY <1>1, <1>5, <1>9
<1>12. t \in RbMemory /\ S \subseteq Node /\ b \in NodeOrNull /\ c \in NodeOrNull
  <2>1. t \in RbMemory /\ S \subseteq Node
    BY <1>1, ShapeIs
  <2> QED
    BY <1>8, <1>10, <2>1 DEF NodeOrNull
<1>13. elm \in S \cup {NULL} /\ elm # p
  <2>1. c = t.child[Other(d)][p]
    BY <1>2, <1>4
  <2>2. t.child[d][p] # p /\ t.child[d][p] \in S \cup {NULL}
    BY <1>1, <1>7, <2>1, Around
  <2> QED
    BY <1>6, <2>2
<1>14. elm # c /\ elm # b
  <2>1. elm # c
    BY <1>1, <1>3, <1>6, <1>8
  <2>2. elm # b
    BY <1>1, <1>6, <1>8, <1>10
  <2> QED
    BY <2>1, <2>2
<1>15. BlackRed(t, b, c, u)
  BY <1>12, BlackRedIs
<1>16. v = RB_ROTATE(u, far, c)
  BY DEF NearTurned
<1> HIDE DEF u
<1>17. SameFields(t, u)
  BY <1>15 DEF BlackRed
<1>18. u.color[c] = "red" /\ u.color[b] = "black" /\ \A x \in S \ {c, b} : u.color[x] = t.color[x]
  BY <1>8, <1>10, <1>12, <1>15 DEF BlackRed
<1>19. Shape(u, S, sub)
  BY <1>1, <1>17, ShapeSame
<1>20. Turns(u, S, far, c, b, v) /\ v.color = u.color
  <2>1. b = u.child[Other(far)][c]
    BY <1>3, <1>5, <1>17 DEF SameFields
  <2>2. Turns(u, S, far, c, b, RB_ROTATE(u, far, c)) /\ RB_ROTATE(u, far, c).color = u.color
    BY <1>3, <1>7, <1>8, <1>19, <2>1, RotateTurns
  <2> QED
    BY <1>16, <2>2
<1>21. Turns(t, S, far, c, b, v)
  BY <1>17, <1>20, TurnsSame
<1>22. FarChild(t, far, c, b)
  BY <1>3, <1>5, <1>7 DEF FarChild
<1> DEFINE f == Turned(sub, c, b, Other(far))
           g == Swapped(h, c, b)
<1>23. Shape(v, S, f)
  BY <1>1, <1>3, <1>7, <1>8, <1>21, <1>22, TurnsShape DEF FarChild
<1> HIDE DEF f
<1>24. t.color[b] = "red" /\ t.color[c] = "black"
  BY <1>2, <1>7, <1>8, <1>12, RbReads DEF Red
<1>25. Swaps(t, S, c, b, v)
  BY <1>18, <1>20, <1>24 DEF Swaps
<1>26. Balanced(v, S, g, p, d)
  <2>1. p # b /\ p # c
    BY <1>8, <1>11
  <2> QED
    BY <1>1, <1>2, <1>3, <1>8, <1>21, <1>22, <1>25, <2>1, SwapBalance
<1> HIDE DEF g
<1>27. Calm(v, S, {}, {})
  <2>1. ~Red(t, t.child[far][b])
    BY <1>1, <1>2, <1>3, <1>10 DEF Calm
  <2>2. ~Red(t, t.child[far][c])
    BY DEF NearRed
  <2>3. Calm(t, S, {b}, {})
    BY <1>1 DEF Calm
  <2>4. BlackBelow(t, far, c, b)
    BY <1>24, <2>1, <2>2 DEF BlackBelow
  <2> QED
    BY <1>1, <1>3, <1>8, <1>21, <1>22, <1>25, <2>3, <2>4, SwapCalm
<1>28. v.child[far][b] = c
  BY <1>21 DEF Turns
<1>29. \A x \in S \ {c, b}, i \in Sides : v.child[i][x] = IF t.child[i][x] = c THEN b ELSE t.child[i][x]
  BY <1>21 DEF Turns
<1>30. p \in S \ {c, b}
  BY <1>1, <1>8, <1>11
<1>31. v.child[d][p] = elm
  BY <1>1, <1>6, <1>14, <1>29, <1>30
<1>32. v.child[far][p] = b
  BY <1>3, <1>4, <1>29, <1>30
<1>33. ~Red(v, elm) /\ ~Red(v, b) /\ Red(v, c)
  <2>1. v.color[c] = "red" /\ v.color[b] = "black" /\ \A x \in S \ {c, b} : v.color[x] = t.color[x]
    BY <1>18, <1>20
  <2>2. ~Red(v, b) /\ Red(v, c)
    BY <1>7, <2>1 DEF Red
  <2>3. ~Red(v, elm)
    BY <1>1, <1>13, <1>14, <2>1 DEF Red
  <2> QED
    BY <2>2, <2>3
<1>34. v.child[Other(d)][p] # NULL
  BY <1>2, <1>7, <1>32
<1>35. Deficit(v, S, f, p, d, elm, g)
  BY <1>1, <1>23, <1>26, <1>27, <1>31, <1>33, <1>34 DEF Deficit
<1> QED
  BY <1>28, <1>32, <1>33, <1>35 DEF FarRed

\* The black sibling c has a red child f on the far side: the loop ends.
LEMMA DeficitFar ==
  ASSUME NEW t, NEW S, NEW sub, NEW p, NEW d, NEW elm, NEW h, Deficit(t, S, sub, p, d, elm, h),
         NEW far, NEW c, NEW f, FarNephew(t, p, d, far, c, f), NEW v, FarTurned(t, p, d, c, f, v)
  PROVE  RbOk(Paint(v, v.root, "black"), S) /\ v \in RbMemory /\ v.root \in NodeOrNull /\ p \in NodeOrNull
<1> DEFINE k == t.color[p]
           x1 == Paint(t, c, k)
           x2 == Paint(x1, p, "black")
           u == Paint(x2, f, "black")
<1>1. d \in Sides /\ p \in S /\ Shape(t, S, sub) /\ Balanced(t, S, h, p, d) /\ Calm(t, S, {}, {})
  BY DEF Deficit
<1>2. far = Other(d) /\ ~Red(t, c) /\ Red(t, f)
  BY DEF FarNephew
<1>3. far \in Sides /\ far # d
  BY <1>1, <1>2, SideFacts
<1>4. c = t.child[far][p]
  BY DEF FarNephew
<1>5. f = t.child[far][c]
  BY DEF FarNephew
<1>6. c # NULL /\ f # NULL
  <2>1. t.child[Other(d)][p] # NULL
    BY DEF Deficit
  <2>2. c # NULL
    BY <1>2, <1>4, <2>1
  <2> QED
    BY <1>2, <2>2 DEF Red
<1>7. p \in Node /\ c \in S /\ c \in Node /\ c # p
  BY <1>1, <1>3, <1>4, <1>6, Apart
<1>8. f \in S /\ f \in Node /\ f # c
  BY <1>1, <1>3, <1>5, <1>6, <1>7, Apart
<1>9. f # p
  <2>1. c = t.child[Other(d)][p]
    BY <1>2, <1>4
  <2>2. t.child[far][c] # p
    BY <1>1, <1>3, <1>6, <2>1, Around
  <2> QED
    BY <1>5, <2>2
<1>10. t \in RbMemory /\ S \subseteq Node /\ p \in NodeOrNull /\ c \in NodeOrNull /\ f \in NodeOrNull
  <2>1. t \in RbMemory /\ S \subseteq Node
    BY <1>1, ShapeIs
  <2> QED
    BY <1>7, <1>8, <2>1 DEF NodeOrNull
<1>11. k \in {"red", "black"}
  BY <1>7, <1>10, RbReads
<1>12. v = RB_ROTATE(u, d, p)
  BY DEF FarTurned
<1> HIDE DEF k
<1>13. Painted(t, c, k, x1)
  BY <1>10, <1>11, RbPaint
<1>14. x1 \in RbMemory
  BY <1>13 DEF Painted
<1> HIDE DEF x1
<1>15. Painted(x1, p, "black", x2)
  BY <1>10, <1>14, RbPaint
<1>16. x2 \in RbMemory
  BY <1>15 DEF Painted
<1> HIDE DEF x2
<1>17. Painted(x2, f, "black", u)
  BY <1>10, <1>16, RbPaint
<1> HIDE DEF u
<1>18. SameFields(t, u)
  BY <1>13, <1>15, <1>17 DEF Painted, SameFields
<1>19. u.color[c] = k /\ u.color[p] = "black" /\ u.color[f] = "black"
       /\ \A x \in S \ {p, c, f} : u.color[x] = t.color[x]
  <2>1. \A x \in Node : x1.color[x] = IF x = c THEN k ELSE t.color[x]
    BY <1>13 DEF Painted
  <2>2. \A x \in Node : x2.color[x] = IF x = p THEN "black" ELSE x1.color[x]
    BY <1>15 DEF Painted
  <2>3. \A x \in Node : u.color[x] = IF x = f THEN "black" ELSE x2.color[x]
    BY <1>17 DEF Painted
  <2> QED
    BY <1>7, <1>8, <1>9, <1>10, <2>1, <2>2, <2>3
<1>20. Shape(u, S, sub)
  BY <1>1, <1>18, ShapeSame
<1>21. c = u.child[Other(d)][p]
  BY <1>2, <1>4, <1>18 DEF SameFields
<1>22. Turns(u, S, d, p, c, v) /\ v.color = u.color
  <2>1. Turns(u, S, d, p, c, RB_ROTATE(u, d, p)) /\ RB_ROTATE(u, d, p).color = u.color
    BY <1>1, <1>6, <1>20, <1>21, RotateTurns
  <2> QED
    BY <1>12, <2>1
<1>23. Turns(t, S, d, p, c, v)
  BY <1>18, <1>22, TurnsSame
<1>24. c = t.child[Other(d)][p]
  BY <1>2, <1>4
<1>28. t.color[c] = "black"
  BY <1>2, <1>6, <1>7, <1>10, RbReads DEF Red
<1>25. BlackRedPair(t, d, p, c, f)
  <2>1. f = t.child[Other(d)][c]
    BY <1>2, <1>5
  <2> QED
    BY <1>2, <1>6, <1>24, <1>28, <2>1 DEF BlackRedPair, FarChild
<1>26. Shape(v, S, Turned(sub, p, c, Other(d)))
  BY <1>1, <1>6, <1>23, <1>24, TurnsShape
<1>27. Fills(t, S, p, c, f, v)
  BY <1>19, <1>22 DEF Fills, k
<1> DEFINE none == NULL
           g == Filled(h, p, c, f)
           top == v.root
           sub1 == Turned(sub, p, c, Other(d))
<1>29. Balanced(v, S, g, none, d)
  BY <1>1, <1>23, <1>25, <1>27, FillBalance
<1> HIDE DEF g
<1>30. Calm(v, S, {}, {})
  BY <1>1, <1>23, <1>25, <1>27, FillCalm
<1>31. At(v, S, none, d, top)
  BY DEF At
<1>32. v \in RbMemory /\ v.root \in NodeOrNull
  BY <1>23, RbReads DEF Turns
<1>33. Shape(v, S, sub1) /\ top = v.root
  BY <1>26
<1> HIDE DEF top, none, sub1
<1>34. Calm(v, S, {top}, {top})
  BY <1>30 DEF Calm
<1>35. RbOk(Paint(v, top, "black"), S)
  BY <1>1, <1>29, <1>31, <1>33, <1>34, BlackEnd
<1> QED
  BY <1>10, <1>32, <1>35 DEF top

\* RB_REMOVE_COLOR has only to paint elm.
RemoveDone(t, S, elm) ==
  (Red(t, elm) \/ elm = t.root) /\ RbOk(Paint(t, elm, "black"), S)

\* Fewer elements are outside the subtree at elm than outside the one at low.
RemoveAbove(t, S, f, p, elm, sub, low) ==
  /\ Removing(t, S, f, p, elm) /\ elm \in S
  /\ Outside(S, f, elm) \in Nat /\ Outside(S, sub, low) \in Nat /\ Outside(S, f, elm) < Outside(S, sub, low)

\* The child of p on the other side is black, and one of its children is red.
RedNephew(t, p, d) ==
  /\ ~Red(t, t.child[Other(d)][p])
  /\ \E i \in Sides : Red(t, t.child[i][t.child[Other(d)][p]])

\* A turn of the loop of RB_REMOVE_COLOR.
RemoveMove(t, p, elm, r) == ~(Red(t, elm) \/ elm = t.root) /\ r = RemoveTurn(t, p, elm)

\* A black sibling with a red child makes up for what is lacking.
LEMMA RemoveLastIs ==
  ASSUME NEW t, NEW S, NEW sub, NEW p, NEW d, NEW elm, NEW h, Deficit(t, S, sub, p, d, elm, h),
         RedNephew(t, p, d), NEW v, v = RemoveLast(t, p, d)
  PROVE  RbOk(Paint(v, v.root, "black"), S) /\ v \in RbMemory /\ v.root \in NodeOrNull /\ p \in NodeOrNull
<1> DEFINE far == Other(d)
           c == t.child[far][p]
           b == t.child[d][c]
           u == IF Red(t, t.child[far][c]) THEN t ELSE RB_ROTATE(RB_SET_BLACKRED(t, b, c), far, c)
           e == u.child[far][p]
           f == u.child[far][e]
           w == Paint(Paint(Paint(u, e, u.color[p]), p, "black"), f, "black")
<1>1. v = RB_ROTATE(w, d, p)
  <2>1. RemoveLast(t, p, d) = RB_ROTATE(w, d, p)
    BY Zenon DEF RemoveLast, RB_SET_BLACKRED
  <2> HIDE DEF w
  <2> QED
    BY <2>1, Zenon
<1>0. ~Red(t, c) /\ \E i \in Sides : Red(t, t.child[i][c])
  BY Zenon DEF RedNephew
<1>2. \E g, k : Deficit(u, S, g, p, d, elm, k) /\ ~Red(u, e) /\ Red(u, f)
  <2>1. CASE Red(t, t.child[far][c])
    <3>1. u = t /\ e = c
      BY <1>0, <2>1
    <3> QED
      BY <1>0, <2>1, <3>1
  <2>2. CASE ~Red(t, t.child[far][c])
    <3>1. u = RB_ROTATE(RB_SET_BLACKRED(t, b, c), far, c)
      BY <2>2
    <3>2. Red(t, b)
      <4>1. d \in Sides
        BY DEF Deficit
      <4> QED
        BY <1>0, <2>2, <4>1, SideFacts
    <3>3. far = Other(d) /\ b = t.child[d][c] /\ c = t.child[far][p]
      BY <1>0
    <3> HIDE DEF u, far, b, c
    <3>5. NearRed(t, p, d, far, c, b)
      BY <1>0, <2>2, <3>2, <3>3 DEF NearRed
    <3>6. NearTurned(t, far, c, b, u)
      BY <3>1 DEF NearTurned
    <3>4. FarRed(u, S, p, d, elm, far)
      BY <3>5, <3>6, DeficitNear
    <3> QED
      BY <3>4 DEF FarRed
  <2> HIDE DEF u, e, f
  <2> QED
    BY <2>1, <2>2, Zenon
<1> HIDE DEF u
<1>3. PICK g, k : Deficit(u, S, g, p, d, elm, k) /\ ~Red(u, e) /\ Red(u, f)
  BY <1>2
<1>4. v = RB_ROTATE(Paint(Paint(Paint(u, e, u.color[p]), p, "black"), f, "black"), d, p)
  BY <1>1
<1>5. far = Other(d) /\ e = u.child[far][p] /\ f = u.child[far][e]
  OBVIOUS
<1> HIDE DEF far, e, f, w, c, b
<1>6. FarNephew(u, p, d, far, e, f)
  BY <1>3, <1>5 DEF FarNephew
<1>7. FarTurned(u, p, d, e, f, v)
  BY <1>4 DEF FarTurned
<1> QED
  BY <1>3, <1>6, <1>7, DeficitFar

\* A turn of the loop of RB_REMOVE_COLOR goes up the tree, or it is the last.
LEMMA RemoveStep ==
  ASSUME NEW t, NEW S, NEW sub, NEW p, NEW elm, Removing(t, S, sub, p, elm),
         NEW r, RemoveMove(t, p, elm, r)
  PROVE  \/ /\ RemoveDone(r.tree, S, r.elm)
            /\ r.tree \in RbMemory /\ r.elm \in NodeOrNull /\ r.parent \in NodeOrNull
         \/ \E f : RemoveAbove(r.tree, S, f, r.parent, r.elm, sub, elm)
<1> DEFINE d == IF t.child["left"][p] = elm THEN "left" ELSE "right"
           far == Other(d)
           s == IF ~Red(t, t.child[far][p]) THEN t
                ELSE RB_ROTATE(RB_SET_BLACKRED(t, t.child[far][p], p), d, p)
           c == s.child[far][p]
           last == RemoveLast(s, p, d)
           calm == \A i \in Sides : ~Red(s, s.child[i][c])
<1>1. r = IF calm THEN [tree |-> Paint(s, c, "red"), parent |-> s.parent[p], elm |-> p]
          ELSE [tree |-> last, parent |-> p, elm |-> last.root]
  <2>1. RemoveTurn(t, p, elm) =
          CASE Red(t, elm) \/ elm = t.root -> [tree |-> t, parent |-> p, elm |-> elm]
            [] ~(Red(t, elm) \/ elm = t.root) /\ calm ->
                 [tree |-> Paint(s, c, "red"), parent |-> s.parent[p], elm |-> p]
            [] OTHER -> [tree |-> last, parent |-> p, elm |-> last.root]
    BY DEF RemoveTurn
  <2> HIDE DEF s, c, last, calm
  <2>2. ~(Red(t, elm) \/ elm = t.root) /\ r = RemoveTurn(t, p, elm)
    BY Zenon DEF RemoveMove
  <2> QED
    BY <2>1, <2>2
<1>2. PICK h : Deficit(t, S, sub, p, d, elm, h)
  <2> HIDE DEF d
  <2>1. d = IF t.child["left"][p] = elm THEN "left" ELSE "right"
    BY DEF d
  <2>2. ~Red(t, elm) /\ elm # t.root
    BY Zenon DEF RemoveMove
  <2> QED
    BY <2>1, <2>2, RemovePlace
<1>3. \E f, g : Deficit(s, S, f, p, d, elm, g) /\ f[elm] = sub[elm] /\ ~Red(s, c)
  <2>1. CASE ~Red(t, t.child[far][p])
    <3>1. s = t
      BY <2>1
    <3> QED
      BY <1>2, <2>1, <3>1
  <2>2. CASE Red(t, t.child[far][p])
    <3> DEFINE x == t.child[far][p]
    <3>1. s = RB_ROTATE(RB_SET_BLACKRED(t, x, p), d, p) /\ x = t.child[Other(d)][p] /\ Red(t, x)
      BY <2>2
    <3> HIDE DEF s, x, d
    <3>3. SiblingTurned(t, p, d, x, s)
      BY <3>1 DEF SiblingTurned
    <3>2. \E f, g : /\ Deficit(s, S, f, p, d, elm, g) /\ f[elm] = sub[elm]
                    /\ ~Red(s, s.child[Other(d)][p])
      BY <1>2, <3>3, SiblingTurn
    <3> QED
      BY <3>2
  <2> QED
    BY <2>1, <2>2
<1> HIDE DEF s, d
<1>4. PICK f, g : Deficit(s, S, f, p, d, elm, g) /\ f[elm] = sub[elm] /\ ~Red(s, c)
  BY <1>3
<1>5. c = s.child[Other(d)][p]
  OBVIOUS
<1>6. CASE calm
  <2> DEFINE v == Paint(s, c, "red")
             q == s.parent[p]
  <2>1. r.tree = v /\ r.parent = q /\ r.elm = p
    BY <1>1, <1>6
  <2>2. \A i \in Sides : ~Red(s, s.child[i][c])
    BY <1>6
  <2> HIDE DEF c, calm
  <2>3. Removing(v, S, f, q, p) /\ p \in S /\ f[elm] \subseteq f[p] /\ p \in f[p] /\ p \notin f[elm]
    <3>1. BlackSibling(s, p, d, c)
      BY <1>4, <1>5, <2>2 DEF BlackSibling
    <3> QED
      BY <1>4, <3>1, DeficitUp
  <2>4. S \in SUBSET Node
    BY <1>4, ShapeIs DEF Deficit
  <2>5. Outside(S, f, elm) \in Nat /\ Outside(S, f, p) \in Nat /\ Outside(S, f, p) < Outside(S, f, elm)
    BY <2>3, <2>4, OutsideIs
  <2>6. Outside(S, f, elm) = Outside(S, sub, elm)
    BY <1>4 DEF Outside
  <2>7. RemoveAbove(v, S, f, q, p, sub, elm)
    BY <2>3, <2>5, <2>6 DEF RemoveAbove
  <2> QED
    BY <2>1, <2>7
<1>7. CASE ~calm
  <2>1. r.tree = last /\ r.parent = p /\ r.elm = last.root
    BY <1>1, <1>7
  <2>2. \E i \in Sides : Red(s, s.child[i][c])
    BY <1>7
  <2>3. last = RemoveLast(s, p, d)
    OBVIOUS
  <2> HIDE DEF c, calm, last
  <2>4. RbOk(Paint(last, last.root, "black"), S) /\ last \in RbMemory /\ last.root \in NodeOrNull /\ p \in NodeOrNull
    <3>1. RedNephew(s, p, d)
      BY <1>4, <1>5, <2>2 DEF RedNephew
    <3> QED
      BY <1>4, <2>3, <3>1, RemoveLastIs
  <2> QED
    BY <2>1, <2>4 DEF RemoveDone
<1> QED
  BY <1>6, <1>7

\* A turn from the state [tree |-> t, parent |-> p, elm |-> elm] is again such a state.
LEMMA RemoveRecord ==
  ASSUME NEW t, NEW p, NEW elm
  PROVE  /\ \E v, q, e : RemoveTurn(t, p, elm) = [tree |-> v, parent |-> q, elm |-> e]
         /\ Red(t, elm) \/ elm = t.root => RemoveTurn(t, p, elm) = [tree |-> t, parent |-> p, elm |-> elm]
<1> DEFINE d == IF t.child["left"][p] = elm THEN "left" ELSE "right"
           far == Other(d)
           s == IF ~Red(t, t.child[far][p]) THEN t
                ELSE RB_ROTATE(RB_SET_BLACKRED(t, t.child[far][p], p), d, p)
           c == s.child[far][p]
           last == RemoveLast(s, p, d)
           calm == \A i \in Sides : ~Red(s, s.child[i][c])
           over == Red(t, elm) \/ elm = t.root
           painted == Paint(s, c, "red")
           above == s.parent[p]
<1>1. RemoveTurn(t, p, elm) =
        CASE over -> [tree |-> t, parent |-> p, elm |-> elm]
          [] ~over /\ calm -> [tree |-> painted, parent |-> above, elm |-> p]
          [] OTHER -> [tree |-> last, parent |-> p, elm |-> last.root]
  BY DEF RemoveTurn
<1> HIDE DEF s, c, last, calm, painted, above
<1>2. CASE over
  <2>1. RemoveTurn(t, p, elm) = [tree |-> t, parent |-> p, elm |-> elm]
    BY <1>1, <1>2
  <2> QED
    BY <2>1
<1>3. CASE ~over /\ calm
  <2>1. RemoveTurn(t, p, elm) = [tree |-> painted, parent |-> above, elm |-> p]
    BY <1>1, <1>3
  <2> QED
    BY <1>3, <2>1
<1>4. CASE ~over /\ ~calm
  <2>1. RemoveTurn(t, p, elm) = [tree |-> last, parent |-> p, elm |-> last.root]
    BY <1>1, <1>4
  <2> QED
    BY <1>4, <2>1
<1> QED
  BY <1>2, <1>3, <1>4

\* The loop of RB_REMOVE_COLOR may end where elm is red or the root.
LEMMA RemovingFacts ==
  ASSUME NEW t, NEW S, NEW sub, NEW p, NEW elm, Removing(t, S, sub, p, elm)
  PROVE  /\ t \in RbMemory /\ S \in SUBSET Node /\ p \in NodeOrNull /\ elm \in NodeOrNull
         /\ Red(t, elm) \/ elm = t.root => RemoveDone(t, S, elm)
<1>1. Shape(t, S, sub) /\ Calm(t, S, {elm}, {elm})
  BY DEF Removing
<1>2. PICK h, d : d \in Sides /\ At(t, S, p, d, elm) /\ Balanced(t, S, h, p, d)
  BY DEF Removing
<1>3. /\ t \in RbMemory /\ S \subseteq Node /\ t.root \in S \cup {NULL}
      /\ \A n \in S, i \in Sides : t.child[i][n] \in S \cup {NULL}
  BY <1>1, ShapeIs
<1>4. p \in NodeOrNull /\ elm \in NodeOrNull
  BY <1>2, <1>3 DEF At, NodeOrNull
<1>5. ASSUME Red(t, elm) \/ elm = t.root PROVE RbOk(Paint(t, elm, "black"), S)
  BY <1>1, <1>2, <1>5, BlackEnd
<1> QED
  BY <1>3, <1>4, <1>5 DEF RemoveDone

\* The loop of RB_REMOVE_COLOR ends when it has come to the root.
LEMMA RemovingOver ==
  ASSUME NEW t, NEW S, NEW sub, NEW p, NEW elm, Removing(t, S, sub, p, elm), Outside(S, sub, elm) <= 0
  PROVE  Red(t, elm) \/ elm = t.root
<1> SUFFICES ASSUME ~(Red(t, elm) \/ elm = t.root) PROVE FALSE
  OBVIOUS
<1> DEFINE d == IF t.child["left"][p] = elm THEN "left" ELSE "right"
           ch == t.child
           root == t.root
           X == S \ sub[elm]
<1>1. d = IF t.child["left"][p] = elm THEN "left" ELSE "right"
  OBVIOUS
<1> HIDE DEF d
<1>2. PICK h : Deficit(t, S, sub, p, d, elm, h)
  BY <1>1, RemovePlace
<1>3. d \in Sides /\ p \in S /\ Shape(t, S, sub) /\ elm = ch[d][p]
  BY <1>2 DEF Deficit
<1>4. Tree(ch, root, S, sub) /\ sub[NULL] = {} /\ S \in SUBSET Node
  BY <1>3, ShapeIs
<1> HIDE DEF ch, root
<1>5. elm # NULL => p \notin sub[elm]
  BY <1>3, <1>4, Child
<1>6. p \in X /\ X \in SUBSET Node
  BY <1>3, <1>4, <1>5
<1>7. Cardinality(X) <= 0
  BY DEF Outside
<1> HIDE DEF X
<1>8. Cardinality({}) < Cardinality(X) /\ Cardinality(X) \in Nat
  BY <1>6, Fewer, Finite
<1> QED
  BY <1>7, <1>8, FS_EmptySet

\* RB_REMOVE_COLOR leaves a red-black tree.
LEMMA RemoveColorIs ==
  ASSUME NEW t, NEW S, NEW sub, NEW p, NEW elm, Removing(t, S, sub, p, elm)
  PROVE  RbOk(RB_REMOVE_COLOR(t, p, elm), S)
<1> DEFINE V == [tree : RbMemory, parent : NodeOrNull, elm : NodeOrNull]
           turn == [s \in V |-> RemoveTurn(s.tree, s.parent, s.elm)]
           begin == [tree |-> t, parent |-> p, elm |-> elm]
           last == Loop(turn, begin)
           R == {s \in V : RemoveDone(s.tree, S, s.elm)}
           Going(s, k) == \E f : Removing(s.tree, S, f, s.parent, s.elm) /\ Outside(S, f, s.elm) <= k
           G == [k \in Nat |-> {s \in V : Going(s, k)}]
<1>3. RB_REMOVE_COLOR(t, p, elm) = Paint(last.tree, last.elm, "black")
  BY DEF RB_REMOVE_COLOR
<1>4. \A s \in V : /\ turn[s] = RemoveTurn(s.tree, s.parent, s.elm)
                   /\ \E v, q, e : turn[s] = [tree |-> v, parent |-> q, elm |-> e]
                   /\ Red(s.tree, s.elm) \/ s.elm = s.tree.root => turn[s] = s
  <2> SUFFICES ASSUME NEW s \in V
               PROVE  /\ turn[s] = RemoveTurn(s.tree, s.parent, s.elm)
                      /\ \E v, q, e : turn[s] = [tree |-> v, parent |-> q, elm |-> e]
                      /\ Red(s.tree, s.elm) \/ s.elm = s.tree.root => turn[s] = s
    OBVIOUS
  <2>1. s = [tree |-> s.tree, parent |-> s.parent, elm |-> s.elm]
    OBVIOUS
  <2>2. turn[s] = RemoveTurn(s.tree, s.parent, s.elm)
    OBVIOUS
  <2> HIDE DEF turn
  <2> QED
    BY <2>1, <2>2, RemoveRecord
<1> HIDE DEF turn
<1>5. \A s \in R : turn[s] \in R
  <2> SUFFICES ASSUME NEW s \in R PROVE turn[s] \in R
    OBVIOUS
  <2>1. s \in V /\ RemoveDone(s.tree, S, s.elm)
    OBVIOUS
  <2>2. turn[s] = s
    BY <1>4, <2>1 DEF RemoveDone
  <2> QED
    BY <2>2
<1>6. ASSUME NEW k \in Nat, NEW s \in G[k]
      PROVE  s \in R \/ turn[s] \in R \/ \E j \in Nat : j < k /\ turn[s] \in G[j]
  <2>1. s \in V /\ Going(s, k)
    OBVIOUS
  <2>2. PICK f : Removing(s.tree, S, f, s.parent, s.elm) /\ Outside(S, f, s.elm) <= k
    BY <2>1
  <2> DEFINE u == s.tree
             q == s.parent
             e == s.elm
             r == turn[s]
             o == Outside(S, f, e)
  <2>3. CASE Red(u, e) \/ e = u.root
    <3>1. RemoveDone(u, S, e)
      BY <2>2, <2>3, RemovingFacts
    <3> QED
      BY <2>1, <3>1
  <2>4. CASE ~(Red(u, e) \/ e = u.root)
    <3>1. r = RemoveTurn(u, q, e) /\ \E v, y, x : r = [tree |-> v, parent |-> y, elm |-> x]
      BY <1>4, <2>1
    <3>2. Removing(u, S, f, q, e) /\ o <= k
      BY <2>2
    <3> HIDE DEF r, u, e, q
    <3>3. \/ /\ RemoveDone(r.tree, S, r.elm)
             /\ r.tree \in RbMemory /\ r.elm \in NodeOrNull /\ r.parent \in NodeOrNull
          \/ \E g : RemoveAbove(r.tree, S, g, r.parent, r.elm, f, e)
      <4>1. RemoveMove(u, q, e, r)
        BY <2>4, <3>1 DEF RemoveMove
      <4> QED
        BY <3>2, <4>1, RemoveStep
    <3>4. r = [tree |-> r.tree, parent |-> r.parent, elm |-> r.elm]
      BY <3>1
    <3>5. CASE /\ RemoveDone(r.tree, S, r.elm)
               /\ r.tree \in RbMemory /\ r.elm \in NodeOrNull /\ r.parent \in NodeOrNull
      <4>1. r \in V
        BY <3>4, <3>5
      <4> QED
        BY <3>5, <4>1 DEF r
    <3>6. CASE \E g : RemoveAbove(r.tree, S, g, r.parent, r.elm, f, e)
      <4>1. PICK g : RemoveAbove(r.tree, S, g, r.parent, r.elm, f, e)
        BY <3>6
      <4> DEFINE a == r.elm
                 j == Outside(S, g, a)
      <4>2. Removing(r.tree, S, g, r.parent, a) /\ j \in Nat /\ o \in Nat /\ j < o
        BY <4>1 DEF RemoveAbove
      <4>3. r.tree \in RbMemory /\ r.elm \in NodeOrNull /\ r.parent \in NodeOrNull
        BY <4>2, RemovingFacts
      <4>4. r \in V
        BY <3>4, <4>3
      <4> HIDE DEF j, o
      <4>5. j < k /\ j <= j
        BY <3>2, <4>2
      <4>6. Going(r, j)
        BY <4>2, <4>5 DEF j
      <4>7. r \in G[j]
        BY <4>2, <4>4, <4>6
      <4> QED
        BY <4>2, <4>5, <4>7 DEF r
    <3> QED
      BY <3>3, <3>5, <3>6
  <2> QED
    BY <2>3, <2>4
<1>7. \A s \in G[0] : s \in R
  <2> SUFFICES ASSUME NEW s \in G[0] PROVE s \in R
    OBVIOUS
  <2>1. s \in V /\ Going(s, 0)
    OBVIOUS
  <2>2. PICK f : Removing(s.tree, S, f, s.parent, s.elm) /\ Outside(S, f, s.elm) <= 0
    BY <2>1
  <2>3. RemoveDone(s.tree, S, s.elm)
    BY <2>2, RemovingOver, RemovingFacts
  <2> QED
    BY <2>1, <2>3
<1> DEFINE n == Outside(S, sub, elm)
<1>8. t \in RbMemory /\ p \in NodeOrNull /\ elm \in NodeOrNull /\ S \in SUBSET Node
  BY RemovingFacts
<1>9. n \in Nat /\ n <= Cardinality(Node)
  BY <1>8, OutsideNat
<1>10. begin \in G[n]
  <2>1. begin \in V /\ begin.tree = t /\ begin.parent = p /\ begin.elm = elm
    BY <1>8
  <2>2. Going(begin, n)
    <3>1. Outside(S, sub, elm) <= n
      BY <1>9
    <3> QED
      BY <2>1, <3>1
  <2> QED
    BY <1>9, <2>1, <2>2
<1> HIDE DEF G, R, n, begin, last
<1>11. last \in R
  <2>1. Loop(turn, begin) \in R
    BY <1>5, <1>6, <1>7, <1>9, <1>10, LoopEnds
  <2> QED
    BY <2>1 DEF last
<1>12. RemoveDone(last.tree, S, last.elm)
  BY <1>11 DEF R
<1> QED
  BY <1>3, <1>12 DEF RemoveDone

-----------------------------------------------------------------------------
(* Removal: the two parts of RB_REMOVE                                     *)

\* In v the only child c of n, if it has one, has taken the place of n.
CutOut(t, S, n, c, v) ==
  /\ v \in RbMemory /\ v.color = t.color /\ v.root = IF t.root = n THEN c ELSE t.root
  /\ \A x \in S, i \in Sides : v.child[i][x] = IF t.child[i][x] = n THEN c ELSE t.child[i][x]
  /\ \A x \in S : v.parent[x] = IF x = c THEN t.parent[n] ELSE t.parent[x]

\* What the first part of RB_REMOVE changes.
LEMMA CutIs ==
  ASSUME NEW t, NEW S, NEW sub, Shape(t, S, sub), NEW n \in S, NEW side \in Sides, t.child[side][n] = NULL,
         NEW c, c = t.child[Other(side)][n]
  PROVE  CutOut(t, S, n, c, Unlink(t, n))
<1> DEFINE e == IF t.child["left"][n] = NULL THEN t.child["right"][n] ELSE t.child["left"][n]
           p == t.parent[n]
           w == SetParent(t, c, p)
           v == Replace(w, p, n, c)
<1>1. e = c
  <2>1. side = "left" \/ side = "right"
    BY DEF Sides
  <2> QED
    BY <2>1 DEF Other
<1>2. Unlink(t, n) = v
  BY <1>1 DEF Unlink
<1>3. t \in RbMemory /\ S \subseteq Node /\ n \in Node /\ c \in NodeOrNull /\ p \in NodeOrNull
  <2>1. t \in RbMemory /\ S \subseteq Node
    BY ShapeIs
  <2> QED
    BY <2>1, RbReads, SideFacts
<1>4. ParentSet(t, c, p, w)
  BY <1>3, RbParent
<1> HIDE DEF w
<1>5. p = t.parent[n] /\ w \in RbMemory /\ w.child = t.child /\ w.root = t.root /\ w.color = t.color
      /\ \A x \in Node : w.parent[x] = IF x = c THEN p ELSE t.parent[x]
  BY <1>4 DEF ParentSet
<1> HIDE DEF p
<1>6. Relinks(w, t, S, n, c, v)
  BY <1>3, <1>5, ReplaceIs
<1> HIDE DEF v
<1>7. CutOut(t, S, n, c, v)
  BY <1>3, <1>5, <1>6 DEF CutOut, Relinks
<1> QED
  BY <1>2, <1>7

\* A tree from which an element with one child at most is cut out is a tree.
LEMMA CutShape ==
  ASSUME NEW t, NEW S, NEW sub, Shape(t, S, sub), NEW n \in S, NEW side \in Sides, t.child[side][n] = NULL,
         NEW c, c = t.child[Other(side)][n], NEW v, CutOut(t, S, n, c, v)
  PROVE  Shape(v, S \ {n}, Without(sub, n))
<1> DEFINE ch == t.child
           r == t.root
           new == v.child
           par == t.parent
           T == S \ {n}
<1>1. /\ Tree(ch, r, S, sub) /\ (r # NULL => par[r] = NULL)
      /\ \A x \in S, i \in Sides : ch[i][x] # NULL => par[ch[i][x]] = x
  BY DEF Shape
<1>2. /\ v \in RbMemory /\ v.root = IF r = n THEN c ELSE r
      /\ \A x \in S, i \in Sides : new[i][x] = IF ch[i][x] = n THEN c ELSE ch[i][x]
      /\ \A x \in S : v.parent[x] = IF x = c THEN par[n] ELSE par[x]
  BY DEF CutOut
<1>3. ch[side][n] = NULL /\ c = ch[Other(side)][n] /\ Other(side) \in Sides
  BY SideFacts
<1> HIDE DEF ch, r, new, par
<1> DEFINE top == v.root
<1> HIDE DEF T
<1>4. Splices(ch, r, S, n, side, c, new, top)
  BY <1>2, <1>3 DEF Splices
<1> HIDE DEF top
<1>5. Tree(new, v.root, T, Without(sub, n))
  <2>1. Tree(new, top, S \ {n}, Without(sub, n))
    BY <1>1, <1>4, Spliced
  <2> QED
    BY <2>1 DEF top, T
<1> USE DEF T
<1>6. n # NULL /\ n \in Node /\ r \in S \cup {NULL} /\ \A x \in S, i \in Sides : ch[i][x] \in S \cup {NULL}
  BY <1>1, NotNull DEF Tree
<1>7. c \in S \cup {NULL} /\ (c # NULL => c # r /\ \A x \in S, i \in Sides : ch[i][x] = c => x = n)
  <2>1. c # NULL => \A x \in S, i \in Sides : ch[i][x] = c => x = n
    BY <1>1, <1>3
  <2>2. \A x \in S, i \in Sides : ch[i][x] # r
    BY <1>1, RootAbove
  <2> QED
    BY <1>3, <1>6, <2>1, <2>2
<1>8. \A x \in T, i \in Sides : new[i][x] # NULL => v.parent[new[i][x]] = x
  <2> SUFFICES ASSUME NEW x \in T, NEW i \in Sides, new[i][x] # NULL PROVE v.parent[new[i][x]] = x
    OBVIOUS
  <2>1. CASE ch[i][x] = n
    <3>1. new[i][x] = c /\ c \in S /\ v.parent[c] = par[n]
      BY <1>2, <1>7, <2>1
    <3> QED
      BY <1>1, <1>6, <2>1, <3>1
  <2>2. CASE ch[i][x] # n
    <3>1. new[i][x] = ch[i][x] /\ ch[i][x] \in S /\ ch[i][x] # c
      BY <1>2, <1>6, <1>7, <2>2
    <3> QED
      BY <1>1, <1>2, <3>1
  <2> QED
    BY <2>1, <2>2
<1>9. v.root # NULL => v.parent[v.root] = NULL
  <2> SUFFICES ASSUME v.root # NULL PROVE v.parent[v.root] = NULL
    OBVIOUS
  <2>1. CASE r = n
    <3>1. v.root = c /\ c \in S
      BY <1>2, <1>7, <2>1
    <3> QED
      BY <1>1, <1>2, <1>6, <2>1, <3>1
  <2>2. CASE r # n
    <3>1. v.root = r /\ r \in S /\ r # c
      BY <1>2, <1>6, <1>7, <2>2
    <3> QED
      BY <1>1, <1>2, <3>1
  <2> QED
    BY <2>1, <2>2
<1> QED
  BY <1>2, <1>5, <1>8, <1>9 DEF Shape, new

\* Where the tree has got shorter if n was black.
LEMMA CutBalance ==
  ASSUME NEW t, NEW S, NEW sub, Shape(t, S, sub), NEW n \in S, NEW side \in Sides, t.child[side][n] = NULL,
         NEW c, c = t.child[Other(side)][n], NEW v, CutOut(t, S, n, c, v),
         NEW h, NEW d0 \in Sides, Balanced(t, S, h, NULL, d0), NEW p, p = t.parent[n]
  PROVE  /\ t.color[n] = "red" => Balanced(v, S \ {n}, h, NULL, d0)
         /\ t.color[n] = "black" =>
              \E d : d \in Sides /\ At(v, S \ {n}, p, d, c) /\ Balanced(v, S \ {n}, h, p, d)
<1> DEFINE ch == t.child
           new == v.child
           r == t.root
           T == S \ {n}
<1>1. /\ v.color = t.color /\ v.root = IF r = n THEN c ELSE r
      /\ \A x \in S, i \in Sides : new[i][x] = IF ch[i][x] = n THEN c ELSE ch[i][x]
  BY DEF CutOut
<1>2. h \in [NodeOrNull -> Nat] /\ h[NULL] = 0
      /\ \A x \in S, i \in Sides : h[x] = h[ch[i][x]] + Lack(NULL, d0, x, i) + Weight(t, x)
  BY DEF Balanced
<1>3. S \subseteq Node /\ n # NULL /\ n \in Node /\ (\A x \in S : x # NULL) /\ Tree(ch, r, S, sub)
      /\ \A x \in S, i \in Sides : ch[i][x] \in NodeOrNull /\ ch[i][x] \in S \cup {NULL}
  <2>1. S \subseteq Node /\ Tree(ch, r, S, sub) /\ \A x \in S, i \in Sides : ch[i][x] \in S \cup {NULL}
    BY ShapeIs
  <2> QED
    BY <2>1, NotNull DEF NodeOrNull
<1>4. \A x \in S, i \in Sides : Lack(NULL, d0, x, i) = 0
  BY <1>3 DEF Lack
<1>5. \A x : Weight(v, x) = Weight(t, x) /\ Weight(t, x) \in Nat
  BY <1>1 DEF Weight
<1>6. c = ch[Other(side)][n] /\ Other(side) \in Sides
  BY SideFacts
<1>7. h[n] = h[c] + Weight(t, n) /\ h[n] \in Nat /\ h[c] \in Nat
  <2>1. h[n] = h[c] + 0 + Weight(t, n)
    BY <1>2, <1>4, <1>6
  <2>2. h[n] \in Nat /\ h[c] \in Nat
    BY <1>2, <1>3, <1>6 DEF NodeOrNull
  <2>3. \A j, k \in Nat : j + 0 + k = j + k
    OBVIOUS
  <2> QED
    BY <1>5, <2>1, <2>2, <2>3
<1>8. \A x \in S : h[x] \in Nat
  BY <1>2, <1>3 DEF NodeOrNull
<1>9. ASSUME t.color[n] = "red" PROVE Balanced(v, T, h, NULL, d0)
  <2>1. h[n] = h[c]
    <3>1. Weight(t, n) = 0
      BY <1>9 DEF Weight
    <3> QED
      BY <1>7, <3>1
  <2>2. ASSUME NEW x \in T, NEW i \in Sides PROVE h[x] = h[new[i][x]] + Lack(NULL, d0, x, i) + Weight(v, x)
    <3>1. h[new[i][x]] = h[ch[i][x]]
      BY <1>1, <2>1
    <3>2. h[x] = h[ch[i][x]] + Lack(NULL, d0, x, i) + Weight(t, x)
      BY <1>2
    <3> QED
      BY <1>5, <3>1, <3>2
  <2> QED
    BY <1>2, <2>2 DEF Balanced, new
<1>10. ASSUME t.color[n] = "black"
       PROVE  \E d : d \in Sides /\ At(v, T, p, d, c) /\ Balanced(v, T, h, p, d)
  <2>1. h[n] = h[c] + 1
    <3>1. Weight(t, n) = 1
      BY <1>10 DEF Weight
    <3> QED
      BY <1>7, <3>1
  <2>2. \E d \in Sides : /\ At(v, T, p, d, c)
                         /\ \A x \in T, i \in Sides : ch[i][x] = n <=> x = p /\ i = d
    <3>1. CASE n = r
      <4>1. p = NULL /\ \A x \in S, i \in Sides : ch[i][x] # r
        BY <3>1, Place DEF ch, r
      <4>2. At(v, T, p, d0, c)
        BY <1>1, <3>1, <4>1 DEF At
      <4>3. \A x \in T, i \in Sides : ch[i][x] = n <=> x = p /\ i = d0
        BY <1>3, <3>1, <4>1
      <4> QED
        BY <4>2, <4>3
    <3>2. CASE n # r
      <4>1. /\ p \in S /\ p # n /\ \E i \in Sides : ch[i][p] = n /\ ch[Other(i)][p] # n
            /\ \A x \in S, i \in Sides : ch[i][x] = n => x = p
        BY <3>2, Place DEF ch, r
      <4>2. PICK d \in Sides : ch[d][p] = n /\ ch[Other(d)][p] # n
        BY <4>1
      <4>3. new[d][p] = c /\ p \in T
        BY <1>1, <4>1, <4>2
      <4>4. At(v, T, p, d, c)
        BY <4>3 DEF At, new
      <4>5. \A x \in T, i \in Sides : ch[i][x] = n <=> x = p /\ i = d
        BY <4>1, <4>2, SideFacts
      <4> QED
        BY <4>4, <4>5
    <3> QED
      BY <3>1, <3>2
  <2>3. PICK d \in Sides : /\ At(v, T, p, d, c)
                           /\ \A x \in T, i \in Sides : ch[i][x] = n <=> x = p /\ i = d
    BY <2>2
  <2>4. ASSUME NEW x \in T, NEW i \in Sides PROVE h[x] = h[new[i][x]] + Lack(p, d, x, i) + Weight(v, x)
    <3>1. h[x] = h[ch[i][x]] + 0 + Weight(t, x) /\ h[x] \in Nat /\ Weight(t, x) \in Nat /\ Weight(v, x) = Weight(t, x)
      BY <1>2, <1>4, <1>5, <1>8
    <3>2. CASE ch[i][x] = n
      <4>1. new[i][x] = c /\ Lack(p, d, x, i) = 1
        BY <1>1, <2>3, <3>2 DEF Lack
      <4>2. \A j, k \in Nat : (j + 1) + 0 + k = j + 1 + k
        OBVIOUS
      <4>3. h[x] = h[c] + 1 + Weight(t, x)
        BY <1>7, <2>1, <3>1, <3>2, <4>2
      <4> QED
        BY <3>1, <4>1, <4>3
    <3>3. CASE ch[i][x] # n
      <4>1. new[i][x] = ch[i][x] /\ Lack(p, d, x, i) = 0
        BY <1>1, <2>3, <3>3 DEF Lack
      <4> QED
        BY <3>1, <4>1
    <3> QED
      BY <3>2, <3>3
  <2>5. Balanced(v, T, h, p, d)
    BY <1>2, <2>4 DEF Balanced, new
  <2> QED
    BY <2>3, <2>5
<1> QED
  BY <1>9, <1>10

\* Only the child that was moved up may be red below a red element.
LEMMA CutCalm ==
  ASSUME NEW t, NEW S, NEW sub, Shape(t, S, sub), NEW n \in S, NEW side \in Sides, t.child[side][n] = NULL,
         NEW c, c = t.child[Other(side)][n], NEW v, CutOut(t, S, n, c, v), Calm(t, S, {}, {})
  PROVE  /\ Calm(v, S \ {n}, {c}, {c})
         /\ t.color[n] = "red" => Calm(v, S \ {n}, {}, {})
<1> DEFINE ch == t.child
           new == v.child
           r == t.root
           T == S \ {n}
<1>1. /\ v.color = t.color /\ v.root = IF r = n THEN c ELSE r
      /\ \A x \in S, i \in Sides : new[i][x] = IF ch[i][x] = n THEN c ELSE ch[i][x]
  BY DEF CutOut
<1>2. \A x : Red(v, x) <=> Red(t, x)
  BY <1>1 DEF Red
<1>3. (\A x \in S, i \in Sides : ~(Red(t, x) /\ Red(t, ch[i][x]))) /\ ~Red(t, r)
  BY DEF Calm
<1>4. n # NULL
  BY ShapeIs, NotNull
<1> HIDE DEF ch, new, r
<1>5. ASSUME NEW x \in T, NEW i \in Sides, Red(v, x), Red(v, new[i][x])
      PROVE  new[i][x] = c /\ t.color[n] # "red"
  <2>1. ch[i][x] = n /\ new[i][x] = c
    BY <1>1, <1>2, <1>3, <1>5
  <2>2. ~Red(t, n)
    BY <1>2, <1>3, <1>5, <2>1
  <2> QED
    BY <1>4, <2>1, <2>2 DEF Red
<1>6. ASSUME Red(v, v.root) PROVE v.root = c /\ t.color[n] # "red"
  <2>1. r = n /\ v.root = c
    BY <1>1, <1>2, <1>3, <1>6
  <2> QED
    BY <1>3, <1>4, <2>1 DEF Red
<1> QED
  BY <1>5, <1>6 DEF Calm, new

\* In v the fields of n are those of old in t.
Copied(t, old, n, v) ==
  /\ v \in RbMemory /\ v.root = t.root
  /\ v.parent[n] = t.parent[old] /\ v.color[n] = t.color[old] /\ \A i \in Sides : v.child[i][n] = t.child[i][old]
  /\ \A x \in Node \ {n} :
       v.parent[x] = t.parent[x] /\ v.color[x] = t.color[x] /\ \A i \in Sides : v.child[i][x] = t.child[i][x]

\* What the assignment of a whole RB_ENTRY changes.
LEMMA CopiedIs ==
  ASSUME NEW t \in RbMemory, NEW old \in Node, NEW n \in Node
  PROVE  Copied(t, old, n, [t EXCEPT !.parent[n] = t.parent[old], !.color[n] = t.color[old],
                              !.child = [side \in Sides |->
                                           [t.child[side] EXCEPT ![n] = t.child[side][old]]]])
<1> DEFINE p == t.parent[old]
           k == t.color[old]
           children == [side \in Sides |-> [t.child[side] EXCEPT ![n] = t.child[side][old]]]
           parents == [t.parent EXCEPT ![n] = p]
           colors == [t.color EXCEPT ![n] = k]
           v == [t EXCEPT !.parent[n] = p, !.color[n] = k, !.child = children]
<1>0. v = [t EXCEPT !.parent[n] = p, !.color[n] = k, !.child = children]
  OBVIOUS
<1> HIDE DEF v, children
<1>5. /\ v.root = t.root /\ v.parent = parents /\ v.color = colors /\ v.child = children
      /\ v = [root |-> v.root, child |-> v.child, parent |-> v.parent, color |-> v.color]
  BY <1>0 DEF RbMemory
<1> USE DEF children
<1>1. /\ t.root \in NodeOrNull /\ t.child \in [Sides -> [Node -> NodeOrNull]]
      /\ t.parent \in [Node -> NodeOrNull] /\ t.color \in [Node -> {"red", "black"}]
      /\ p \in NodeOrNull /\ k \in {"red", "black"}
      /\ \A i \in Sides : t.child[i] \in [Node -> NodeOrNull] /\ t.child[i][old] \in NodeOrNull
  BY DEF RbMemory
<1> HIDE DEF p, k
<1>2. /\ children \in [Sides -> [Node -> NodeOrNull]] /\ \A i \in Sides : children[i][n] = t.child[i][old]
      /\ \A i \in Sides, x \in Node \ {n} : children[i][x] = t.child[i][x]
  BY <1>1
<1>3. /\ parents \in [Node -> NodeOrNull] /\ parents[n] = p
      /\ \A x \in Node \ {n} : parents[x] = t.parent[x]
  BY <1>1
<1>4. /\ colors \in [Node -> {"red", "black"}] /\ colors[n] = k
      /\ \A x \in Node \ {n} : colors[x] = t.color[x]
  BY <1>1
<1> HIDE DEF children
<1> HIDE DEF children, parents, colors
<1>6. /\ v \in RbMemory /\ v.root = t.root /\ v.child = children /\ v.parent = parents /\ v.color = colors
  BY <1>1, <1>2, <1>3, <1>4, <1>5 DEF RbMemory
<1>7. Copied(t, old, n, v)
  BY <1>2, <1>3, <1>4, <1>6 DEF Copied, p, k
<1> QED
  BY <1>7 DEF v, children, p, k

\* In v the element n has taken the place and the fields of old.
TakesOver(t, S, old, n, v) ==
  /\ v \in RbMemory /\ v.root = IF t.root = old THEN n ELSE t.root
  /\ v.color[n] = t.color[old] /\ v.parent[n] = t.parent[old]
  /\ \A i \in Sides : v.child[i][n] = t.child[i][old]
  /\ \A x \in S \ {old} :
       /\ v.color[x] = t.color[x]
       /\ v.parent[x] = IF x = t.child["left"][old] \/ x = t.child["right"][old] THEN n ELSE t.parent[x]
       /\ \A i \in Sides : v.child[i][x] = IF t.child[i][x] = old THEN n ELSE t.child[i][x]

\* What the second part of RB_REMOVE changes.
LEMMA TakeOverIs ==
  ASSUME NEW t, NEW S, NEW sub, Shape(t, S, sub), NEW old \in S, NEW n \in Node, n \notin S
  PROVE  TakesOver(t, S, old, n, TakeOver(t, old, n))
<1> DEFINE p == t.parent[old]
           l == t.child["left"][old]
           r == t.child["right"][old]
           copy == [t EXCEPT !.parent[n] = p, !.color[n] = t.color[old],
                             !.child = [side \in Sides |-> [t.child[side] EXCEPT ![n] = t.child[side][old]]]]
           put == Replace(copy, p, old, n)
           half == SetParent(put, l, n)
           v == SetParent(half, r, n)
<1>1. TakeOver(t, old, n) = v
  BY DEF TakeOver
<1>2. t \in RbMemory /\ S \subseteq Node /\ old \in Node /\ n \in NodeOrNull
      /\ l \in S \cup {NULL} /\ r \in S \cup {NULL}
      /\ \A x \in S, i \in Sides : t.child[i][x] \in S \cup {NULL}
  <2>1. t \in RbMemory /\ S \subseteq Node /\ \A x \in S, i \in Sides : t.child[i][x] \in S \cup {NULL}
    BY ShapeIs
  <2> QED
    BY <2>1 DEF NodeOrNull, Sides
<1>3. l \in NodeOrNull /\ r \in NodeOrNull /\ n # l /\ n # r /\ n # old
  BY <1>2, NotNull DEF NodeOrNull
<1>4. Copied(t, old, n, copy)
  BY <1>2, CopiedIs
<1>5. p = NULL \/ p \in S
  BY Place
<1>6. p = t.parent[old]
  OBVIOUS
<1> HIDE DEF copy, p, l, r
<1>7. /\ copy \in RbMemory /\ copy.root = t.root
      /\ copy.parent[n] = p /\ copy.color[n] = t.color[old] /\ \A i \in Sides : copy.child[i][n] = t.child[i][old]
      /\ \A x \in S : /\ copy.parent[x] = t.parent[x] /\ copy.color[x] = t.color[x]
                      /\ \A i \in Sides : copy.child[i][x] = t.child[i][x]
  BY <1>2, <1>4, <1>6 DEF Copied
<1>8. p # NULL => \A i \in Sides : copy.child[i][p] = t.child[i][p]
  BY <1>5, <1>7
<1>9. Relinks(copy, t, S, old, n, put)
  BY <1>2, <1>6, <1>7, <1>8, ReplaceIs
<1> HIDE DEF put
<1>10. put \in RbMemory
  BY <1>9 DEF Relinks
<1>11. ParentSet(put, l, n, half)
  BY <1>2, <1>3, <1>10, RbParent
<1> HIDE DEF half
<1>12. half \in RbMemory
  BY <1>11 DEF ParentSet
<1>13. ParentSet(half, r, n, v)
  BY <1>2, <1>3, <1>12, RbParent
<1> HIDE DEF v
<1>14. /\ v \in RbMemory /\ v.root = put.root /\ v.child = put.child /\ v.color = put.color
       /\ \A x \in Node : v.parent[x] = IF x = l \/ x = r THEN n ELSE put.parent[x]
  BY <1>11, <1>13 DEF ParentSet
<1>15. /\ put.root = (IF t.root = old THEN n ELSE t.root) /\ put.parent = copy.parent /\ put.color = copy.color
       /\ \A i \in Sides, x \in Node :
            put.child[i][x] = IF x \in S /\ t.child[i][x] = old THEN n ELSE copy.child[i][x]
  BY <1>7, <1>9 DEF Relinks
<1>16. \A i \in Sides : v.child[i][n] = t.child[i][old]
  BY <1>7, <1>14, <1>15
<1>17. \A x \in S, i \in Sides : v.child[i][x] = IF t.child[i][x] = old THEN n ELSE t.child[i][x]
  BY <1>2, <1>7, <1>14, <1>15
<1>18. v.parent[n] = p /\ \A x \in S : v.parent[x] = IF x = l \/ x = r THEN n ELSE t.parent[x]
  BY <1>2, <1>3, <1>7, <1>14, <1>15
<1>19. TakesOver(t, S, old, n, v)
  BY <1>7, <1>14, <1>15, <1>16, <1>17, <1>18 DEF TakesOver, p, l, r
<1> QED
  BY <1>1, <1>19

\* The other elements are on the same side of n as of old.
Beside(S, old, n) ==
  n \in Node /\ n \notin S /\ \A m \in S \ {old} : Cmp(m, n) = Cmp(m, old) /\ Cmp(n, m) = Cmp(old, m)

\* The tree in which n has taken over from old is a tree.
LEMMA TakeOverShape ==
  ASSUME NEW t, NEW S, NEW sub, Shape(t, S, sub), NEW old \in S, NEW n, Beside(S, old, n),
         NEW v, TakesOver(t, S, old, n, v)
  PROVE  Shape(v, (S \ {old}) \cup {n}, Moved(sub, old, n))
<1> DEFINE ch == t.child
           r == t.root
           new == v.child
           par == t.parent
           top == v.root
           T == (S \ {old}) \cup {n}
<1>1. /\ Tree(ch, r, S, sub) /\ (r # NULL => par[r] = NULL)
      /\ \A x \in S, i \in Sides : ch[i][x] # NULL => par[ch[i][x]] = x
  BY DEF Shape
<1>2. /\ v \in RbMemory /\ top = (IF r = old THEN n ELSE r) /\ v.parent[n] = par[old]
      /\ \A i \in Sides : new[i][n] = ch[i][old]
      /\ \A x \in S \ {old} :
           /\ v.parent[x] = IF x = ch["left"][old] \/ x = ch["right"][old] THEN n ELSE par[x]
           /\ \A i \in Sides : new[i][x] = IF ch[i][x] = old THEN n ELSE ch[i][x]
  BY DEF TakesOver
<1>3. n \in Node /\ n \notin S /\ \A m \in S \ {old} : Cmp(m, n) = Cmp(m, old) /\ Cmp(n, m) = Cmp(old, m)
  BY DEF Beside
<1> HIDE DEF ch, r, new, par, top, T
<1>4. Renames(ch, r, S, old, n, new, top)
  BY <1>2, <1>3 DEF Renames
<1>5. Tree(new, top, T, Moved(sub, old, n))
  <2>1. Tree(new, top, (S \ {old}) \cup {n}, Moved(sub, old, n))
    BY <1>1, <1>4, Renamed
  <2> QED
    BY <2>1 DEF T
<1>6. /\ old # NULL /\ old \in Node /\ n # NULL /\ r \in S \cup {NULL}
      /\ \A x \in S, i \in Sides : ch[i][x] \in S \cup {NULL} /\ ch[i][x] # x /\ ch[i][x] # r
  <2>1. old # NULL /\ old \in Node /\ n # NULL /\ r \in S \cup {NULL}
        /\ \A x \in S, i \in Sides : ch[i][x] \in S \cup {NULL} /\ x # NULL
    BY <1>1, <1>3, NotNull DEF Tree
  <2>2. \A x \in S, i \in Sides : ch[i][x] # NULL => ch[i][x] # x
    BY <1>1, Child
  <2>3. \A x \in S, i \in Sides : ch[i][x] # r
    BY <1>1, RootAbove
  <2> QED
    BY <2>1, <2>2, <2>3
<1>7. \A x \in T, i \in Sides : new[i][x] # NULL => v.parent[new[i][x]] = x
  <2> SUFFICES ASSUME NEW x \in T, NEW i \in Sides, new[i][x] # NULL PROVE v.parent[new[i][x]] = x
    OBVIOUS
  <2>1. CASE x = n
    <3>1. new[i][x] = ch[i][old] /\ ch[i][old] \in S \ {old}
      BY <1>2, <1>6, <2>1
    <3>2. ch[i][old] = ch["left"][old] \/ ch[i][old] = ch["right"][old]
      BY DEF Sides
    <3> QED
      BY <1>2, <2>1, <3>1, <3>2
  <2>2. CASE x # n /\ ch[i][x] = old
    <3>1. x \in S \ {old} /\ new[i][x] = n /\ par[old] = x
      BY <1>1, <1>2, <1>6, <2>2 DEF T
    <3> QED
      BY <1>2, <3>1
  <2>3. CASE x # n /\ ch[i][x] # old
    <3>1. x \in S \ {old} /\ new[i][x] = ch[i][x] /\ ch[i][x] \in S \ {old}
      BY <1>2, <1>6, <2>3 DEF T
    <3>2. ch[i][x] # ch["left"][old] /\ ch[i][x] # ch["right"][old]
      <4>1. \A j \in Sides : ch[i][x] = ch[j][old] => x = old
        BY <1>1, <1>6, <3>1, OneParent
      <4> QED
        BY <3>1, <4>1 DEF Sides
    <3> QED
      BY <1>1, <1>2, <1>6, <3>1, <3>2
  <2> QED
    BY <2>1, <2>2, <2>3
<1>8. top # NULL => v.parent[top] = NULL
  <2>1. CASE r = old
    BY <1>1, <1>2, <1>6, <2>1
  <2>2. CASE r # old
    <3>1. top = r
      BY <1>2, <2>2
    <3>2. r # NULL => r \in S \ {old} /\ r # ch["left"][old] /\ r # ch["right"][old]
      BY <1>6, <2>2 DEF Sides
    <3> QED
      BY <1>1, <1>2, <3>1, <3>2
  <2> QED
    BY <2>1, <2>2
<1> QED
  BY <1>2, <1>5, <1>7, <1>8 DEF Shape, new, top, T

\* The black elements on the paths stay as many.
LEMMA TakeOverBalance ==
  ASSUME NEW t, NEW S, NEW sub, Shape(t, S, sub), NEW old \in S, NEW n, Beside(S, old, n),
         NEW v, TakesOver(t, S, old, n, v), NEW h, NEW p, NEW d, Balanced(t, S, h, p, d), p \in S \cup {NULL},
         NEW q, q = IF p = old THEN n ELSE p
  PROVE  Balanced(v, (S \ {old}) \cup {n}, [h EXCEPT ![n] = h[old]], q, d)
<1> DEFINE ch == t.child
           new == v.child
           T == (S \ {old}) \cup {n}
           b == h[old]
           g == [h EXCEPT ![n] = b]
<1>1. /\ v.color[n] = t.color[old] /\ \A i \in Sides : new[i][n] = ch[i][old]
      /\ \A x \in S \ {old} : /\ v.color[x] = t.color[x]
                              /\ \A i \in Sides : new[i][x] = IF ch[i][x] = old THEN n ELSE ch[i][x]
  BY DEF TakesOver
<1>2. h \in [NodeOrNull -> Nat] /\ h[NULL] = 0
      /\ \A x \in S, i \in Sides : h[x] = h[ch[i][x]] + Lack(p, d, x, i) + Weight(t, x)
  BY DEF Balanced
<1>3. S \subseteq Node /\ n \in Node /\ n \notin S /\ n # NULL /\ old # NULL /\ old \in NodeOrNull /\ n \in NodeOrNull
      /\ \A x \in S, i \in Sides : ch[i][x] \in S \cup {NULL}
  <2>1. S \subseteq Node /\ \A x \in S, i \in Sides : ch[i][x] \in S \cup {NULL}
    BY ShapeIs
  <2> QED
    BY <2>1, NotNull DEF NodeOrNull, Beside
<1>4. b \in Nat
  BY <1>2, <1>3
<1> HIDE DEF b
<1>5. g \in [NodeOrNull -> Nat] /\ g[n] = b /\ \A x \in S \cup {NULL} : g[x] = h[x]
  <2>1. S \cup {NULL} \subseteq NodeOrNull \ {n}
    BY <1>3 DEF NodeOrNull
  <2> QED
    BY <1>2, <1>3, <1>4, <2>1
<1>6. Weight(v, n) = Weight(t, old) /\ \A x \in S \ {old} : Weight(v, x) = Weight(t, x)
  BY <1>1 DEF Weight
<1>7. \A i \in Sides : Lack(q, d, n, i) = Lack(p, d, old, i)
  BY <1>3 DEF Lack
<1>8. \A x \in S \ {old}, i \in Sides : Lack(q, d, x, i) = Lack(p, d, x, i)
  BY <1>3 DEF Lack
<1>9. \A i \in Sides, x \in S : ch[i][x] # n
  BY <1>3
<1> HIDE DEF g, ch, new
<1>10. ASSUME NEW x \in T, NEW i \in Sides PROVE g[x] = g[new[i][x]] + Lack(q, d, x, i) + Weight(v, x)
  <2>1. CASE x = n
    <3>1. h[old] = h[ch[i][old]] + Lack(p, d, old, i) + Weight(t, old)
      BY <1>2
    <3>2. g[new[i][x]] = h[ch[i][old]] /\ g[x] = h[old]
      BY <1>1, <1>3, <1>5, <2>1 DEF b
    <3> QED
      BY <1>6, <1>7, <2>1, <3>1, <3>2
  <2>2. CASE x # n
    <3>1. x \in S \ {old}
      BY <2>2
    <3>2. h[x] = h[ch[i][x]] + Lack(p, d, x, i) + Weight(t, x)
      BY <1>2, <3>1
    <3>3. g[x] = h[x]
      BY <1>5, <3>1
    <3>4. g[new[i][x]] = h[ch[i][x]]
      <4>1. CASE ch[i][x] = old
        BY <1>1, <1>5, <3>1, <4>1 DEF b
      <4>2. CASE ch[i][x] # old
        BY <1>1, <1>3, <1>5, <3>1, <4>2
      <4> QED
        BY <4>1, <4>2
    <3> QED
      BY <1>6, <1>8, <3>1, <3>2, <3>3, <3>4
  <2> QED
    BY <2>1, <2>2
<1>11. g[NULL] = 0
  BY <1>2, <1>5
<1>12. Balanced(v, T, g, q, d)
  BY <1>5, <1>10, <1>11 DEF Balanced, new
<1> QED
  BY <1>12 DEF g, b

\* Only at c may red meet red.
CalmAt(t, S, c) == Calm(t, S, {c}, {c})

\* No red element comes below a red one.
LEMMA TakeOverCalm ==
  ASSUME NEW t, NEW S, NEW sub, Shape(t, S, sub), NEW old \in S, NEW n, Beside(S, old, n),
         NEW v, TakesOver(t, S, old, n, v), NEW c, CalmAt(t, S, c), c # old, c # n, c \in S \cup {NULL}
  PROVE  CalmAt(v, (S \ {old}) \cup {n}, c)
<1> DEFINE ch == t.child
           new == v.child
           T == (S \ {old}) \cup {n}
           r == t.root
<1>1. /\ v.color[n] = t.color[old] /\ v.root = (IF r = old THEN n ELSE r)
      /\ \A i \in Sides : new[i][n] = ch[i][old]
      /\ \A x \in S \ {old} : /\ v.color[x] = t.color[x]
                              /\ \A i \in Sides : new[i][x] = IF ch[i][x] = old THEN n ELSE ch[i][x]
  BY DEF TakesOver
<1>2. S \subseteq Node /\ n \notin S /\ n # NULL /\ old # NULL /\ r \in S \cup {NULL}
      /\ \A x \in S, i \in Sides : ch[i][x] \in S \cup {NULL} /\ ch[i][x] # x
  <2>1. S \subseteq Node /\ r \in S \cup {NULL} /\ Tree(t.child, r, S, sub)
        /\ \A x \in S, i \in Sides : ch[i][x] \in S \cup {NULL}
    BY ShapeIs
  <2>2. \A x \in S, i \in Sides : ch[i][x] # NULL => ch[i][x] # x
    <3> HIDE DEF ch, r
    <3>1. Tree(ch, r, S, sub)
      BY <2>1 DEF ch
    <3> QED
      BY <3>1, Child
  <2> QED
    BY <2>1, <2>2, NotNull DEF Beside
<1>3. (\A x \in S, i \in Sides : Red(t, x) /\ Red(t, ch[i][x]) => x = c \/ ch[i][x] = c)
      /\ (Red(t, r) => r = c)
  BY DEF Calm, CalmAt
<1>4. (Red(v, n) <=> Red(t, old)) /\ ~Red(v, NULL) /\ ~Red(t, NULL) /\ \A x \in S \ {old} : Red(v, x) <=> Red(t, x)
  BY <1>1, <1>2 DEF Red
<1> HIDE DEF ch, new, r
<1>5. ASSUME NEW x \in T, NEW i \in Sides, Red(v, x), Red(v, new[i][x]) PROVE x = c \/ new[i][x] = c
  <2>1. CASE x = n
    <3>1. new[i][x] = ch[i][old] /\ ch[i][old] \in S \ {old}
      BY <1>1, <1>2, <1>4, <1>5, <2>1
    <3>2. Red(t, old) /\ Red(t, ch[i][old])
      BY <1>4, <1>5, <2>1, <3>1
    <3> QED
      BY <1>3, <3>1, <3>2
  <2>2. CASE x # n /\ ch[i][x] = old
    <3>1. x \in S \ {old} /\ new[i][x] = n
      BY <1>1, <1>2, <2>2
    <3>2. Red(t, x) /\ Red(t, ch[i][x])
      BY <1>4, <1>5, <2>2, <3>1
    <3> QED
      BY <1>3, <2>2, <3>1, <3>2
  <2>3. CASE x # n /\ ch[i][x] # old
    <3>1. x \in S \ {old} /\ new[i][x] = ch[i][x] /\ ch[i][x] \in S \ {old}
      <4>1. x \in S \ {old} /\ new[i][x] = ch[i][x]
        BY <1>1, <2>3
      <4> QED
        BY <1>2, <1>4, <1>5, <2>3, <4>1
    <3>2. Red(t, x) /\ Red(t, ch[i][x])
      BY <1>4, <1>5, <3>1
    <3> QED
      BY <1>3, <3>1, <3>2
  <2> QED
    BY <2>1, <2>2, <2>3
<1>6. Red(v, v.root) => v.root = c
  <2>1. CASE r = old
    BY <1>1, <1>3, <1>4, <2>1
  <2>2. CASE r # old
    BY <1>1, <1>2, <1>3, <1>4, <2>2
  <2> QED
    BY <2>1, <2>2
<1>7. CalmAt(v, T, c)
  BY <1>5, <1>6 DEF Calm, CalmAt, new
<1> QED
  BY <1>7

\* The second part of RB_REMOVE keeps a red-black tree.
LEMMA TakeOverOk ==
  ASSUME NEW t, NEW S, RbOk(t, S), NEW old \in S, NEW n, Beside(S, old, n)
  PROVE  RbOk(TakeOver(t, old, n), (S \ {old}) \cup {n})
<1> DEFINE v == TakeOver(t, old, n)
           T == (S \ {old}) \cup {n}
           none == NULL
<1>1. PICK sub, h, d : d \in Sides /\ Shape(t, S, sub) /\ Balanced(t, S, h, NULL, d) /\ Calm(t, S, {}, {})
  BY DEF RbOk
<1>2. n \in Node /\ n \notin S /\ old # NULL /\ n # NULL
  <2>1. S \subseteq Node
    BY <1>1, ShapeIs
  <2> QED
    BY <2>1, NotNull DEF Beside
<1>3. TakesOver(t, S, old, n, v)
  BY <1>1, <1>2, TakeOverIs
<1> HIDE DEF v
<1>4. Shape(v, T, Moved(sub, old, n))
  BY <1>1, <1>3, TakeOverShape
<1>5. /\ none \in S \cup {NULL} /\ none # old /\ none # n /\ Balanced(t, S, h, none, d)
      /\ none = (IF none = old THEN n ELSE none)
  BY <1>1, <1>2
<1>6. CalmAt(t, S, none)
  BY <1>1 DEF Calm, CalmAt
<1> HIDE DEF none
<1>7. Balanced(v, T, [h EXCEPT ![n] = h[old]], none, d)
  BY <1>1, <1>3, <1>5, TakeOverBalance
<1>8. CalmAt(v, T, none)
  BY <1>1, <1>3, <1>5, <1>6, TakeOverCalm
<1>9. Calm(v, T, {}, {})
  <2>1. /\ \A x \in T, i \in Sides : Red(v, x) /\ Red(v, v.child[i][x]) => x = none \/ v.child[i][x] = none
        /\ (Red(v, v.root) => v.root = none)
    BY <1>8 DEF Calm, CalmAt
  <2>2. ~Red(v, none)
    BY DEF Red, none
  <2> QED
    BY <2>1, <2>2 DEF Calm
<1> QED
  BY <1>1, <1>4, <1>7, <1>9 DEF RbOk, none, v

\* The second part of RB_REMOVE keeps what RB_REMOVE_COLOR starts from.
LEMMA TakeOverRemoving ==
  ASSUME NEW t, NEW S, NEW sub, NEW p, NEW c, Removing(t, S, sub, p, c), NEW old \in S, c # old,
         NEW n, Beside(S, old, n), NEW q, q = IF p = old THEN n ELSE p
  PROVE  Removing(TakeOver(t, old, n), (S \ {old}) \cup {n}, Moved(sub, old, n), q, c)
<1> DEFINE v == TakeOver(t, old, n)
           T == (S \ {old}) \cup {n}
<1>1. Shape(t, S, sub) /\ CalmAt(t, S, c)
  BY DEF Removing, CalmAt
<1>2. PICK h, d : d \in Sides /\ At(t, S, p, d, c) /\ Balanced(t, S, h, p, d)
  BY DEF Removing
<1>3. n \in Node /\ n \notin S /\ old # NULL /\ n # NULL /\ t.root \in S \cup {NULL}
      /\ \A x \in S, i \in Sides : t.child[i][x] \in S \cup {NULL}
  <2>1. S \subseteq Node /\ t.root \in S \cup {NULL} /\ \A x \in S, i \in Sides : t.child[i][x] \in S \cup {NULL}
    BY <1>1, ShapeIs
  <2> QED
    BY <2>1, NotNull DEF Beside
<1>4. p \in S \cup {NULL} /\ c \in S \cup {NULL} /\ c # n
  <2>1. p \in S \cup {NULL} /\ c \in S \cup {NULL}
    BY <1>2, <1>3 DEF At
  <2> QED
    BY <1>3, <2>1
<1>5. TakesOver(t, S, old, n, v)
  BY <1>1, <1>3, TakeOverIs
<1> HIDE DEF v
<1>6. Shape(v, T, Moved(sub, old, n))
  BY <1>1, <1>5, TakeOverShape
<1>7. Balanced(v, T, [h EXCEPT ![n] = h[old]], q, d)
  BY <1>1, <1>2, <1>4, <1>5, TakeOverBalance
<1>8. CalmAt(v, T, c)
  BY <1>1, <1>4, <1>5, TakeOverCalm
<1>9. At(v, T, q, d, c)
  <2>1. /\ v.root = (IF t.root = old THEN n ELSE t.root)
        /\ v.child[d][n] = t.child[d][old]
        /\ \A x \in S \ {old} : v.child[d][x] = IF t.child[d][x] = old THEN n ELSE t.child[d][x]
    BY <1>2, <1>5 DEF TakesOver
  <2>2. CASE p = NULL /\ c = t.root
    <3>1. q = NULL /\ c = v.root
      BY <1>3, <2>1, <2>2
    <3> QED
      BY <3>1 DEF At
  <2>3. CASE p \in S /\ t.child[d][p] = c
    <3>1. q \in T /\ v.child[d][q] = c
      BY <1>3, <2>1, <2>3
    <3> QED
      BY <3>1 DEF At
  <2> QED
    BY <1>2, <2>2, <2>3 DEF At
<1>10. Removing(v, T, Moved(sub, old, n), q, c)
  BY <1>2, <1>6, <1>7, <1>8, <1>9 DEF Removing, CalmAt
<1> QED
  BY <1>10 DEF v

\* After a red element is cut out nothing is left to do, after a black one what
\* RB_REMOVE_COLOR does.
LEMMA CutDone ==
  ASSUME NEW t, NEW S, RbOk(t, S), NEW n \in S, NEW side \in Sides, t.child[side][n] = NULL,
         NEW c, c = t.child[Other(side)][n], NEW p, p = t.parent[n], NEW v, v = Unlink(t, n)
  PROVE  /\ t.color[n] = "red" => RbOk(v, S \ {n})
         /\ t.color[n] = "black" => \E f : Removing(v, S \ {n}, f, p, c)
<1>1. PICK sub, h, d : d \in Sides /\ Shape(t, S, sub) /\ Balanced(t, S, h, NULL, d) /\ Calm(t, S, {}, {})
  BY DEF RbOk
<1>2. CutOut(t, S, n, c, v)
  BY <1>1, CutIs
<1>3. Shape(v, S \ {n}, Without(sub, n))
  BY <1>1, <1>2, CutShape
<1>4. /\ t.color[n] = "red" => Balanced(v, S \ {n}, h, NULL, d)
      /\ t.color[n] = "black" =>
           \E e : e \in Sides /\ At(v, S \ {n}, p, e, c) /\ Balanced(v, S \ {n}, h, p, e)
  BY <1>1, <1>2, CutBalance
<1>5. /\ Calm(v, S \ {n}, {c}, {c})
      /\ t.color[n] = "red" => Calm(v, S \ {n}, {}, {})
  BY <1>1, <1>2, CutCalm
<1>6. ASSUME t.color[n] = "red" PROVE RbOk(v, S \ {n})
  BY <1>1, <1>3, <1>4, <1>5, <1>6 DEF RbOk
<1>7. ASSUME t.color[n] = "black" PROVE \E f : Removing(v, S \ {n}, f, p, c)
  <2>1. Removing(v, S \ {n}, Without(sub, n), p, c)
    BY <1>3, <1>4, <1>5, <1>7 DEF Removing
  <2> QED
    BY <2>1
<1> QED
  BY <1>6, <1>7

\* The element that replaces one with two children.
LEMMA SuccessorIs ==
  ASSUME NEW t, NEW S, NEW sub, Shape(t, S, sub), NEW old \in S, t.child["right"][old] # NULL,
         NEW n, n = Extreme(t, t.child["right"][old], "left")
  PROVE  /\ n \in S /\ n # old /\ t.child["left"][n] = NULL /\ t.child["right"][n] # old
         /\ Beside(S \ {n}, old, n)
<1> DEFINE ch == t.child
           r == t.root
           c == ch["right"][old]
<1>1. Tree(ch, r, S, sub) /\ TreeOf(t, r, S, sub) /\ S \subseteq Node
  BY ShapeIs DEF TreeOf
<1>2. c = ch["right"][old] /\ c # NULL /\ n = Extreme(t, c, "left")
  OBVIOUS
<1>3. "left" \in Sides /\ "right" \in Sides /\ Other("right") = "left" /\ Other("left") = "right"
  BY DEF Sides, Other
<1>4. Neighbour(S, old, "right", n)
  <2>1. Neighbour(S, old, "right", Extreme(t, t.child["right"][old], Other("right")))
    BY <1>3, StepDown
  <2> QED
    BY <1>3, <2>1
<1> HIDE DEF c
<1>5. c \in S /\ c \in sub[old] /\ sub[c] \subseteq sub[old] /\ old \notin sub[c]
  <2> HIDE DEF ch, r
  <2> QED
    BY <1>1, <1>2, <1>3, Child
<1>6. n \in sub[c] /\ ch["left"][n] = NULL
  BY <1>1, <1>2, <1>3, <1>5, ExtremeIs
<1> HIDE DEF ch, r
<1>7. n \in S /\ n \in Node /\ old \in Node /\ n # NULL
  BY <1>1, <1>5, <1>6, NotNull DEF Tree
<1>8. n # old /\ Cmp(n, old) = "right" /\ \A m \in S : Cmp(m, old) = "right" => m = n \/ Cmp(m, n) = "right"
  BY <1>4, <1>5, <1>6, <1>7 DEF Neighbour
<1>9. ch["right"][n] # old
  <2> SUFFICES ASSUME ch["right"][n] = old PROVE FALSE
    OBVIOUS
  <2>1. old \in sub[n]
    BY <1>1, <1>3, <1>7, NotNull, Child
  <2>2. sub[n] \subseteq sub[c]
    BY <1>1, <1>5, <1>6, Nested
  <2> QED
    BY <1>5, <2>1, <2>2
<1>10. ASSUME NEW m \in S \ {old, n} PROVE Cmp(m, n) = Cmp(m, old) /\ Cmp(n, m) = Cmp(old, m)
  <2>1. m \in Node /\ Cmp(m, old) # "here"
    BY <1>1 DEF Tree
  <2>2. Cmp(m, old) = "left" \/ Cmp(m, old) = "right"
    BY <1>7, <2>1, CmpFacts DEF Sides
  <2>3. CASE Cmp(m, old) = "right"
    <3>1. Cmp(m, n) = "right"
      BY <1>8, <2>3
    <3> QED
      BY <1>3, <1>7, <2>1, <2>3, <3>1, CmpFacts
  <2>4. CASE Cmp(m, old) = "left"
    <3>1. Cmp(old, n) = "left"
      BY <1>3, <1>7, <1>8, CmpFacts
    <3>2. Cmp(m, n) = "left"
      BY <1>3, <1>7, <2>1, <2>4, <3>1, CmpTransitive
    <3> QED
      BY <1>3, <1>7, <2>1, <2>4, <3>2, CmpFacts
  <2> QED
    BY <2>2, <2>3, <2>4
<1>11. Beside(S \ {n}, old, n)
  BY <1>7, <1>10 DEF Beside
<1> QED
  BY <1>6, <1>7, <1>8, <1>9, <1>11 DEF ch

\* RB_REMOVE takes out old.
LEMMA RbRemoveIs ==
  ASSUME NEW t, NEW S, RbOk(t, S), NEW old \in S
  PROVE  RbOk(RB_REMOVE(t, old), S \ {old})
<1> DEFINE two == \A side \in Sides : t.child[side][old] # NULL
           n == IF two THEN Extreme(t, t.child["right"][old], "left") ELSE old
           c == IF t.child["left"][n] = NULL THEN t.child["right"][n] ELSE t.child["left"][n]
           p == t.parent[n]
           q == IF two /\ p = old THEN n ELSE p
           v == Unlink(t, n)
           w == IF two THEN TakeOver(v, old, n) ELSE v
           T == S \ {n}
<1>1. RB_REMOVE(t, old) = IF t.color[n] = "black" THEN RB_REMOVE_COLOR(w, q, c) ELSE w
  BY DEF RB_REMOVE
<1>2. PICK sub, h, d : d \in Sides /\ Shape(t, S, sub) /\ Balanced(t, S, h, NULL, d) /\ Calm(t, S, {}, {})
  BY DEF RbOk
<1>3. t \in RbMemory /\ S \subseteq Node
  <2> HIDE DEF w
  <2> QED
    BY <1>2, ShapeIs
<1>4. /\ n \in S /\ \E side \in Sides : t.child[side][n] = NULL /\ c = t.child[Other(side)][n]
      /\ two => n # old /\ c # old /\ Beside(T, old, n)
  <2>1. CASE two
    <3>1. n = Extreme(t, t.child["right"][old], "left") /\ t.child["right"][old] # NULL
      BY <2>1 DEF Sides
    <3> HIDE DEF n
    <3>2. n \in S /\ n # old /\ t.child["left"][n] = NULL /\ t.child["right"][n] # old /\ Beside(S \ {n}, old, n)
      BY <1>2, <3>1, SuccessorIs
    <3>3. c = t.child["right"][n]
      BY <3>2
    <3> QED
      BY <3>2, <3>3 DEF Sides, Other
  <2>2. CASE ~two
    <3>1. n = old
      BY <2>2
    <3>2. t.child["left"][n] = NULL \/ t.child["right"][n] = NULL
      BY <2>2, <3>1 DEF Sides
    <3> HIDE DEF n, two
    <3>3. \E side \in Sides : t.child[side][n] = NULL /\ c = t.child[Other(side)][n]
      <4>1. CASE t.child["left"][n] = NULL
        BY <4>1 DEF Sides, Other
      <4>2. CASE t.child["left"][n] # NULL
        BY <3>2, <4>2 DEF Sides, Other
      <4> QED
        BY <4>1, <4>2
    <3> QED
      BY <2>2, <3>1, <3>3
  <2> QED
    BY <2>1, <2>2
<1>5. ~two => n = old
  BY Zenon
<1>6. p = t.parent[n] /\ v = Unlink(t, n)
  BY Zenon
<1> HIDE DEF n, c, p, v, two, T
<1>7. PICK side \in Sides : t.child[side][n] = NULL /\ c = t.child[Other(side)][n]
  BY <1>4
<1>8. t.color[n] = "red" \/ t.color[n] = "black"
  BY <1>3, <1>4, RbReads
<1>9. /\ t.color[n] = "red" => RbOk(v, T)
      /\ t.color[n] = "black" => \E f : Removing(v, T, f, p, c)
  <2>1. T = S \ {n}
    BY DEF T
  <2> HIDE DEF T
  <2> QED
    BY <1>4, <1>6, <1>7, <2>1, CutDone
<1>10. two => (T \ {old}) \cup {n} = S \ {old} /\ old \in T
  BY <1>4 DEF T
<1>11. CASE t.color[n] = "red"
  <2>1. RbOk(v, T) /\ RB_REMOVE(t, old) = w
    BY <1>1, <1>9, <1>11
  <2>2. CASE two
    <3>1. RbOk(TakeOver(v, old, n), (T \ {old}) \cup {n})
      BY <1>4, <1>10, <2>1, <2>2, TakeOverOk
    <3> QED
      BY <1>10, <2>1, <2>2, <3>1
  <2>3. CASE ~two
    BY <1>5, <2>1, <2>3 DEF T
  <2> QED
    BY <2>2, <2>3
<1>12. CASE t.color[n] = "black"
  <2>1. PICK f : Removing(v, T, f, p, c)
    BY <1>9, <1>12
  <2>2. RB_REMOVE(t, old) = RB_REMOVE_COLOR(w, q, c)
    BY <1>1, <1>12
  <2>3. \E g : Removing(w, S \ {old}, g, q, c)
    <3>1. CASE two
      <4>1. q = (IF p = old THEN n ELSE p) /\ w = TakeOver(v, old, n)
        BY <3>1
      <4> HIDE DEF q, w
      <4>2. Removing(TakeOver(v, old, n), (T \ {old}) \cup {n}, Moved(f, old, n), q, c)
        BY <1>4, <1>10, <2>1, <3>1, <4>1, TakeOverRemoving
      <4> QED
        BY <1>10, <3>1, <4>1, <4>2
    <3>2. CASE ~two
      <4>1. q = p /\ w = v /\ T = S \ {old}
        BY <1>5, <3>2 DEF T
      <4> QED
        BY <2>1, <4>1
    <3> QED
      BY <3>1, <3>2
  <2> HIDE DEF q, w
  <2>4. PICK g : Removing(w, S \ {old}, g, q, c)
    BY <2>3
  <2>5. RbOk(RB_REMOVE_COLOR(w, q, c), S \ {old})
    BY <2>4, RemoveColorIs
  <2> QED
    BY <2>2, <2>5
<1> QED
  BY <1>8, <1>11, <1>12

-----------------------------------------------------------------------------
(* Memory outside the tree                                                 *)

\* What the elements of S hold is in v what it is in t.
SameOn(t, S, v) ==
  /\ v \in RbMemory /\ v.root = t.root
  /\ \A x \in S : /\ v.parent[x] = t.parent[x] /\ v.color[x] = t.color[x]
                  /\ \A i \in Sides : v.child[i][x] = t.child[i][x]

\* The memory of an element that is not in the tree may be reused.
LEMMA FreedIs ==
  ASSUME NEW t \in RbMemory, NEW S \in SUBSET Node, NEW n \in Node, n \notin S
  PROVE  SameOn(t, S, Freed(t, n))
<1> DEFINE children == [side \in Sides |-> [t.child[side] EXCEPT ![n] = NULL]]
           parents == [t.parent EXCEPT ![n] = NULL]
           colors == [t.color EXCEPT ![n] = "black"]
           v == Freed(t, n)
<1>1. /\ t.root \in NodeOrNull /\ t.child \in [Sides -> [Node -> NodeOrNull]]
      /\ t.parent \in [Node -> NodeOrNull] /\ t.color \in [Node -> {"red", "black"}]
      /\ NULL \in NodeOrNull /\ \A i \in Sides : t.child[i] \in [Node -> NodeOrNull]
  BY DEF RbMemory, NodeOrNull
<1>2. /\ children \in [Sides -> [Node -> NodeOrNull]]
      /\ \A i \in Sides, x \in Node \ {n} : children[i][x] = t.child[i][x]
  BY <1>1
<1>3. parents \in [Node -> NodeOrNull] /\ \A x \in Node \ {n} : parents[x] = t.parent[x]
  BY <1>1
<1>4. colors \in [Node -> {"red", "black"}] /\ \A x \in Node \ {n} : colors[x] = t.color[x]
  BY <1>1
<1>5. v = [t EXCEPT !.parent[n] = NULL, !.color[n] = "black", !.child = children]
  BY DEF Freed
<1> HIDE DEF v, children
<1>6. /\ v.root = t.root /\ v.parent = parents /\ v.color = colors /\ v.child = children
      /\ v = [root |-> v.root, child |-> v.child, parent |-> v.parent, color |-> v.color]
  BY <1>5 DEF RbMemory
<1> HIDE DEF parents, colors
<1>7. v \in RbMemory
  BY <1>1, <1>2, <1>3, <1>4, <1>6 DEF RbMemory
<1>8. \A x \in S : x \in Node \ {n}
  OBVIOUS
<1>9. SameOn(t, S, v)
  BY <1>2, <1>3, <1>4, <1>6, <1>7, <1>8 DEF SameOn
<1> QED
  BY <1>9 DEF v

\* A red-black tree is one by the fields of its elements alone.
LEMMA SameOk ==
  ASSUME NEW t, NEW S, RbOk(t, S), NEW v, SameOn(t, S, v)
  PROVE  RbOk(v, S)
<1>1. PICK sub, h, d : d \in Sides /\ Shape(t, S, sub) /\ Balanced(t, S, h, NULL, d) /\ Calm(t, S, {}, {})
  BY DEF RbOk
<1> DEFINE ch == t.child
           new == v.child
           r == t.root
<1>2. /\ v \in RbMemory /\ v.root = r
      /\ \A x \in S : v.parent[x] = t.parent[x] /\ v.color[x] = t.color[x]
      /\ \A x \in S, i \in Sides : new[i][x] = ch[i][x]
  BY DEF SameOn
<1>3. /\ Tree(ch, r, S, sub) /\ (r # NULL => t.parent[r] = NULL)
      /\ \A x \in S, i \in Sides : ch[i][x] # NULL => t.parent[ch[i][x]] = x
  BY <1>1 DEF Shape
<1>4. /\ \A x \in S, i \in Sides : ch[i][x] \in S \cup {NULL}
      /\ r \in S \cup {NULL} /\ S \subseteq Node
  BY <1>1, ShapeIs
<1>5. /\ \A x \in S, i \in Sides : h[x] = h[ch[i][x]] + Lack(NULL, d, x, i) + Weight(t, x)
      /\ h \in [NodeOrNull -> Nat] /\ h[NULL] = 0
  BY <1>1 DEF Balanced
<1>6. (\A x \in S, i \in Sides : ~(Red(t, x) /\ Red(t, ch[i][x]))) /\ ~Red(t, r)
  BY <1>1 DEF Calm
<1> HIDE DEF ch, new, r
<1>7. Shape(v, S, sub)
  <2>1. Tree(new, r, S, sub)
    <3>1. sub[NULL] = {} /\ \A x \in S : sub[x] = sub[x] /\ \A i \in Sides : new[i][x] = ch[i][x]
      BY <1>2, <1>3 DEF Tree
    <3>2. Tree(ch, r, S, sub)
      BY <1>3
    <3> QED
      BY <3>1, <3>2 DEF Tree
  <2>2. \A x \in S, i \in Sides : new[i][x] # NULL => v.parent[new[i][x]] = x
    BY <1>2, <1>3, <1>4
  <2>3. v.root # NULL => v.parent[v.root] = NULL
    BY <1>2, <1>3, <1>4
  <2>4. Tree(v.child, v.root, S, sub)
    BY <1>2, <2>1 DEF new
  <2> QED
    BY <1>2, <2>2, <2>3, <2>4 DEF Shape, new
<1>8. Balanced(v, S, h, NULL, d)
  <2>1. \A x \in S : Weight(v, x) = Weight(t, x)
    BY <1>2 DEF Weight
  <2>2. \A x \in S, i \in Sides : h[x] = h[new[i][x]] + Lack(NULL, d, x, i) + Weight(v, x)
    BY <1>2, <1>5, <2>1
  <2> QED
    BY <1>5, <2>2 DEF Balanced, new
<1>9. Calm(v, S, {}, {})
  <2>1. \A x \in S \cup {NULL} : Red(v, x) <=> Red(t, x)
    BY <1>2 DEF Red
  <2>2. (\A x \in S, i \in Sides : ~(Red(v, x) /\ Red(v, new[i][x]))) /\ ~Red(v, v.root)
    BY <1>2, <1>4, <1>6, <2>1
  <2> QED
    BY <2>2 DEF Calm, new
<1> QED
  BY <1>1, <1>7, <1>8, <1>9 DEF RbOk

\* The owner removes an element and frees it.
LEMMA RemovedFreed ==
  ASSUME NEW t, NEW S, RbOk(t, S), NEW n \in S
  PROVE  RbOk(Freed(RB_REMOVE(t, n), n), S \ {n})
<1> DEFINE u == RB_REMOVE(t, n)
           T == S \ {n}
<1>1. RbOk(u, T)
  BY RbRemoveIs
<1>2. S \subseteq Node /\ n \notin T
  BY RbOkFacts
<1> HIDE DEF u, T
<1>3. u \in RbMemory /\ T \in SUBSET Node
  BY <1>1, RbOkFacts
<1>4. SameOn(u, T, Freed(u, n))
  BY <1>2, <1>3, FreedIs
<1>5. RbOk(Freed(u, n), T)
  BY <1>1, <1>4, SameOk
<1> QED
  BY <1>5 DEF u, T

\* The empty tree is a red-black tree.
LEMMA RbEmptyOk == RbOk(RbEmpty, {})
<1> DEFINE sub == [x \in NodeOrNull |-> {}]
           h == [x \in NodeOrNull |-> 0]
           v == RbEmpty
<1>1. v \in RbMemory /\ v.root = NULL
  BY DEF RbEmpty, RbMemory, NodeOrNull
<1>2. sub[NULL] = {} /\ h \in [NodeOrNull -> Nat] /\ h[NULL] = 0
  BY DEF NodeOrNull
<1> HIDE DEF sub, h, v
<1>3. Shape(v, {}, sub)
  BY <1>1, <1>2 DEF Shape, Tree
<1>4. Balanced(v, {}, h, NULL, "left")
  BY <1>2 DEF Balanced
<1>5. Calm(v, {}, {}, {})
  BY <1>1 DEF Calm, Red
<1>6. "left" \in Sides
  BY DEF Sides
<1> QED
  BY <1>3, <1>4, <1>5, <1>6 DEF RbOk, v

\* RB_NEXT and RB_PREV find the neighbours in a red-black tree.
LEMMA RbNextIs ==
  ASSUME NEW t, NEW S, RbOk(t, S), NEW n \in S, NEW side \in Sides
  PROVE  Neighbour(S, n, side, RB_STEP(t, n, side))
<1>1. PICK sub : Shape(t, S, sub)
  BY DEF RbOk
<1> QED
  BY <1>1, RbStepIs

-----------------------------------------------------------------------------
(* The program that uses the tree                                          *)

\* The loop has y ready, has passed s in order, and what is left is ahead.
RbWalking ==
  LET s == walk.seen IN
  /\ walk.side \in Sides /\ walk.x \in linked \cup {NULL} /\ s \in Seq(Node)
  /\ walk.x # NULL => /\ Neighbour(linked, walk.x, walk.side, walk.y)
                      /\ Len(s) > 0 => Cmp(walk.x, s[Len(s)]) = walk.side
  /\ RbWalkComplete

\* The inductive invariant.
RbKept == RbOk(rb, linked) /\ RbWalking

\* The invariant holds at the start.
LEMMA RbStarts == RbInit => RbKept
<1> SUFFICES ASSUME RbInit PROVE RbKept
  OBVIOUS
<1>1. RbOk(rb, linked)
  BY RbEmptyOk DEF RbInit
<1>2. walk.side = "right" /\ walk.x = NULL /\ walk.from = {} /\ walk.seen = <<>>
  BY DEF RbInit, NoWalk
<1>3. RbWalkComplete
  BY <1>2 DEF RbWalkComplete
<1> QED
  BY <1>1, <1>2, <1>3 DEF RbKept, RbWalking, Sides

\* No step but those of a loop has to do with it.
LEMMA NotWalking ==
  ASSUME walk' = NoWalk
  PROVE  RbWalking'
<1>1. walk'.side = "right" /\ walk'.x = NULL /\ walk'.from = {} /\ walk'.seen = <<>>
  BY DEF NoWalk
<1>2. RbWalkComplete'
  BY <1>1 DEF RbWalkComplete
<1> QED
  BY <1>1, <1>2 DEF RbWalking, Sides

\* RB_INSERT keeps the invariant.
LEMMA RbAddStep ==
  ASSUME RbKept, NEW n \in Node, RbAdd(n)
  PROVE  RbKept'
<1>1. RbOk(rb, linked) /\ n \notin linked
  BY DEF RbKept, RbAdd
<1>2. RbOk(RB_INSERT(rb, n), IF RB_FIND(rb, n) = NULL THEN linked \cup {n} ELSE linked)
  BY <1>1, RbInsertIs
<1>3. RbOk(rb', linked')
  BY <1>2 DEF RbAdd
<1>4. RbWalking'
  BY NotWalking DEF RbAdd, Idle
<1> QED
  BY <1>3, <1>4 DEF RbKept

\* RB_REMOVE keeps the invariant.
LEMMA RbDropStep ==
  ASSUME RbKept, NEW n \in Node, RbDrop(n)
  PROVE  RbKept'
<1>1. RbOk(rb, linked) /\ n \in linked
  BY DEF RbKept, RbDrop
<1>2. RbOk(Freed(RB_REMOVE(rb, n), n), linked \ {n})
  BY <1>1, RemovedFreed
<1>3. RbOk(rb', linked')
  BY <1>2 DEF RbDrop
<1>4. RbWalking'
  BY NotWalking DEF RbDrop, Idle
<1> QED
  BY <1>3, <1>4 DEF RbKept

\* The start of a loop over the tree keeps the invariant.
LEMMA RbForeachStep ==
  ASSUME RbKept, NEW side \in Sides, NEW x \in Node, RbForeach(side, x)
  PROVE  RbKept'
<1>1. RbOk(rb, linked) /\ linked # {} /\ rb' = rb /\ linked' = linked
      /\ x \in linked \cup {RB_MINMAX(rb, Other(side))}
      /\ walk' = [side |-> side, x |-> x, y |-> RB_STEP(rb, x, side), from |-> Ahead(x, side), seen |-> <<>>]
  BY DEF RbKept, RbForeach
<1>2. x \in linked
  <2>1. PICK sub : Shape(rb, linked, sub)
    BY <1>1 DEF RbOk
  <2>2. RB_MINMAX(rb, Other(side)) \in linked
    BY <1>1, <2>1, RbMinMaxIs, SideFacts
  <2> QED
    BY <1>1, <2>2
<1>3. Neighbour(linked, x, side, RB_STEP(rb, x, side))
  BY <1>1, <1>2, RbNextIs
<1> DEFINE y == RB_STEP(rb, x, side)
<1> HIDE DEF y
<1>4. walk'.side = side /\ walk'.x = x /\ walk'.y = y /\ walk'.from = Ahead(x, side) /\ walk'.seen = <<>>
  BY <1>1 DEF y
<1>5. Ahead(x, side)' = Ahead(x, side)
  BY <1>1 DEF Ahead
<1>6. x # NULL
  BY NotNull
<1>7. RbWalkComplete'
  <2>1. Len(<<>>) = 0 /\ {<<>>[i] : i \in 1..0} = {}
    OBVIOUS
  <2>2. Ahead(walk.x, walk.side)' = walk'.from
    BY <1>1, <1>4 DEF Ahead
  <2> QED
    BY <1>4, <1>6, <2>1, <2>2 DEF RbWalkComplete
<1>8. Neighbour(linked', walk'.x, walk'.side, walk'.y)
  BY <1>1, <1>3, <1>4 DEF y
<1>9. walk'.seen \in Seq(Node) /\ Len(walk'.seen) = 0
  BY <1>4
<1>10. RbWalking'
  BY <1>1, <1>2, <1>4, <1>7, <1>8, <1>9 DEF RbWalking
<1> QED
  BY <1>1, <1>10 DEF RbKept

\* One more element is passed, and then it may go.
LEMMA RbBodyStep ==
  ASSUME RbKept, NEW remove \in BOOLEAN, RbBody(remove)
  PROVE  RbKept'
<1> DEFINE x == walk.x
           y == walk.y
           side == walk.side
           s == walk.seen
           z == Append(s, x)
           S == linked
           T == IF remove THEN S \ {x} ELSE S
           y1 == IF y = NULL THEN NULL ELSE RB_STEP(rb', y, side)
           A == IF y = NULL THEN {} ELSE {n \in T : n = y \/ Cmp(n, y) = side}
           B == {n \in S : n = x \/ Cmp(n, x) = side}
<1>1. /\ RbOk(rb, S) /\ side \in Sides /\ x \in S /\ x # NULL /\ s \in Seq(Node)
      /\ Neighbour(S, x, side, y) /\ (Len(s) > 0 => Cmp(x, s[Len(s)]) = side) /\ RbWalkComplete
  BY DEF RbKept, RbWalking, RbBody
<1>2. /\ rb' = (IF remove THEN Freed(RB_REMOVE(rb, x), x) ELSE rb) /\ linked' = T
      /\ walk'.side = side /\ walk'.x = y /\ walk'.y = y1 /\ walk'.from = walk.from /\ walk'.seen = z
  <2>1. walk' = [walk EXCEPT !.x = y, !.y = y1, !.seen = z] /\ walk # NoWalk
    BY DEF RbBody, Idle
  <2>2. rb' = (IF remove THEN Freed(RB_REMOVE(rb, x), x) ELSE rb) /\ linked' = T
    BY DEF RbBody
  <2> HIDE DEF y1, z, T
  <2> QED
    BY <2>1, <2>2
<1>3. S \subseteq Node /\ x \in Node
  BY <1>1, RbOkFacts
<1>4. RbOk(rb', T)
  BY <1>1, <1>2, RemovedFreed
<1>5. /\ \A i \in 1..(Len(s) - 1) : Cmp(s[i + 1], s[i]) = side
      /\ {s[i] : i \in 1..Len(s)} \cup B = walk.from
  BY <1>1 DEF RbWalkComplete, Ahead
<1>6. y \in T \cup {NULL} /\ (y # NULL => Cmp(y, x) = side /\ y \in Node)
  <2>1. y # NULL => y \in S /\ Cmp(y, x) = side
    BY <1>1 DEF Neighbour
  <2>2. Cmp(x, x) # side
    BY <1>1, <1>3, CmpFacts, SideFacts
  <2> QED
    BY <1>3, <2>1, <2>2
<1>7. B = {x} \cup A
  <2>1. Cmp(x, x) = "here" /\ "here" # side
    BY <1>1, <1>3, CmpFacts, SideFacts
  <2>2. CASE y = NULL
    <3>1. \A m \in S : Cmp(m, x) # side
      BY <1>1, <1>3, <2>2, NotNull DEF Neighbour
    <3> QED
      BY <1>1, <2>2, <3>1
  <2>3. CASE y # NULL
    <3>1. \A m \in S : Cmp(m, x) = side => m = y \/ Cmp(m, y) = side
      BY <1>1, <2>3 DEF Neighbour
    <3>2. \A m \in S : Cmp(m, y) = side => Cmp(m, x) = side
      BY <1>1, <1>3, <1>6, <2>3, CmpTransitive
    <3>3. ASSUME NEW m \in S PROVE m \in B <=> m \in {x} \cup A
      <4>1. CASE m = x
        BY <4>1
      <4>2. CASE m # x
        BY <1>6, <2>3, <3>1, <3>2, <4>2
      <4> QED
        BY <4>1, <4>2
    <3>4. B \subseteq S /\ {x} \cup A \subseteq S
      BY <1>1
    <3> QED
      BY <3>3, <3>4
  <2> QED
    BY <2>2, <2>3
<1>8. /\ Len(s) \in Nat /\ z \in Seq(Node) /\ Len(z) = Len(s) + 1 /\ z[Len(s) + 1] = x
      /\ \A i \in 1..Len(s) : z[i] = s[i]
  BY <1>1, <1>3, AppendProperties
<1> HIDE DEF z
<1>9. ASSUME NEW i \in 1..(Len(z) - 1) PROVE Cmp(z[i + 1], z[i]) = side
  <2>1. CASE i = Len(s)
    <3>1. z[i] = s[Len(s)] /\ z[i + 1] = x /\ Len(s) > 0
      BY <1>8, <2>1
    <3> QED
      BY <1>1, <3>1
  <2>2. CASE i # Len(s)
    <3>1. i \in 1..(Len(s) - 1) /\ i \in 1..Len(s) /\ i + 1 \in 1..Len(s)
      BY <1>8, <2>2
    <3> QED
      BY <1>5, <1>8, <3>1
  <2> QED
    BY <2>1, <2>2
<1>10. {z[i] : i \in 1..Len(z)} = {s[i] : i \in 1..Len(s)} \cup {x}
  <2>1. \A i \in 1..Len(z) : i = Len(s) + 1 \/ i \in 1..Len(s)
    BY <1>8
  <2>2. Len(s) + 1 \in 1..Len(z) /\ \A i \in 1..Len(s) : i \in 1..Len(z)
    BY <1>8
  <2> QED
    BY <1>8, <2>1, <2>2
<1> HIDE DEF A, B, s, x, y, y1, S, side, T
<1>11. {z[i] : i \in 1..Len(z)} \cup A = walk'.from
  BY <1>2, <1>5, <1>7, <1>10
<1>12. RbWalkComplete'
  <2>1. (IF walk.x = NULL THEN {} ELSE Ahead(walk.x, walk.side))' = A
    BY <1>2 DEF A, Ahead
  <2> QED
    BY <1>2, <1>9, <1>11, <2>1 DEF RbWalkComplete
<1>13. ASSUME y # NULL PROVE Neighbour(T, y, side, y1)
  <2>1. y \in T /\ y1 = RB_STEP(rb', y, side)
    BY <1>6, <1>13 DEF y1
  <2> DEFINE t == rb'
  <2>2. RbOk(t, T) /\ y1 = RB_STEP(t, y, side)
    BY <1>4, <2>1
  <2> HIDE DEF t
  <2> QED
    BY <1>1, <2>1, <2>2, RbNextIs
<1>14. y # NULL => Neighbour(linked, walk.x, walk.side, walk.y)' /\ Cmp(y, z[Len(z)]) = side
  BY <1>2, <1>6, <1>8, <1>13
<1>15. RbWalking'
  BY <1>1, <1>2, <1>6, <1>8, <1>12, <1>14 DEF RbWalking
<1> QED
  BY <1>2, <1>4, <1>15 DEF RbKept

\* Every step keeps the invariant.
LEMMA RbStep == RbKept /\ [RbNext]_rbVars => RbKept'
<1> SUFFICES ASSUME RbKept, [RbNext]_rbVars PROVE RbKept'
  OBVIOUS
<1>1. ASSUME NEW n \in Node, RbAdd(n) PROVE RbKept'
  BY <1>1, RbAddStep
<1>2. ASSUME NEW n \in Node, RbDrop(n) PROVE RbKept'
  BY <1>2, RbDropStep
<1>3. ASSUME NEW side \in Sides, NEW x \in Node, RbForeach(side, x) PROVE RbKept'
  BY <1>3, RbForeachStep
<1>4. ASSUME NEW remove \in BOOLEAN, RbBody(remove) PROVE RbKept'
  BY <1>4, RbBodyStep
<1>5. CASE RbEndForeach
  BY <1>5, NotWalking DEF RbEndForeach, RbKept
<1>6. CASE UNCHANGED rbVars
  BY <1>6 DEF rbVars, RbKept, RbWalking, RbWalkComplete, Ahead
<1> QED
  BY <1>1, <1>2, <1>3, <1>4, <1>5, <1>6 DEF RbNext

\* The tree stays a red-black tree of exactly the elements it was told to hold,
\* whatever is inserted and removed.
THEOREM RbTreeAlways == RbSpec => []RbTreeKept
<1>1. RbInit => RbKept
  BY RbStarts
<1>2. RbKept /\ [RbNext]_rbVars => RbKept'
  BY RbStep
<1>3. RbKept => RbTreeKept
  BY RbOkKept DEF RbKept, RbTreeKept
<1> QED
  BY <1>1, <1>2, <1>3, PTL DEF RbSpec

\* Every lookup answers as the set of the elements would.
THEOREM RbLookupsAlways == RbSpec => []RbLookups
<1>1. RbInit => RbKept
  BY RbStarts
<1>2. RbKept /\ [RbNext]_rbVars => RbKept'
  BY RbStep
<1>3. ASSUME RbKept PROVE RbLookups
  <2> DEFINE t == rb
             S == linked
  <2>1. RbOk(t, S)
    BY <1>3 DEF RbKept
  <2> HIDE DEF t, S
  <2>2. /\ RB_MINMAX(t, "left") = Least(S) /\ RB_MINMAX(t, "right") = Greatest(S)
        /\ \A n \in Node :
             /\ RB_FIND(t, n) = Least(SameKey(S, n))
             /\ RB_NFIND(t, n) = Least({m \in S : Key[m] >= Key[n]})
        /\ \A n \in S :
             /\ RB_STEP(t, n, "right") = Least({m \in S : Key[m] > Key[n]})
             /\ RB_STEP(t, n, "left") = Greatest({m \in S : Key[m] < Key[n]})
    BY <2>1, RbOkLookups
  <2> QED
    BY <2>2 DEF t, S, RbLookups
<1> QED
  BY <1>1, <1>2, <1>3, PTL DEF RbSpec

\* A loop that may remove each element it is given misses none and repeats none.
THEOREM RbWalksAlways == RbSpec => []RbWalkComplete
<1>1. RbInit => RbKept
  BY RbStarts
<1>2. RbKept /\ [RbNext]_rbVars => RbKept'
  BY RbStep
<1>3. RbKept => RbWalkComplete
  BY DEF RbKept, RbWalking
<1> QED
  BY <1>1, <1>2, <1>3, PTL DEF RbSpec
=============================================================================
