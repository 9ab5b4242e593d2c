------------------------------- MODULE RbTree -------------------------------
(***************************************************************************)
(* The red-black tree of 009/include/uv/tree.h (RB_GENERATE and the macros *)
(* around it), which the server's event loop library brings along.  A tree *)
(* is a record of what its memory holds: the root and, per element, the    *)
(* four fields of RB_ENTRY.                                                *)
(***************************************************************************)
EXTENDS BinaryTree

VARIABLES
  rb,       \* the tree
  linked,   \* the elements it was told to hold
  walk      \* the RB_FOREACH_..._SAFE loop in progress

rbVars == <<rb, linked, walk>>

\* What the memory of a tree can hold.
RbMemory ==
  [root : NodeOrNull, child : [Sides -> [Node -> NodeOrNull]],
   parent : [Node -> NodeOrNull], color : [Node -> {"red", "black"}]]

RbEmpty ==
  [root |-> NULL, child |-> [side \in Sides |-> [n \in Node |-> NULL]],
   parent |-> [n \in Node |-> NULL], color |-> [n \in Node |-> "black"]]

NoWalk == [side |-> "right", x |-> NULL, y |-> NULL, from |-> {}, seen |-> <<>>]

RbInit == rb = RbEmpty /\ linked = {} /\ walk = NoWalk

-----------------------------------------------------------------------------
(* Fields                                                                  *)

Red(t, n) == n # NULL /\ t.color[n] = "red"

Paint(t, n, c) == IF n = NULL THEN t ELSE [t EXCEPT !.color[n] = c]

RB_SET_BLACKRED(t, black, red) == Paint(Paint(t, black, "black"), red, "red")

SetParent(t, n, p) == IF n = NULL THEN t ELSE [t EXCEPT !.parent[n] = p]

\* p, or the head if p is null, refers to new where it referred to old.
Replace(t, p, old, new) ==
  IF p = NULL THEN SetRoot(t, new)
  ELSE SetChild(t, IF t.child["left"][p] = old THEN "left" ELSE "right", p, new)

\* Mutant: the subtree that changes sides keeps its parent.
RotateKeepsParent(t, side, elm) ==
  LET tmp == t.child[Other(side)][elm]
      inner == t.child[side][tmp]
      moved == SetParent(SetChild(t, Other(side), elm, inner), tmp, t.parent[elm])
      up == Replace(moved, t.parent[elm], elm, tmp)
  IN  SetParent(SetChild(up, side, tmp, elm), elm, tmp)

\* RB_ROTATE_LEFT and RB_ROTATE_RIGHT.
RB_ROTATE(t, side, elm) ==
  LET tmp == t.child[Other(side)][elm]
      inner == t.child[side][tmp]
      moved == SetParent(SetParent(SetChild(t, Other(side), elm, inner), inner, elm),
                         tmp, t.parent[elm])
      up == Replace(moved, t.parent[elm], elm, tmp)
  IN  SetParent(SetChild(up, side, tmp, elm), elm, tmp)

-----------------------------------------------------------------------------
(* Lookups                                                                 *)

RB_MINMAX(t, side) == Extreme(t, t.root, side)

\* The descent of RB_INSERT and RB_FIND: where it ends, and the element above.
Descend(t, elm) ==
  Loop([d \in [at : NodeOrNull, parent : NodeOrNull] |->
          IF d.at = NULL \/ Cmp(elm, d.at) = "here" THEN d
          ELSE [at |-> t.child[Cmp(elm, d.at)][d.at], parent |-> d.at]],
       [at |-> t.root, parent |-> NULL])

RB_FIND(t, elm) == Descend(t, elm).at

\* Mutant: the least element passed on the way down is remembered too late.
NFindLate(t, elm, d) ==
  IF d.tmp = NULL \/ Cmp(elm, d.tmp) = "here" THEN d
  ELSE LET next == t.child[Cmp(elm, d.tmp)][d.tmp]
       IN  [tmp |-> next, res |-> IF Cmp(elm, d.tmp) = "left" THEN next ELSE d.res]

\* A turn of the loop of RB_NFIND.
NFind(t, elm, d) ==
  IF d.tmp = NULL \/ Cmp(elm, d.tmp) = "here" THEN d
  ELSE [tmp |-> t.child[Cmp(elm, d.tmp)][d.tmp],
        res |-> IF Cmp(elm, d.tmp) = "left" THEN d.tmp ELSE d.res]

RB_NFIND(t, elm) ==
  LET d == Loop([d \in [tmp : NodeOrNull, res : NodeOrNull] |-> NFind(t, elm, d)],
                [tmp |-> t.root, res |-> NULL])
  IN  IF d.tmp = NULL THEN d.res ELSE d.tmp

\* The first ancestor of elm that has it on the other side.
Climb(t, elm, side) ==
  LET top == Loop([x \in Node |->
                     IF t.parent[x] # NULL /\ x = t.child[side][t.parent[x]] THEN t.parent[x] ELSE x],
                  elm)
  IN  t.parent[top]

\* RB_NEXT (side "right") and RB_PREV (side "left").
RB_STEP(t, elm, side) ==
  IF t.child[side][elm] # NULL THEN Extreme(t, t.child[side][elm], Other(side))
  ELSE Climb(t, elm, side)

-----------------------------------------------------------------------------
(* Insertion                                                               *)

\* A turn of the loop of RB_INSERT_COLOR.
InsertTurn(t, elm) ==
  LET parent == t.parent[elm]
      gparent == t.parent[parent]
      side == IF parent = t.child["left"][gparent] THEN "left" ELSE "right"
      uncle == t.child[Other(side)][gparent]
      inner == t.child[Other(side)][parent] = elm
      outer == IF inner THEN RB_ROTATE(t, side, parent) ELSE t
      top == IF inner THEN elm ELSE parent
      low == IF inner THEN parent ELSE elm
  IN  CASE ~Red(t, parent) -> [tree |-> t, elm |-> elm]
        [] Red(t, parent) /\ Red(t, uncle) ->
             [tree |-> RB_SET_BLACKRED(Paint(t, uncle, "black"), parent, gparent), elm |-> gparent]
        [] OTHER ->
             [tree |-> RB_ROTATE(RB_SET_BLACKRED(outer, top, gparent), Other(side), gparent),
              elm |-> low]

RB_INSERT_COLOR(t, elm) ==
  LET last == Loop([s \in [tree : RbMemory, elm : Node] |-> InsertTurn(s.tree, s.elm)],
                   [tree |-> t, elm |-> elm])
  IN  Paint(last.tree, last.tree.root, "black")

\* RB_SET: a new element is red and has no children.
RB_SET(t, elm, p) ==
  [t EXCEPT !.parent[elm] = p, !.color[elm] = "red",
            !.child = [side \in Sides |-> [t.child[side] EXCEPT ![elm] = NULL]]]

\* The tree after RB_INSERT, which leaves it alone when it returns an element
\* with the same key instead of NULL.
RB_INSERT(t, elm) ==
  LET d == Descend(t, elm)
      set == RB_SET(t, elm, d.parent)
      put == IF d.parent = NULL THEN SetRoot(set, elm)
             ELSE SetChild(set, Cmp(elm, d.parent), d.parent, elm)
  IN  IF d.at # NULL THEN t ELSE RB_INSERT_COLOR(put, elm)

-----------------------------------------------------------------------------
(* Removal                                                                 *)

\* tmp has a red child: it is brought to the far side and the loop ends.
RemoveLast(t, parent, side) ==
  LET far == Other(side)
      tmp == t.child[far][parent]
      u == IF Red(t, t.child[far][tmp]) THEN t
           ELSE RB_ROTATE(Paint(Paint(t, t.child[side][tmp], "black"), tmp, "red"), far, tmp)
      sib == u.child[far][parent]
      v == Paint(Paint(Paint(u, sib, u.color[parent]), parent, "black"), u.child[far][sib], "black")
  IN  RB_ROTATE(v, side, parent)

\* A turn of the loop of RB_REMOVE_COLOR.
RemoveTurn(t, parent, elm) ==
  LET side == IF t.child["left"][parent] = elm THEN "left" ELSE "right"
      far == Other(side)
      s == IF ~Red(t, t.child[far][parent]) THEN t
           ELSE RB_ROTATE(RB_SET_BLACKRED(t, t.child[far][parent], parent), side, parent)
      tmp == s.child[far][parent]
      last == RemoveLast(s, parent, side)
  IN  CASE Red(t, elm) \/ elm = t.root -> [tree |-> t, parent |-> parent, elm |-> elm]
        [] ~(Red(t, elm) \/ elm = t.root) /\ \A i \in Sides : ~Red(s, s.child[i][tmp]) ->
             [tree |-> Paint(s, tmp, "red"), parent |-> s.parent[parent], elm |-> parent]
        [] OTHER -> [tree |-> last, parent |-> parent, elm |-> last.root]

RB_REMOVE_COLOR(t, parent, elm) ==
  LET turn == [s \in [tree : RbMemory, parent : NodeOrNull, elm : NodeOrNull] |->
                 RemoveTurn(s.tree, s.parent, s.elm)]
      last == Loop(turn, [tree |-> t, parent |-> parent, elm |-> elm])
  IN  Paint(last.tree, last.elm, "black")

\* elm, which has at most one child, is taken out of the tree.
Unlink(t, elm) ==
  LET child == IF t.child["left"][elm] = NULL THEN t.child["right"][elm] ELSE t.child["left"][elm]
  IN  Replace(SetParent(t, child, t.parent[elm]), t.parent[elm], elm, child)

\* elm takes over the four fields of old and its place.
TakeOver(t, old, elm) ==
  LET copy == [t EXCEPT !.parent[elm] = t.parent[old], !.color[elm] = t.color[old],
                        !.child = [side \in Sides |->
                                     [t.child[side] EXCEPT ![elm] = t.child[side][old]]]]
      put == Replace(copy, t.parent[old], old, elm)
  IN  SetParent(SetParent(put, t.child["left"][old], elm), t.child["right"][old], elm)

\* An element with two children is replaced by its successor; what the
\* successor's place loses decides about repainting.
RB_REMOVE(t, old) ==
  LET two == \A side \in Sides : t.child[side][old] # NULL
      elm == IF two THEN Extreme(t, t.child["right"][old], "left") ELSE old
      child == IF t.child["left"][elm] = NULL THEN t.child["right"][elm] ELSE t.child["left"][elm]
      parent == IF two /\ t.parent[elm] = old THEN elm ELSE t.parent[elm]
      new == IF two THEN TakeOver(Unlink(t, elm), old, elm) ELSE Unlink(t, elm)
  IN  IF t.color[elm] = "black" THEN RB_REMOVE_COLOR(new, parent, child) ELSE new

\* The owner of a removed element frees it: its fields mean nothing any more.
Freed(t, n) ==
  [t EXCEPT !.parent[n] = NULL, !.color[n] = "black",
            !.child = [side \in Sides |-> [t.child[side] EXCEPT ![n] = NULL]]]

-----------------------------------------------------------------------------
(* A program that uses a tree                                              *)

Idle == walk = NoWalk

RbAdd(n) ==
  /\ Idle /\ n \notin linked
  /\ rb' = RB_INSERT(rb, n)
  /\ linked' = IF RB_FIND(rb, n) = NULL THEN linked \cup {n} ELSE linked
  /\ UNCHANGED walk

RbDrop(n) ==
  /\ Idle /\ n \in linked
  /\ rb' = Freed(RB_REMOVE(rb, n), n)
  /\ linked' = linked \ {n}
  /\ UNCHANGED walk

\* The elements not yet passed by a loop that is at x.
Ahead(x, side) == {n \in linked : n = x \/ Cmp(n, x) = side}

\* RB_FOREACH_SAFE, _REVERSE_SAFE from the end, _FROM and _REVERSE_FROM from x:
\* y is the element after x before the body of the loop runs.
RbForeach(side, x) ==
  /\ Idle /\ linked # {}
  /\ x \in linked \cup {RB_MINMAX(rb, Other(side))}
  /\ walk' = [side |-> side, x |-> x, y |-> RB_STEP(rb, x, side),
              from |-> Ahead(x, side), seen |-> <<>>]
  /\ UNCHANGED <<rb, linked>>

\* Mutant: RB_FOREACH instead, where the body may free the element.
RbBodyUnsafe(remove) ==
  /\ ~Idle /\ walk.x # NULL
  /\ rb' = IF remove THEN Freed(RB_REMOVE(rb, walk.x), walk.x) ELSE rb
  /\ linked' = IF remove THEN linked \ {walk.x} ELSE linked
  /\ walk' = [walk EXCEPT !.x = RB_STEP(rb', walk.x, walk.side),
                          !.y = NULL, !.seen = Append(@, walk.x)]

\* The body, which may remove x, and the step to y.
RbBody(remove) ==
  /\ ~Idle /\ walk.x # NULL
  /\ rb' = IF remove THEN Freed(RB_REMOVE(rb, walk.x), walk.x) ELSE rb
  /\ linked' = IF remove THEN linked \ {walk.x} ELSE linked
  /\ walk' = [walk EXCEPT !.x = walk.y,
                          !.y = IF walk.y = NULL THEN NULL ELSE RB_STEP(rb', walk.y, walk.side),
                          !.seen = Append(@, walk.x)]

RbEndForeach == ~Idle /\ walk.x = NULL /\ walk' = NoWalk /\ UNCHANGED <<rb, linked>>

RbNext ==
  \/ \E n \in Node : RbAdd(n) \/ RbDrop(n)
  \/ \E side \in Sides, x \in Node : RbForeach(side, x)
  \/ \E remove \in BOOLEAN : RbBody(remove)
  \/ RbEndForeach

RbSpec == RbInit /\ [][RbNext]_rbVars

-----------------------------------------------------------------------------
(* Properties                                                              *)

\* The numbers of black elements on the paths down from each element.
BlackHeights(t) ==
  LET deeper == [heights \in [NodeOrNull -> SUBSET Nat] |->
                   [n \in NodeOrNull |->
                      IF n = NULL THEN {0}
                      ELSE {h + (IF Red(t, n) THEN 0 ELSE 1) :
                              h \in heights[t.child["left"][n]] \cup heights[t.child["right"][n]]}]]
  IN  Loop(deeper, [n \in NodeOrNull |-> {0}])

\* The tree holds exactly the elements inserted and not removed, in the order of
\* their keys, and parent and child pointers agree, after any sequence of
\* rotations (RB_ROTATE_LEFT, RB_ROTATE_RIGHT and the splicing of RB_REMOVE); and
\* "every search path from the root to a leaf consists of the same number of
\* black nodes, each red node (except for the root) has a black parent"
\* (tree.h:55), which repainting must restore after every operation.
RbTreeKept ==
  /\ Holds(rb, rb.root, linked)
  /\ \A n \in linked, side \in Sides : rb.child[side][n] # NULL => rb.parent[rb.child[side][n]] = n
  /\ rb.root # NULL => rb.parent[rb.root] = NULL
  /\ Cardinality(BlackHeights(rb)[rb.root]) = 1
  /\ \A n \in linked : Red(rb, n) => ~Red(rb, rb.parent[n])

\* RB_FIND, RB_NFIND ("the first node greater than or equal to the search key",
\* tree.h:646), RB_NEXT, RB_PREV, RB_MIN and RB_MAX answer as the set would.
RbLookups ==
  /\ RB_MINMAX(rb, "left") = Least(linked) /\ RB_MINMAX(rb, "right") = Greatest(linked)
  /\ \A n \in Node :
       /\ RB_FIND(rb, n) = Least(SameKey(linked, n))
       /\ RB_NFIND(rb, n) = Least({m \in linked : Key[m] >= Key[n]})
  /\ \A n \in linked :
       /\ RB_STEP(rb, n, "right") = Least({m \in linked : Key[m] > Key[n]})
       /\ RB_STEP(rb, n, "left") = Greatest({m \in linked : Key[m] < Key[n]})

\* A loop of the SAFE or FROM kind visits every element from its start on once
\* and in order, even if its body removes each element it is given.
RbWalkComplete ==
  LET s == walk.seen IN
  /\ \A i \in 1..(Len(s) - 1) : Cmp(s[i + 1], s[i]) = walk.side
  /\ {s[i] : i \in 1..Len(s)} \cup (IF walk.x = NULL THEN {} ELSE Ahead(walk.x, walk.side)) = walk.from
=============================================================================
