----------------------------- MODULE SplayTree -----------------------------
(***************************************************************************)
(* The splay tree of 009/include/uv/tree.h (SPLAY_GENERATE and the macros  *)
(* around it).  The record holds the root and the two fields of            *)
(* SPLAY_ENTRY, also those of the local __node of SPLAY, called Header.    *)
(***************************************************************************)
EXTENDS BinaryTree

VARIABLES
  sp,       \* the tree
  members,  \* the elements it was told to hold
  scan      \* the SPLAY_FOREACH loop in progress

spVars == <<sp, members, scan>>

Header == -1

\* What the memory of a tree can hold.
SpMemory == [root : NodeOrNull, child : [Sides -> [Node \cup {Header} -> NodeOrNull]]]

SpEmpty ==
  [root |-> NULL, child |-> [side \in Sides |-> [n \in Node \cup {Header} |-> NULL]]]

NoScan == [x |-> NULL, seen |-> <<>>]

SpInit == sp = SpEmpty /\ members = {} /\ scan = NoScan

-----------------------------------------------------------------------------
(* Splaying                                                                *)

\* SPLAY_ROTATE_RIGHT (side "left") and SPLAY_ROTATE_LEFT: the root's child on
\* that side becomes the root.
SPLAY_ROTATE(t, side) ==
  LET tmp == t.child[side][t.root]
  IN  SetRoot(SetChild(SetChild(t, side, t.root, t.child[Other(side)][tmp]),
                       Other(side), tmp, t.root), tmp)

\* SPLAY_ASSEMBLE: what was set aside becomes the two subtrees of the root.
SPLAY_ASSEMBLE(t, end) ==
  LET hung == SetChild(SetChild(t, "right", end["left"], t.child["left"][t.root]),
                       "left", end["right"], t.child["right"][t.root])
      put == SetChild(SetChild(hung, "left", t.root, hung.child["right"][Header]),
                      "right", t.root, hung.child["left"][Header])
  IN  SetChild(SetChild(put, "left", Header, NULL), "right", Header, NULL)

\* A turn of the loop of SPLAY and SPLAY_MINMAX.  dir is the sign of __comp at each
\* element; SPLAY_LINKLEFT and _LINKRIGHT hang the root on the other side's end.
SplayTurn(s, dir) ==
  LET t == s.tree
      side == dir[t.root]
      away == Other(side)
  IN  IF side = "here" \/ t.child[side][t.root] = NULL THEN s
      ELSE
        LET u == IF dir[t.child[side][t.root]] = side THEN SPLAY_ROTATE(t, side) ELSE t
            next == u.child[side][u.root]
        IN  IF next = NULL THEN [s EXCEPT !.tree = u]
            ELSE [tree |-> SetRoot(SetChild(u, side, s.end[away], u.root), next),
                  end |-> [s.end EXCEPT ![away] = u.root]]

Splayed(t, dir) ==
  LET turn == [s \in [tree : SpMemory, end : [Sides -> Node \cup {Header}]] |-> SplayTurn(s, dir)]
      last == Loop(turn, [tree |-> t, end |-> [side \in Sides |-> Header]])
  IN  SPLAY_ASSEMBLE(last.tree, last.end)

SPLAY(t, elm) == Splayed(t, [n \in Node |-> Cmp(elm, n)])

SPLAY_MINMAX(t, side) == Splayed(t, [n \in Node |-> side])

-----------------------------------------------------------------------------
(* Operations, by the tree they leave behind                               *)

SPLAY_FIND(t, elm) == IF t.root = NULL THEN t ELSE SPLAY(t, elm)

SPLAY_MIN_MAX(t, side) == IF t.root = NULL THEN t ELSE SPLAY_MINMAX(t, side)

\* The element SPLAY_FIND returns.
Found(t, elm) ==
  LET u == SPLAY_FIND(t, elm)
  IN  IF t.root # NULL /\ Cmp(elm, u.root) = "here" THEN u.root ELSE NULL

\* The element SPLAY_NEXT returns after splaying elm, which is in the tree.
Following(t, elm) ==
  LET u == SPLAY(t, elm) IN Extreme(u, u.child["right"][elm], "left")

\* A root with the key of elm is kept and returned.
SPLAY_INSERT(t, elm) ==
  IF t.root = NULL
    THEN SetRoot(SetChild(SetChild(t, "left", elm, NULL), "right", elm, NULL), elm)
  ELSE
    LET u == SPLAY(t, elm)
        side == Cmp(elm, u.root)
    IN  IF side = "here" THEN u
        ELSE LET over == SetChild(SetChild(u, side, elm, u.child[side][u.root]),
                                  Other(side), elm, u.root)
             IN  SetRoot(SetChild(over, side, u.root, NULL), elm)

\* Mutant: the left subtree is not splayed before the right one is hung on it.
RemoveUnsplayed(t, elm) ==
  IF t.root = NULL THEN t
  ELSE
    LET u == SPLAY(t, elm)
        low == u.child["left"][u.root]
        high == u.child["right"][u.root]
    IN  CASE Cmp(elm, u.root) # "here" -> u
          [] Cmp(elm, u.root) = "here" /\ low = NULL -> SetRoot(u, high)
          [] OTHER -> SetChild(SetRoot(u, low), "right", low, high)

\* The left subtree is splayed at elm, whose key is above all of it, so that
\* its root has no right child when the right subtree is hung there.
SPLAY_REMOVE(t, elm) ==
  IF t.root = NULL THEN t
  ELSE
    LET u == SPLAY(t, elm)
        low == u.child["left"][u.root]
        high == u.child["right"][u.root]
    IN  CASE Cmp(elm, u.root) # "here" -> u
          [] Cmp(elm, u.root) = "here" /\ low = NULL -> SetRoot(u, high)
          [] OTHER -> LET v == SPLAY(SetRoot(u, low), elm) IN SetChild(v, "right", v.root, high)

-----------------------------------------------------------------------------
(* A program that uses a tree                                              *)

\* Its owner frees an element that has left the tree.
Dead(t, S) ==
  [t EXCEPT !.child = [side \in Sides |->
     [n \in Node \cup {Header} |-> IF n \in S THEN NULL ELSE t.child[side][n]]]]

SpAdd(n) ==
  /\ scan = NoScan /\ n \notin members
  /\ sp' = SPLAY_INSERT(sp, n)
  /\ members' = IF Found(sp, n) = NULL THEN members \cup {n} ELSE members
  /\ UNCHANGED scan

\* elm need only have the key of the element that is to go.
SpDrop(elm) ==
  /\ scan = NoScan
  /\ LET gone == SameKey(members, elm) IN
     /\ sp' = Dead(SPLAY_REMOVE(sp, elm), gone)
     /\ members' = members \ gone
  /\ UNCHANGED scan

SpLookup ==
  /\ scan = NoScan
  /\ \/ \E n \in Node : sp' = SPLAY_FIND(sp, n)
     \/ \E side \in Sides : sp' = SPLAY_MIN_MAX(sp, side)
  /\ UNCHANGED <<members, scan>>

SpForeach ==
  /\ scan = NoScan /\ sp.root # NULL
  /\ sp' = SPLAY_MINMAX(sp, "left")
  /\ scan' = [x |-> sp'.root, seen |-> <<>>]
  /\ UNCHANGED members

\* The body looks something up, or does not; then SPLAY_NEXT.
SpBody ==
  /\ scan.x # NULL
  /\ \E t \in {sp} \cup {SPLAY_FIND(sp, n) : n \in Node} :
       /\ sp' = SPLAY(t, scan.x)
       /\ scan' = [x |-> Following(t, scan.x), seen |-> Append(scan.seen, scan.x)]
  /\ UNCHANGED members

SpEndForeach ==
  /\ scan.x = NULL /\ scan # NoScan
  /\ scan' = NoScan
  /\ UNCHANGED <<sp, members>>

SpNext ==
  \/ \E n \in Node : SpAdd(n) \/ SpDrop(n)
  \/ SpLookup \/ SpForeach \/ SpBody \/ SpEndForeach

SpSpec == SpInit /\ [][SpNext]_spVars

-----------------------------------------------------------------------------
(* Properties                                                              *)

\* SPLAY_FOREACH, each step of which rebuilds the tree it walks, visits every
\* element once and in order, even if its body splays other ones to the root.
SpWalkComplete ==
  LET s == scan.seen IN
  /\ \A i \in 1..(Len(s) - 1) : Key[s[i]] < Key[s[i + 1]]
  /\ scan # NoScan =>
       {s[i] : i \in 1..Len(s)}
         \cup {n \in members : scan.x # NULL /\ Key[n] >= Key[scan.x]} = members

\* "Every operation on the tree causes a splay" (tree.h:41), the lookups too:
\* the tree still holds exactly the elements inserted and not removed, in the
\* order of their keys, and nothing of the local __node is left in it.  "The
\* splay moves the requested node to the root of the tree" (tree.h:42): whatever
\* is asked for is found exactly if it is there, and is the root after; and no
\* loop over the tree misses an element.
SpTreeKept ==
  /\ SpWalkComplete
  /\ Holds(sp, sp.root, members) /\ \A side \in Sides : sp.child[side][Header] = NULL
  /\ \A n \in Node :
       /\ Found(sp, n) = Least(SameKey(members, n))
       /\ n \in members => SPLAY_FIND(sp, n).root = n
       /\ n \in members => Following(sp, n) = Least({m \in members : Key[m] > Key[n]})
  /\ SPLAY_MIN_MAX(sp, "left").root = Least(members)
  /\ SPLAY_MIN_MAX(sp, "right").root = Greatest(members)
=============================================================================
