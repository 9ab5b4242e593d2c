----------------------------- MODULE RmrfProofs -----------------------------
(***************************************************************************)
(* Proofs about 004/rmrf.cpp, for any number of processes and any tree.    *)
(***************************************************************************)
EXTENDS Rmrf, SequenceTheorems, FiniteSetTheorems, WellFoundedInduction, TLAPS

-----------------------------------------------------------------------------
(* The inductive invariants                                                *)

\* A file has a higher number than its directory, which has existed; what
\* another program creates are regular files.
TreeInv ==
  /\ Old \subseteq born
  /\ \A n \in File : parent[n] < n /\ parent[n] \in born \cup {Root}
  /\ \A n \in Late : kind[n] = "reg"

\* What an activation works on, and what it knows of it.
FrameOK(f) ==
  /\ f.path_c \in Reach \cap born
  /\ f.at # "access" => Resolved(f.path_c) \in File
  /\ f.at = "unlink" => kind[Resolved(f.path_c)] = "reg"
  /\ f.at \in {"opendir", "readdir", "rmdir"} => kind[Resolved(f.path_c)] = "dir"
  /\ f.at = "rmdir" => ~f.base
  /\ f.must \subseteq born /\ \A e \in f.must : parent[e] = Resolved(f.path_c)
  /\ Starred => f.path_c \notin Hidden /\ (f.path_c = Top => f.base)

StackInv == \A p \in Actor : \A i \in 1..Len(stack[p]) : FrameOK(stack[p][i])

RmrfInv == Confined /\ TreeInv /\ StackInv

\* Entries are in directories, and what exists is in one that exists.
DirInv ==
  \A n \in File :
    /\ n \notin born => parent[n] = Root
    /\ parent[n] # Root => kind[parent[n]] = "dir" /\ (n \in live => parent[n] \in live)

\* An activation but the last reads a directory; the next is for an entry of it,
\* or for that directory again because of an entry "*".
Shape(s) ==
  \A i \in 1..Len(s) :
    /\ i < Len(s) => s[i].at = "readdir"
    /\ IF i = 1 THEN s[i].path_c = Top /\ s[i].base = star
       ELSE IF s[i].base THEN s[i].path_c = s[i - 1].path_c
       ELSE parent[s[i].path_c] = Resolved(s[i - 1].path_c)

ShapeInv == \A p \in Actor : Shape(stack[p])

\* The entries for which activation f has yet to call rmrf.
Todo(f) ==
  {e \in File :
     /\ parent[e] = f.path_c /\ ~(f.base /\ name[e] = "hidden")
     /\ f.at \in {"access", "stat", "opendir", "readdir"}
     /\ f.at = "readdir" => e \in f.must \ f.seen}

\* f has not come to n yet, or not finished with it.
InHand(f, n) ==
  \/ n = f.path_c /\ ~f.base
  \/ \E e \in Todo(f) : n \in {e} \cup Below(e)

\* There is no link on the path to the i-th activation.
Direct(s, i) == \A j \in 1..(i - 1) : kind[s[j].path_c] # "link"

InHands(s, n) == \E i \in 1..Len(s) : Direct(s, i) /\ InHand(s[i], n)

Handles(p, n) == InHands(stack[p], n)

Unlinks(p, m) == At(p, "unlink") /\ Now(p).path_c = m

\* A link whose target was found is unlinked before it has been given up,
\* whichever path led to it.
UnlinkInv ==
  \A p \in Actor, m \in Left :
    Unlinks(p, m) /\ kind[m] = "link" => Handles(p, m) \/ Kept(m)

\* Each process has yet to come to what is left, or it is excused.
LeftInv ==
  \A n \in Left :
    /\ \A p \in Actor \ crashed : Excused(n) \/ Emptied(n) \/ Handles(p, n)
    /\ crashed = {} => Excused(n) \/ \E p \in Actor : Handles(p, n)

DoneInv == RmrfInv /\ DirInv /\ ShapeInv /\ UnlinkInv /\ LeftInv

-----------------------------------------------------------------------------
(* Proofs                                                                  *)

\* P gives the directory of each file, which has a lower number.
IsTree(P) == P \in [File -> File \cup {Root}] /\ \A n \in File : P[n] < n

\* S holds whatever is in d or in one of its members.
Closed(P, d, S) == \A n \in File : P[n] \in S \cup {d} => n \in S

\* The least such set.
Least(P, d) == {n \in File : \A S \in SUBSET File : Closed(P, d, S) => n \in S}

\* Below, of a given tree.
Under(P, d) ==
  LET in[n \in File] == P[n] = d \/ (P[n] # Root /\ in[P[n]])
  IN  {n \in File : in[n]}

\* The activations that are as the invariant says.
Good == {f \in Frame : FrameOK(f)}

-----------------------------------------------------------------------------
(* Trees                                                                   *)

\* The constants, without the sets they are members of.
LEMMA Constants ==
  /\ N \in Nat /\ Top \in Old /\ Top \in File /\ File \subseteq Nat
  /\ Root \notin File /\ Nowhere \notin File /\ Late \cap Old = {}
  /\ "plain" \in Name
BY RmrfAssumption DEF Root, Top, Old, File

\* A set of numbers has a least member.
LEMMA LeastNumber ==
  ASSUME NEW T, T \subseteq Nat, T # {}
  PROVE  \E x \in T : \A y \in T : ~(y < x)
<1>1. PICK x \in T : \A y \in T : <<y, x>> \notin OpToRel(<, Nat)
  BY NatLessThanWellFounded, WFMin
<1>2. \A y \in T : ~(y < x)
  BY <1>1 DEF OpToRel
<1> QED
  BY <1>2

\* What is in the least closed set is in d or in a member of it.
LEMMA LeastStep ==
  ASSUME NEW P, IsTree(P), NEW d \in File, NEW n \in File
  PROVE  n \in Least(P, d) <=> P[n] \in Least(P, d) \cup {d}
<1> DEFINE L == Least(P, d)
           S == {m \in File : P[m] \in L \cup {d}}
<1>1. \A m \in File : P[m] \in L \cup {d} => m \in L
  BY DEF Least, Closed
<1>2. ASSUME NEW m \in File, P[m] \in S \cup {d}
      PROVE  m \in S
  <2>1. P[m] \in S => P[m] \in L
    BY <1>1
  <2> QED
    BY <1>2, <2>1
<1>3. Closed(P, d, S)
  BY <1>2 DEF Closed
<1>4. n \in L => n \in S
  BY <1>3 DEF Least
<1> QED
  BY <1>1, <1>4

\* The recursive definition describes that set.
LEMMA UnderIsLeast ==
  ASSUME NEW P, IsTree(P), NEW d \in File
  PROVE  Under(P, d) = Least(P, d)
<1> DEFINE Holds(g) == g = [n \in File |-> P[n] = d \/ (P[n] # Root /\ g[P[n]])]
           f == [n \in File |-> n \in Least(P, d)]
           B == CHOOSE g : Holds(g)
           D == {n \in File : B[n] # f[n]}
<1>1. \A n \in File : P[n] \in File \cup {Root} /\ P[n] < n
  BY DEF IsTree
<1>2. \A n \in File : f[n] = (P[n] = d \/ (P[n] # Root /\ f[P[n]]))
  <2>1. \A n \in File : f[n] = (n \in Least(P, d))
    OBVIOUS
  <2>2. \A n \in File : (n \in Least(P, d)) = (P[n] = d \/ P[n] \in Least(P, d))
    BY LeastStep
  <2>3. Root \notin Least(P, d) /\ Root # d
    BY Constants DEF Least
  <2> HIDE DEF f
  <2> SUFFICES ASSUME NEW n \in File
               PROVE  f[n] = (P[n] = d \/ (P[n] # Root /\ f[P[n]]))
    OBVIOUS
  <2>4. CASE P[n] = Root
    BY <2>1, <2>2, <2>3, <2>4
  <2>5. CASE P[n] # Root
    <3>1. f[P[n]] = (P[n] \in Least(P, d))
      BY <1>1, <2>1, <2>5
    <3> QED
      BY <2>1, <2>2, <2>5, <3>1
  <2> QED
    BY <2>4, <2>5
<1>3. Holds(f)
  BY <1>2
<1>4. Holds(B)
  BY <1>3
<1>5. \A n \in File : B[n] = (P[n] = d \/ (P[n] # Root /\ B[P[n]]))
  BY <1>4
<1>6. Under(P, d) = {n \in File : B[n]}
  BY DEF Under
<1> HIDE DEF B, f
<1>7. D = {}
  <2> SUFFICES ASSUME D # {} PROVE FALSE
    OBVIOUS
  <2>1. D \subseteq Nat
    BY Constants
  <2>2. PICK x \in D : \A y \in D : ~(y < x)
    BY <2>1, LeastNumber
  <2>3. P[x] # Root => B[P[x]] = f[P[x]]
    BY <1>1, <2>2
  <2> QED
    BY <1>2, <1>5, <2>2, <2>3
<1>8. \A n \in File : f[n] = (n \in Least(P, d))
  BY DEF f
<1> QED
  BY <1>6, <1>7, <1>8 DEF Least

\* If one file without entries is moved, nothing else changes its place.
LEMMA OneMoved ==
  ASSUME NEW P, NEW Q, IsTree(P), IsTree(Q), NEW n \in File, NEW d \in File,
         \A m \in File : m # n => P[m] = Q[m] /\ Q[m] # n
  PROVE  Least(P, d) \subseteq Least(Q, d) \cup {n}
<1> DEFINE S == Least(Q, d) \cup {n}
<1>1. S \in SUBSET File
  BY DEF Least
<1>2. ASSUME NEW m \in File, P[m] \in S \cup {d}
      PROVE  m \in S
  <2>1. CASE m = n
    BY <2>1
  <2>2. CASE m # n
    <3>1. Q[m] \in Least(Q, d) \cup {d}
      BY <1>2, <2>2
    <3> QED
      BY <3>1, LeastStep
  <2> QED
    BY <2>1, <2>2
<1>3. Closed(P, d, S)
  BY <1>2 DEF Closed
<1> QED
  BY <1>1, <1>3 DEF Least

-----------------------------------------------------------------------------
(* Where rmrf may get to, and what it must leave                           *)

LEMMA TreeFacts ==
  ASSUME TypeOK, TreeInv
  PROVE  /\ IsTree(parent) /\ parent[Top] = Root
         /\ Linked \subseteq Old /\ Linked \subseteq File
         /\ \A d \in File : Below(d) = Least(parent, d)
<1>1. IsTree(parent)
  BY DEF TypeOK, TreeInv, IsTree
<1>2. parent[Top] = Root
  <2>1. parent[Top] \in File \cup {Root} /\ parent[Top] < Top
    BY Constants DEF TypeOK, TreeInv
  <2>2. \A x \in Nat : x < 1 => x = 0
    OBVIOUS
  <2>3. \A x \in File \cup {Root} : x \in Nat
    BY Constants DEF Root
  <2> QED
    BY <2>1, <2>2, <2>3 DEF Top, Root
<1>3. \A l \in Old : target[l] \in Old \cup {Nowhere}
  BY DEF TypeOK, File
<1>4. Linked \subseteq Old
  BY <1>3 DEF Linked
<1>5. \A d \in File : Below(d) = Least(parent, d)
  BY <1>1, UnderIsLeast DEF Below, Under
<1> QED
  BY <1>1, <1>2, <1>4, <1>5 DEF File

\* What is in a directory that rmrf may get to, itself or through a link.
LEMMA ReachClosed ==
  ASSUME TypeOK, TreeInv, NEW e \in File, parent[e] \in Reach \cup Linked
  PROVE  e \in Reach
<1>1. \A d \in File : parent[e] \in Below(d) \cup {d} => e \in Below(d)
  BY TreeFacts, LeastStep
<1> QED
  BY <1>1, TreeFacts, Constants DEF Reach

\* A hidden file is a hidden entry of Top or in a hidden directory.
LEMMA HiddenStep ==
  ASSUME TypeOK, TreeInv, NEW e \in Hidden
  PROVE  /\ e \in File
         /\ (parent[e] = Top /\ name[e] = "hidden") \/ parent[e] \in Hidden
<1> DEFINE top == {h \in Old : parent[h] = Top /\ name[h] = "hidden"}
<1>1. Hidden = top \cup UNION {Below(h) : h \in top}
  BY DEF Hidden
<1>2. top \subseteq File
  BY DEF File
<1>3. CASE e \in top
  BY <1>2, <1>3
<1>4. CASE e \notin top
  <2>1. PICK h \in top : e \in Below(h)
    BY <1>1, <1>4
  <2>2. e \in File /\ parent[e] \in Below(h) \cup {h}
    BY <1>2, <2>1, TreeFacts, LeastStep DEF Least
  <2>3. parent[e] \in Hidden
    BY <1>1, <2>2
  <2> QED
    BY <2>2, <2>3
<1> QED
  BY <1>3, <1>4

\* Top is not among them.
LEMMA TopIsNotHidden ==
  ASSUME TypeOK, TreeInv
  PROVE  Top \notin Hidden
<1>1. Root # Top /\ Root \notin Hidden
  <2>1. Root \in Hidden => Root \in File
    BY HiddenStep
  <2> QED
    BY <2>1, Constants
<1> QED
  BY <1>1, HiddenStep, TreeFacts

-----------------------------------------------------------------------------
(* Stacks                                                                  *)

\* A stack of frames whose members are in F.
LEMMA StackOf ==
  ASSUME NEW F, F \subseteq Frame, NEW s \in Seq(Frame)
  PROVE  (\A i \in 1..Len(s) : s[i] \in F) <=> s \in Seq(F)
<1>1. Len(s) \in Nat /\ s \in [1..Len(s) -> Frame]
  BY LenProperties
<1>2. ASSUME \A i \in 1..Len(s) : s[i] \in F
      PROVE  s \in Seq(F)
  <2>1. s \in [1..Len(s) -> F]
    BY <1>1, <1>2
  <2> QED
    BY <1>1, <2>1, SeqDef
<1>3. ASSUME s \in Seq(F), NEW i \in 1..Len(s)
      PROVE  s[i] \in F
  BY <1>3, ElementOfSeq
<1> QED
  BY <1>2, <1>3

\* What the steps do to the stack of a process.
LEMMA StackOps ==
  ASSUME NEW F, NEW s \in Seq(F), s # <<>>
  PROVE  /\ s[Len(s)] \in F
         /\ SubSeq(s, 1, Len(s) - 1) \in Seq(F)
         /\ \A f \in F : [s EXCEPT ![Len(s)] = f] \in Seq(F)
         /\ \A f, g \in F : Append([s EXCEPT ![Len(s)] = f], g) \in Seq(F)
<1> DEFINE n == Len(s)
<1>1. n \in Nat \ {0}
  BY EmptySeq
<1>2. \A i \in 1..n : s[i] \in F
  BY ElementOfSeq
<1>3. n \in 1..n /\ n - 1 \in Int
  BY <1>1
<1>4. \A i \in 1..(n - 1) : s[i] \in F
  BY <1>1, <1>2
<1>5. SubSeq(s, 1, n - 1) \in Seq(F)
  BY <1>3, <1>4, SubSeqProperties
<1>6. \A f \in F : [s EXCEPT ![n] = f] \in Seq(F)
  BY <1>3, ExceptSeq
<1>7. \A f, g \in F : Append([s EXCEPT ![n] = f], g) \in Seq(F)
  BY <1>6, AppendProperties
<1> QED
  BY <1>2, <1>3, <1>5, <1>6, <1>7

-----------------------------------------------------------------------------
(* The invariant is inductive                                              *)

\* The invariant in terms of the activations that are good.
LEMMA StackGood ==
  ASSUME TypeOK
  PROVE  StackInv <=> stack \in [Actor -> Seq(Good)]
<1>1. Good \subseteq Frame /\ stack \in [Actor -> Seq(Frame)]
  BY DEF Good, TypeOK
<1>2. ASSUME NEW p \in Actor
      PROVE  (\A i \in 1..Len(stack[p]) : FrameOK(stack[p][i])) <=> stack[p] \in Seq(Good)
  <2>1. \A i \in 1..Len(stack[p]) : stack[p][i] \in Frame
    BY <1>1, ElementOfSeq
  <2>2. \A i \in 1..Len(stack[p]) : FrameOK(stack[p][i]) <=> stack[p][i] \in Good
    BY <2>1 DEF Good
  <2> QED
    BY <1>1, <2>2, StackOf
<1> QED
  BY <1>1, <1>2 DEF StackInv

\* rmrf does not change where things are.
LEMMA SameTree ==
  ASSUME UNCHANGED <<tree, born, star>>
  PROVE  /\ Reach' = Reach /\ Hidden' = Hidden /\ Linked' = Linked
         /\ Starred' = Starred /\ Good' = Good /\ (TreeInv => TreeInv')
<1>1. /\ kind' = kind /\ parent' = parent /\ name' = name /\ target' = target
      /\ born' = born /\ star' = star
  BY DEF tree
<1>2. \A d : Below(d)' = Below(d)
  BY <1>1 DEF Below
<1>3. Linked' = Linked
  BY <1>1 DEF Linked
<1>4. Reach' = Reach
  BY <1>2, <1>3 DEF Reach
<1>5. Hidden' = Hidden
  BY <1>1, <1>2 DEF Hidden
<1>6. Starred' = Starred
  BY <1>1, <1>3 DEF Starred
<1>7. \A f : FrameOK(f)' = FrameOK(f)
  BY <1>1, <1>4, <1>5, <1>6 DEF FrameOK, Resolved
<1>8. Good' = Good
  BY <1>7 DEF Good
<1>9. TreeInv => TreeInv'
  BY <1>1 DEF TreeInv
<1> QED
  BY <1>3, <1>4, <1>5, <1>6, <1>8, <1>9

\* The innermost activation of a process is good.
LEMMA NowGood ==
  ASSUME RmrfInv, NEW p \in Actor, Running(p)
  PROVE  /\ stack[p] \in Seq(Good) /\ stack[p] # <<>> /\ Now(p) \in Good
         /\ Now(p) \in Frame /\ FrameOK(Now(p))
<1>1. stack[p] \in Seq(Good) /\ stack[p] # <<>>
  BY StackGood DEF RmrfInv, Confined, Running
<1>2. Now(p) \in Good
  BY <1>1, StackOps DEF Now
<1> QED
  BY <1>1, <1>2 DEF Good

\* A step of rmrf keeps the invariant if the activations it leaves are good and
\* what it removes may go.
LEMMA StepOf ==
  ASSUME RmrfInv, NEW p \in Actor, UNCHANGED <<tree, born, star>>,
         NEW s \in Seq(Good), stack' = [stack EXCEPT ![p] = s],
         crashed' \subseteq Actor,
         NEW f,
         \/ live' = live
         \/ live' = live \ {f} /\ f \in Reach /\ (Starred => f \notin {Top} \cup Hidden)
  PROVE  RmrfInv'
<1>1. TypeOK /\ stack \in [Actor -> Seq(Good)]
  BY StackGood DEF RmrfInv, Confined
<1>2. stack' \in [Actor -> Seq(Good)]
  BY <1>1
<1>3. Good \subseteq Frame
  BY DEF Good
<1>4. stack' \in [Actor -> Seq(Frame)]
  <2>1. \A q \in Actor : stack'[q] \in Seq(Frame)
    BY <1>2, <1>3, SeqMonotonic
  <2> QED
    BY <1>2, <2>1
<1>5. live' \subseteq born'
  BY <1>1 DEF TypeOK
<1>6. TypeOK'
  BY <1>1, <1>4, <1>5 DEF TypeOK, tree
<1>7. StackInv'
  <2>1. stack' \in [Actor -> Seq(Good')]
    BY <1>2, SameTree
  <2>2. (TypeOK => (StackInv <=> stack \in [Actor -> Seq(Good)]))'
    BY StackGood, PTL
  <2> QED
    BY <1>6, <2>1, <2>2
<1>8. Confined'
  <2>1. \A n \in born' \ live' : n \in born \ live \/ (live' # live /\ n = f)
    <3>1. born' = born
      OBVIOUS
    <3>2. CASE live' = live
      BY <3>1, <3>2
    <3>3. CASE live' = live \ {f} /\ live' # live
      BY <3>1, <3>3
    <3> QED
      BY <3>2, <3>3
  <2>2. born' \ live' \subseteq Reach'
    BY <2>1, SameTree DEF RmrfInv, Confined
  <2>3. Starred' => (born' \ live') \cap ({Top} \cup Hidden') = {}
    BY <2>1, SameTree DEF RmrfInv, Confined
  <2> QED
    BY <1>6, <2>2, <2>3 DEF Confined
<1> QED
  BY <1>7, <1>8, SameTree DEF RmrfInv

\* The innermost activation goes on as f.
LEMMA ContinueStep ==
  ASSUME RmrfInv, NEW p \in Actor, Running(p), UNCHANGED <<tree, live, born, star, crashed>>,
         NEW f \in Good, stack' = [stack EXCEPT ![p][Len(stack[p])] = f]
  PROVE  RmrfInv'
<1>1. [stack[p] EXCEPT ![Len(stack[p])] = f] \in Seq(Good)
  BY NowGood, StackOps
<1>2. stack' = [stack EXCEPT ![p] = [stack[p] EXCEPT ![Len(stack[p])] = f]]
  OBVIOUS
<1>3. crashed \subseteq Actor
  BY DEF RmrfInv, Confined, TypeOK
<1> QED
  BY <1>1, <1>2, <1>3, StepOf

\* The innermost activation returns, having removed nothing or f.
LEMMA ReturnStep ==
  ASSUME RmrfInv, NEW p \in Actor, Running(p), UNCHANGED <<tree, born, star, crashed>>,
         Return(p), NEW f,
         \/ live' = live
         \/ live' = live \ {f} /\ f \in Reach /\ (Starred => f \notin {Top} \cup Hidden)
  PROVE  RmrfInv'
<1> DEFINE s == SubSeq(stack[p], 1, Len(stack[p]) - 1)
<1>1. s \in Seq(Good)
  BY NowGood, StackOps
<1>2. stack' = [stack EXCEPT ![p] = s]
  BY DEF Return
<1>3. UNCHANGED <<tree, born, star>> /\ crashed' \subseteq Actor
  BY DEF RmrfInv, Confined, TypeOK
<1> HIDE DEF s
<1> QED
  BY <1>1, <1>2, <1>3, StepOf

\* The activation goes to a point where what the invariant says of it holds.
LEMMA GotoGood ==
  ASSUME RmrfInv, NEW p \in Actor, Running(p), NEW l \in PC \ {"access"},
         Resolved(Now(p).path_c) \in File,
         l = "unlink" => kind[Resolved(Now(p).path_c)] = "reg",
         l \in {"opendir", "readdir", "rmdir"} => kind[Resolved(Now(p).path_c)] = "dir",
         l = "rmdir" => ~Now(p).base
  PROVE  [Now(p) EXCEPT !.at = l] \in Good
<1> DEFINE f == Now(p)
           g == [f EXCEPT !.at = l]
<1>1. f \in Frame /\ FrameOK(f)
  BY NowGood
<1>2. g \in Frame /\ g.path_c = f.path_c /\ g.base = f.base /\ g.at = l /\ g.must = f.must
  BY <1>1 DEF Frame
<1> HIDE DEF f, g
<1>3. FrameOK(g)
  BY <1>1, <1>2 DEF FrameOK, f
<1>4. g \in Good
  BY <1>2, <1>3 DEF Good
<1> QED
  BY <1>4 DEF f, g

LEMMA GotoStep ==
  ASSUME RmrfInv, NEW p \in Actor, Running(p), UNCHANGED <<tree, live, born, star, crashed>>,
         NEW l \in PC \ {"access"}, Goto(p, l),
         Resolved(Now(p).path_c) \in File,
         l = "unlink" => kind[Resolved(Now(p).path_c)] = "reg",
         l \in {"opendir", "readdir", "rmdir"} => kind[Resolved(Now(p).path_c)] = "dir",
         l = "rmdir" => ~Now(p).base
  PROVE  RmrfInv'
<1>1. [Now(p) EXCEPT !.at = l] \in Good
  BY GotoGood
<1>2. stack' = [stack EXCEPT ![p][Len(stack[p])] = [Now(p) EXCEPT !.at = l]]
  BY DEF Goto, Now
<1> QED
  BY <1>1, <1>2, ContinueStep

LEMMA AccessStep ==
  ASSUME RmrfInv, NEW p \in Actor, Access(p)
  PROVE  RmrfInv'
<1>1. Running(p)
  BY DEF Access, At
<1>2. CASE Return(p)
  BY <1>1, <1>2, ReturnStep DEF Access
<1>3. CASE Exists(Now(p).path_c) /\ Goto(p, "stat")
  <2>1. Resolved(Now(p).path_c) \in File
    BY <1>3 DEF Exists, RmrfInv, Confined, TypeOK
  <2> QED
    BY <1>1, <1>3, <2>1, GotoStep DEF Access, PC
<1> QED
  BY <1>2, <1>3 DEF Access

LEMMA StatStep ==
  ASSUME RmrfInv, NEW p \in Actor, Stat(p)
  PROVE  RmrfInv'
<1>1. Running(p)
  BY DEF Stat, At
<1>2. Resolved(Now(p).path_c) \in File
  BY <1>1, NowGood DEF Stat, At, FrameOK
<1>3. CASE Return(p)
  BY <1>1, <1>3, ReturnStep DEF Stat
<1>4. CASE kind[Resolved(Now(p).path_c)] = "reg" /\ Goto(p, "unlink")
  BY <1>1, <1>2, <1>4, GotoStep DEF Stat, PC
<1>5. CASE kind[Resolved(Now(p).path_c)] = "dir" /\ Goto(p, "opendir")
  BY <1>1, <1>2, <1>5, GotoStep DEF Stat, PC
<1> QED
  BY <1>3, <1>4, <1>5 DEF Stat

\* What is unlinked is a regular file, or a link to one, that rmrf may get to.
LEMMA UnlinkStep ==
  ASSUME RmrfInv, NEW p \in Actor, Unlink(p)
  PROVE  RmrfInv'
<1> DEFINE f == Now(p).path_c
<1>1. Running(p)
  BY DEF Unlink, At
<1>2. FrameOK(Now(p)) /\ Now(p).at = "unlink"
  BY <1>1, NowGood DEF Unlink, At
<1>3. f \in Reach /\ (Starred => f \notin Hidden)
  BY <1>2 DEF FrameOK
<1>4. Starred => f # Top
  <2>1. kind[Top] = "dir" => Resolved(Top) = Top
    BY DEF Resolved
  <2> QED
    BY <1>2, <2>1 DEF FrameOK, Starred
<1> QED
  BY <1>1, <1>3, <1>4, ReturnStep DEF Unlink

\* What is removed is a directory rmrf was not asked to leave.
LEMMA RmdirStep ==
  ASSUME RmrfInv, NEW p \in Actor, Rmdir(p)
  PROVE  RmrfInv'
<1> DEFINE f == Now(p).path_c
<1>1. Running(p)
  BY DEF Rmdir, At
<1>2. FrameOK(Now(p)) /\ Now(p).at = "rmdir"
  BY <1>1, NowGood DEF Rmdir, At
<1>3. f \in Reach /\ (Starred => f \notin {Top} \cup Hidden)
  BY <1>2 DEF FrameOK
<1>4. live' = live \/ live' = live \ {f}
  BY DEF Rmdir
<1> QED
  BY <1>1, <1>3, <1>4, ReturnStep DEF Rmdir

LEMMA OpendirStep ==
  ASSUME RmrfInv, NEW p \in Actor, Opendir(p)
  PROVE  RmrfInv'
<1> DEFINE f == Now(p)
           d == Resolved(f.path_c)
           g == [f EXCEPT !.at = "readdir", !.seen = {}, !.must = Entries(d)]
<1>1. Running(p)
  BY DEF Opendir, At
<1>2. f \in Frame /\ FrameOK(f) /\ f.at = "opendir"
  BY <1>1, NowGood DEF Opendir, At
<1>3. Entries(d) \subseteq live /\ live \subseteq born /\ born \subseteq File
      /\ \A e \in Entries(d) : parent[e] = d
  BY DEF Entries, RmrfInv, Confined, TypeOK
<1>4. CASE UNCHANGED crashed /\ stack' = [stack EXCEPT ![p][Len(stack[p])] = g]
  <2>1. /\ g \in Frame /\ g.path_c = f.path_c /\ g.base = f.base /\ g.at = "readdir"
        /\ g.must = Entries(d)
    BY <1>2, <1>3 DEF Frame, PC
  <2> HIDE DEF f, g
  <2>2. d \in File /\ kind[d] = "dir"
    BY <1>2 DEF FrameOK
  <2>3. g.must \subseteq born /\ \A e \in g.must : parent[e] = d
    BY <1>3, <2>1
  <2>4. FrameOK(g)
    BY <1>2, <2>1, <2>2, <2>3 DEF FrameOK
  <2>5. g \in Good
    BY <2>1, <2>4 DEF Good
  <2> QED
    BY <1>1, <1>4, <2>5, ContinueStep DEF Opendir
<1>5. CASE crashed' = crashed \cup {p} /\ UNCHANGED stack
  <2>1. stack[p] \in Seq(Good) /\ stack' = [stack EXCEPT ![p] = stack[p]]
    BY <1>1, <1>5, NowGood DEF RmrfInv, Confined, TypeOK
  <2>2. crashed' \subseteq Actor
    BY <1>5 DEF RmrfInv, Confined, TypeOK
  <2>3. live' = live
    BY DEF Opendir
  <2> QED
    BY <2>1, <2>2, <2>3, StepOf DEF Opendir
<1> QED
  BY <1>4, <1>5, Zenon DEF Opendir, Now

\* The entries of the directory an activation reads.
LEMMA EntryFacts ==
  ASSUME RmrfInv, NEW p \in Actor, At(p, "readdir"), NEW e \in Unseen(p)
  PROVE  /\ e \in born /\ e \in File /\ e \in Reach
         /\ parent[e] = Resolved(Now(p).path_c)
         /\ Starred /\ ~(Now(p).base /\ name[e] = "hidden") => e \notin {Top} \cup Hidden
<1> DEFINE f == Now(p)
           d == Resolved(f.path_c)
<1>1. Running(p) /\ FrameOK(f) /\ f.at = "readdir"
  BY NowGood DEF At
<1>2. TypeOK /\ TreeInv
  BY DEF RmrfInv, Confined
<1>3. e \in born /\ e \in File /\ parent[e] = d
  BY <1>1, <1>2 DEF Unseen, Entries, FrameOK, TypeOK
<1>4. d \in File /\ kind[d] = "dir" /\ f.path_c \in File
  BY <1>1, <1>2 DEF FrameOK, TypeOK
<1>5. d = f.path_c \/ d \in Linked
  <2>1. CASE kind[f.path_c] = "link"
    <3>1. f.path_c \in Old
      BY <1>2, <1>4, <2>1 DEF TreeInv, File
    <3> QED
      BY <1>4, <2>1, <3>1, Constants DEF Linked, Resolved
  <2> QED
    BY <2>1 DEF Resolved
<1>6. e \in Reach
  BY <1>1, <1>2, <1>3, <1>5, ReachClosed DEF FrameOK
<1>7. ASSUME Starred, ~(f.base /\ name[e] = "hidden")
      PROVE  e \notin {Top} \cup Hidden
  <2>1. d = f.path_c
    BY <1>5, <1>7 DEF Starred
  <2>2. d \notin Hidden /\ (d = Top => f.base)
    BY <1>1, <1>7, <2>1 DEF FrameOK
  <2>3. e # Top
    BY <1>2, <1>3, <1>4, TreeFacts, Constants
  <2>4. e \notin Hidden
    BY <1>2, <1>3, <1>7, <2>2, HiddenStep
  <2> QED
    BY <2>3, <2>4
<1> QED
  BY <1>3, <1>6, <1>7

\* An entry was seen.
LEMMA SeenGood ==
  ASSUME RmrfInv, NEW p \in Actor, At(p, "readdir"), NEW e \in File
  PROVE  [Now(p) EXCEPT !.seen = @ \cup {e}] \in Good
<1> DEFINE f == Now(p)
           g == [f EXCEPT !.seen = @ \cup {e}]
<1>1. f \in Frame /\ FrameOK(f)
  BY NowGood DEF At
<1>2. /\ g \in Frame /\ g.path_c = f.path_c /\ g.base = f.base /\ g.at = f.at
      /\ g.must = f.must
  BY <1>1 DEF Frame
<1> HIDE DEF f, g
<1>3. FrameOK(g)
  BY <1>1, <1>2 DEF FrameOK
<1>4. g \in Good
  BY <1>2, <1>3 DEF Good
<1> QED
  BY <1>4 DEF f, g

\* rmrf is called for an entry, or once more for the directory.
LEMMA EnterStep ==
  ASSUME RmrfInv, NEW p \in Actor, At(p, "readdir"), NEW e \in Unseen(p),
         ~(Now(p).base /\ name[e] = "hidden"), Enter(p, e),
         UNCHANGED <<tree, live, born, star, crashed>>
  PROVE  RmrfInv'
<1> DEFINE f == [Now(p) EXCEPT !.seen = @ \cup {e}]
           g == IF name[e] = "star" THEN Activation(Now(p).path_c, TRUE) ELSE Activation(e, FALSE)
<1>1. Running(p)
  BY DEF At
<1>2. e \in File /\ f \in Good
  BY EntryFacts, SeenGood
<1>3. Now(p) \in Frame /\ FrameOK(Now(p)) /\ Now(p).path_c \in File
  BY <1>1, NowGood DEF Frame
<1>4. \A h \in File, b \in BOOLEAN :
        /\ Activation(h, b) \in Frame
        /\ h \in Reach \cap born /\ (Starred => h \notin Hidden /\ (h = Top => b))
             => FrameOK(Activation(h, b))
  BY DEF Activation, Frame, FrameOK, PC
<1>5. g \in Good
  <2>1. CASE name[e] = "star"
    BY <1>3, <1>4, <2>1 DEF FrameOK, Good
  <2>2. CASE name[e] # "star"
    BY <1>4, <2>2, EntryFacts DEF Good
  <2> QED
    BY <2>1, <2>2
<1>6. stack' = [stack EXCEPT ![p] = Append([stack[p] EXCEPT ![Len(stack[p])] = f], g)]
  BY DEF Enter, Now
<1>7. Append([stack[p] EXCEPT ![Len(stack[p])] = f], g) \in Seq(Good)
  <2> HIDE DEF f, g
  <2> QED
    BY <1>1, <1>2, <1>5, NowGood, StackOps
<1>8. crashed' \subseteq Actor /\ live' = live
  BY DEF RmrfInv, Confined, TypeOK
<1> QED
  BY <1>6, <1>7, <1>8, StepOf

LEMMA ReaddirStep ==
  ASSUME RmrfInv, NEW p \in Actor, Readdir(p)
  PROVE  RmrfInv'
<1>1. At(p, "readdir") /\ Running(p) /\ UNCHANGED <<tree, live, born, star, crashed>>
  BY DEF Readdir, At
<1>2. PICK e \in Unseen(p) :
        \/ ~(Now(p).base /\ name[e] = "hidden") /\ Enter(p, e)
        \/ stack' = [stack EXCEPT ![p][Len(stack[p])].seen = @ \cup {e}]
  BY DEF Readdir
<1>3. CASE ~(Now(p).base /\ name[e] = "hidden") /\ Enter(p, e)
  BY <1>1, <1>3, EnterStep
<1>4. CASE stack' = [stack EXCEPT ![p][Len(stack[p])].seen = @ \cup {e}]
  <2>1. [Now(p) EXCEPT !.seen = @ \cup {e}] \in Good
    BY <1>1, EntryFacts, SeenGood
  <2>2. stack' = [stack EXCEPT ![p][Len(stack[p])] = [Now(p) EXCEPT !.seen = @ \cup {e}]]
    BY <1>4 DEF Now
  <2> QED
    BY <1>1, <2>1, <2>2, ContinueStep
<1> QED
  BY <1>2, <1>3, <1>4

LEMMA ClosedirStep ==
  ASSUME RmrfInv, NEW p \in Actor, Closedir(p)
  PROVE  RmrfInv'
<1>1. Running(p)
  BY DEF Closedir, At
<1>2. CASE Return(p)
  BY <1>1, <1>2, ReturnStep DEF Closedir
<1>3. CASE ~Now(p).base /\ Goto(p, "rmdir")
  <2>1. Resolved(Now(p).path_c) \in File /\ kind[Resolved(Now(p).path_c)] = "dir"
    BY <1>1, NowGood DEF Closedir, At, FrameOK
  <2> QED
    BY <1>1, <1>3, <2>1, GotoStep DEF Closedir, PC
<1> QED
  BY <1>2, <1>3 DEF Closedir

\* Another program creates a file: what was there stays where it is.
LEMMA CreateKeeps ==
  ASSUME RmrfInv, NEW n \in Late, Create(n)
  PROVE  /\ TypeOK' /\ TreeInv' /\ Linked' = Linked /\ Starred' = Starred
         /\ \A d \in File : /\ Below(d) \subseteq Below(d)' \cup {n}
                            /\ Below(d)' \subseteq Below(d) \cup {n}
         /\ \A h \in Old : parent'[h] = parent[h]
         /\ n \notin born /\ n \in File /\ \A m \in born : parent'[m] = parent[m]
<1>1. TypeOK /\ TreeInv
  BY DEF RmrfInv, Confined
<1>2. n \in File /\ n \notin born /\ n \notin Old /\ n # Root
  BY Constants DEF Create, File
<1>3. PICK d \in live : kind[d] = "dir" /\ parent' = [parent EXCEPT ![n] = d]
  BY DEF Create
<1>4. d \in born /\ d \in File /\ d \in Old
  BY <1>1, <1>3 DEF TypeOK, TreeInv, File
<1>5. d < n
  BY <1>4, RmrfAssumption DEF Old
<1>6. UNCHANGED <<kind, name, target, star, stack, crashed>>
      /\ live' = live \cup {n} /\ born' = born \cup {n}
  BY DEF Create
<1>7. parent' \in [File -> File \cup {Root}]
  BY <1>1, <1>3, <1>4 DEF TypeOK
<1>8. \A m \in File : parent'[m] = IF m = n THEN d ELSE parent[m]
  BY <1>1, <1>3 DEF TypeOK
<1>9. TypeOK'
  BY <1>1, <1>2, <1>6, <1>7 DEF TypeOK
<1>10. TreeInv'
  <2>1. \A m \in File : parent'[m] < m /\ parent'[m] \in born' \cup {Root}
    BY <1>1, <1>4, <1>5, <1>6, <1>8 DEF TreeInv
  <2> QED
    BY <1>1, <1>6, <2>1 DEF TreeInv
<1>11. Linked' = Linked /\ Starred' = Starred
  BY <1>6 DEF Linked, Starred
<1>12. IsTree(parent) /\ IsTree(parent')
  BY <1>1, <1>9, <1>10 DEF TypeOK, TreeInv, IsTree
<1>13. \A m \in File : m # n => /\ parent[m] = parent'[m] /\ parent'[m] # n /\ parent[m] # n
  BY <1>1, <1>2, <1>8 DEF TreeInv
<1>14. \A e \in File : Below(e) = Least(parent, e) /\ Below(e)' = Least(parent', e)
  BY <1>12, UnderIsLeast DEF Below, Under
<1>15. ASSUME NEW e \in File
       PROVE  Below(e) \subseteq Below(e)' \cup {n} /\ Below(e)' \subseteq Below(e) \cup {n}
  <2>1. Least(parent, e) \subseteq Least(parent', e) \cup {n}
    BY <1>2, <1>12, <1>13, OneMoved
  <2>2. Least(parent', e) \subseteq Least(parent, e) \cup {n}
    BY <1>2, <1>12, <1>13, OneMoved
  <2> QED
    BY <1>14, <2>1, <2>2
<1>16. \A h \in Old : parent'[h] = parent[h]
  BY <1>2, <1>8 DEF File
<1>17. \A m \in born : parent'[m] = parent[m]
  BY <1>1, <1>2, <1>8 DEF TypeOK
<1> QED
  BY <1>2, <1>9, <1>10, <1>11, <1>15, <1>16, <1>17

LEMMA CreateStep ==
  ASSUME RmrfInv, NEW n \in Late, Create(n)
  PROVE  RmrfInv'
<1>1. TypeOK /\ TreeInv /\ TypeOK' /\ TreeInv'
  BY CreateKeeps DEF RmrfInv, Confined
<1>2. UNCHANGED <<kind, name, target, star, stack, crashed>>
      /\ live' = live \cup {n} /\ born' = born \cup {n} /\ n \notin born
  BY CreateKeeps DEF Create
<1>3. \A d \in File : Below(d) \cap born \subseteq Below(d)' /\ Below(d)' \cap born \subseteq Below(d)
  BY <1>2, CreateKeeps
<1>4. Linked \subseteq File /\ Linked' = Linked /\ Top \in File
  BY <1>1, TreeFacts, CreateKeeps, Constants
<1>5. Reach \cap born \subseteq Reach'
  BY <1>3, <1>4 DEF Reach
<1>6. Hidden' \cap born \subseteq Hidden
  <2> DEFINE top == {h \in Old : parent[h] = Top /\ name[h] = "hidden"}
  <2>1. top' = top /\ top \subseteq File
    BY <1>2, CreateKeeps DEF File
  <2>2. Hidden = top \cup UNION {Below(h) : h \in top}
        /\ Hidden' = top' \cup UNION {Below(h)' : h \in top'}
    BY DEF Hidden
  <2> HIDE DEF top
  <2> QED
    BY <1>3, <2>1, <2>2
<1>7. born' \ live' = born \ live
  BY <1>1, <1>2 DEF TypeOK
<1>8. born \ live \subseteq Reach /\ (Starred => (born \ live) \cap ({Top} \cup Hidden) = {})
  BY DEF RmrfInv, Confined
<1>9. Confined'
  <2>1. born' \ live' \subseteq Reach'
    BY <1>5, <1>7, <1>8
  <2>2. Starred' => (born' \ live') \cap ({Top} \cup Hidden') = {}
    BY <1>6, <1>7, <1>8, CreateKeeps
  <2> QED
    BY <1>1, <2>1, <2>2 DEF Confined
<1>10. ASSUME NEW f, FrameOK(f)
       PROVE  FrameOK(f)'
  <2>1. f.path_c \in Reach' \cap born'
    BY <1>2, <1>5, <1>10 DEF FrameOK
  <2>2. Resolved(f.path_c)' = Resolved(f.path_c)
    BY <1>2 DEF Resolved
  <2>3. f.must \subseteq born' /\ \A e \in f.must : parent'[e] = Resolved(f.path_c)
    BY <1>2, <1>10, CreateKeeps DEF FrameOK
  <2>4. Starred' => f.path_c \notin Hidden' /\ (f.path_c = Top => f.base)
    BY <1>6, <1>10, CreateKeeps DEF FrameOK
  <2> QED
    BY <1>2, <1>10, <2>1, <2>2, <2>3, <2>4 DEF FrameOK
<1>11. StackInv'
  BY <1>2, <1>10 DEF RmrfInv, StackInv
<1> QED
  BY <1>1, <1>9, <1>11 DEF RmrfInv

LEMMA InitInv ==
  ASSUME Init
  PROVE  RmrfInv
<1>1. parent \in [File -> File \cup {Root}]
  <2>1. 0..N = Old \cup {Root}
    BY Constants DEF Old, Root
  <2> QED
    BY <2>1 DEF Init, File
<1>2. \A b \in BOOLEAN : Activation(Top, b) \in Frame
  BY Constants DEF Activation, Frame, PC
<1>3. stack = [p \in Actor |-> <<Activation(Top, star)>>] /\ star \in BOOLEAN
  BY DEF Init
<1>4. TypeOK
  <2>1. stack \in [Actor -> Seq(Frame)]
    BY <1>2, <1>3
  <2>2. Old \subseteq File
    BY DEF File
  <2> QED
    BY <1>1, <2>1, <2>2 DEF Init, TypeOK
<1>5. TreeInv
  <2>1. ASSUME NEW n \in File
        PROVE  parent[n] < n /\ parent[n] \in born \cup {Root}
    <3>1. n \in Nat /\ 0 < n
      BY RmrfAssumption DEF File, Old
    <3>2. CASE n \in Late \cup {Top}
      BY <3>1, <3>2 DEF Init, Root
    <3>3. CASE n \in Old \ {Top}
      <4>1. parent[n] < n /\ parent[n] \in 0..N
        BY <2>1, <3>3 DEF Init
      <4>2. parent[n] \in Old \cup {Root}
        BY <4>1, Constants DEF Old, Root
      <4> QED
        BY <4>1, <4>2 DEF Init
    <3> QED
      BY <3>2, <3>3 DEF File
  <2> QED
    BY <2>1 DEF Init, TreeInv
<1>6. FrameOK(Activation(Top, star))
  <2>1. Top \in Reach \cap born /\ Top \notin Hidden
    BY <1>4, <1>5, TopIsNotHidden, Constants DEF Reach, Init
  <2>2. Starred => star
    BY DEF Starred
  <2> QED
    BY <2>1, <2>2 DEF Activation, FrameOK
<1>7. StackInv
  <2>1. ASSUME NEW p \in Actor
        PROVE  Len(stack[p]) = 1 /\ stack[p][1] = Activation(Top, star)
    BY <1>3, <2>1
  <2> QED
    BY <1>6, <2>1 DEF StackInv
<1>8. born \ live = {}
  BY DEF Init
<1>9. Confined
  BY <1>4, <1>8 DEF Confined
<1> QED
  BY <1>5, <1>7, <1>9 DEF RmrfInv

LEMMA NextInv ==
  ASSUME RmrfInv, [Next]_vars
  PROVE  RmrfInv'
<1>1. ASSUME NEW p \in Actor, rmrf(p)
      PROVE  RmrfInv'
  <2>1. CASE Access(p)
    BY <2>1, AccessStep
  <2>2. CASE Stat(p)
    BY <2>2, StatStep
  <2>3. CASE Unlink(p)
    BY <2>3, UnlinkStep
  <2>4. CASE Opendir(p)
    BY <2>4, OpendirStep
  <2>5. CASE Readdir(p)
    BY <2>5, ReaddirStep
  <2>6. CASE Closedir(p)
    BY <2>6, ClosedirStep
  <2>7. CASE Rmdir(p)
    BY <2>7, RmdirStep
  <2> QED
    BY <1>1, <2>1, <2>2, <2>3, <2>4, <2>5, <2>6, <2>7 DEF rmrf
<1>2. ASSUME UNCHANGED vars
      PROVE  RmrfInv'
  <2>1. UNCHANGED <<tree, born, star>> /\ UNCHANGED <<live, stack, crashed>>
    BY <1>2 DEF vars
  <2>2. (TypeOK => TypeOK') /\ (StackInv => StackInv') /\ (Confined => Confined')
    <3>1. TypeOK => TypeOK'
      BY <2>1 DEF TypeOK, tree
    <3>2. Confined => Confined'
      BY <2>1, <3>1, SameTree DEF Confined
    <3>3. \A f : FrameOK(f) => FrameOK(f)'
      BY <2>1, SameTree DEF FrameOK, Resolved, tree
    <3>4. StackInv => StackInv'
      BY <2>1, <3>3 DEF StackInv
    <3> QED
      BY <3>1, <3>2, <3>4
  <2> QED
    BY <2>1, <2>2, SameTree DEF RmrfInv
<1> QED
  BY <1>1, <1>2, CreateStep DEF Next

\* The tree, the activations of every process and what was removed are as
\* RmrfInv says, whatever the processes and the creations interleave to.
THEOREM RmrfInvCorrect == Spec => []RmrfInv
<1>1. Init => RmrfInv
  BY InitInv
<1>2. RmrfInv /\ [Next]_vars => RmrfInv'
  BY NextInv
<1> QED
  BY <1>1, <1>2, PTL DEF Spec

\* rmrf (004/rmrf.cpp:26) removes nothing outside the tree it was given and the
\* directories links in it lead to, and with "a/*" neither a nor its hidden
\* entries, however many processes remove the same tree.
THEOREM ConfinedCorrect == Spec => []Confined
<1>1. RmrfInv => Confined
  BY DEF RmrfInv
<1> QED
  BY <1>1, RmrfInvCorrect, PTL

-----------------------------------------------------------------------------
(* What is below a directory                                               *)

LEMMA BelowStep ==
  ASSUME TypeOK, TreeInv, NEW d \in File, NEW n \in File
  PROVE  n \in Below(d) <=> parent[n] \in Below(d) \cup {d}
BY TreeFacts, LeastStep

LEMMA BelowLeast ==
  ASSUME TypeOK, TreeInv, NEW d \in File, NEW S, S \subseteq File,
         \A n \in File : parent[n] \in S \cup {d} => n \in S
  PROVE  Below(d) \subseteq S
BY TreeFacts DEF Least, Closed

\* What is below d is an entry of d or below one.
LEMMA BelowSplit ==
  ASSUME TypeOK, TreeInv, NEW d \in File, NEW n \in Below(d)
  PROVE  \E e \in File : parent[e] = d /\ n \in {e} \cup Below(e)
<1> DEFINE S == {m \in File : \E e \in File : parent[e] = d /\ m \in {e} \cup Below(e)}
<1>1. ASSUME NEW m \in File, parent[m] \in S \cup {d}
      PROVE  m \in S
  <2>1. CASE parent[m] = d
    BY <2>1
  <2>2. CASE parent[m] \in S
    <3>1. PICK e \in File : parent[e] = d /\ parent[m] \in {e} \cup Below(e)
      BY <2>2
    <3>2. m \in Below(e)
      BY <3>1, BelowStep
    <3> QED
      BY <3>1, <3>2
  <2> QED
    BY <1>1, <2>1, <2>2
<1>2. Below(d) \subseteq S
  BY <1>1, BelowLeast
<1> QED
  BY <1>2

\* What is below an entry of d is below d.
LEMMA BelowEntry ==
  ASSUME TypeOK, TreeInv, NEW d \in File, NEW m \in Below(d)
  PROVE  m \in File /\ Below(m) \subseteq Below(d)
<1>1. m \in File /\ Below(d) \subseteq File
  BY DEF Below
<1>2. \A n \in File : parent[n] \in Below(d) \cup {m} => n \in Below(d)
  BY BelowStep
<1> QED
  BY <1>1, <1>2, BelowLeast

\* Nothing is below what is not a directory.
LEMMA NothingBelow ==
  ASSUME TypeOK, TreeInv, DirInv, NEW d \in File, kind[d] # "dir"
  PROVE  Below(d) = {} /\ \A n \in File : parent[n] # d
<1>1. \A n \in File : parent[n] # d
  BY Constants DEF DirInv
<1>2. \A n \in File : parent[n] \in {} \cup {d} => n \in {}
  BY <1>1
<1>3. \A S : S \subseteq File /\ (\A n \in File : parent[n] \in S \cup {d} => n \in S)
          => Below(d) \subseteq S
  BY BelowLeast
<1>4. Below(d) \subseteq {}
  BY <1>2, <1>3
<1> QED
  BY <1>1, <1>4

\* Nothing that exists is below what does not.
LEMMA DeadBelow ==
  ASSUME TypeOK, TreeInv, DirInv, NEW d \in File \ live
  PROVE  Below(d) \cap live = {}
<1> DEFINE S == File \ live
<1>1. \A n \in File : parent[n] \in S \cup {d} => n \in S
  BY Constants DEF DirInv
<1>2. Below(d) \subseteq S
  BY <1>1, BelowLeast
<1> QED
  BY <1>2

\* What "a/*" spares is in what it spares.
LEMMA KeptParent ==
  ASSUME TypeOK, TreeInv, NEW m, Kept(m), parent[m] \in File
  PROVE  Kept(parent[m])
BY HiddenStep, TreeFacts, Constants DEF Kept

-----------------------------------------------------------------------------
(* What a process has in hand                                              *)

LEMMA ReplaceLast ==
  ASSUME NEW s \in Seq(Frame), s # <<>>, NEW g \in Frame
  PROVE  LET r == [s EXCEPT ![Len(s)] = g] IN
           /\ r \in Seq(Frame) /\ Len(r) = Len(s)
           /\ \A j \in 1..Len(s) : r[j] = IF j = Len(s) THEN g ELSE s[j]
<1>1. Len(s) \in 1..Len(s)
  BY EmptySeq
<1> QED
  BY <1>1, ExceptSeq

LEMMA PopLast ==
  ASSUME NEW s \in Seq(Frame), s # <<>>
  PROVE  LET r == SubSeq(s, 1, Len(s) - 1) IN
           /\ r \in Seq(Frame) /\ Len(r) = Len(s) - 1
           /\ \A j \in 1..(Len(s) - 1) : r[j] = s[j]
<1> DEFINE n == Len(s)
<1>1. n \in Nat \ {0} /\ \A i \in 1..n : s[i] \in Frame
  BY EmptySeq, ElementOfSeq
<1>2. n - 1 \in Int /\ 1 \in Int /\ \A i \in 1..(n - 1) : s[i] \in Frame
  BY <1>1
<1> HIDE DEF n
<1>3. /\ SubSeq(s, 1, n - 1) \in Seq(Frame)
      /\ Len(SubSeq(s, 1, n - 1)) = IF 1 <= n - 1 THEN n - 1 - 1 + 1 ELSE 0
      /\ \A i \in 1..(n - 1 - 1 + 1) : SubSeq(s, 1, n - 1)[i] = s[1 + i - 1]
  BY <1>2, SubSeqProperties
<1>4. (IF 1 <= n - 1 THEN n - 1 - 1 + 1 ELSE 0) = n - 1 /\ n - 1 - 1 + 1 = n - 1
      /\ \A i \in 1..(n - 1) : 1 + i - 1 = i
  BY <1>1
<1> QED
  BY <1>3, <1>4 DEF n

LEMMA PushLast ==
  ASSUME NEW s \in Seq(Frame), s # <<>>, NEW f \in Frame, NEW g \in Frame
  PROVE  LET r == Append([s EXCEPT ![Len(s)] = f], g) IN
           /\ r \in Seq(Frame) /\ Len(r) = Len(s) + 1
           /\ \A j \in 1..(Len(s) + 1) :
                r[j] = IF j = Len(s) + 1 THEN g ELSE IF j = Len(s) THEN f ELSE s[j]
<1> DEFINE q == [s EXCEPT ![Len(s)] = f]
           r == Append(q, g)
<1>1. Len(s) \in Nat
  BY EmptySeq
<1>2. q \in Seq(Frame) /\ Len(q) = Len(s)
      /\ \A j \in 1..Len(s) : q[j] = IF j = Len(s) THEN f ELSE s[j]
  BY ReplaceLast
<1> HIDE DEF q
<1>3. /\ r \in Seq(Frame) /\ Len(r) = Len(q) + 1
      /\ \A i \in 1..Len(q) : r[i] = q[i]
      /\ r[Len(q) + 1] = g
  BY <1>2, AppendProperties
<1> HIDE DEF r
<1>4. \A j \in 1..(Len(s) + 1) : j \in 1..Len(s) \/ j = Len(s) + 1
  BY <1>1
<1>5. \A j \in 1..Len(s) : j # Len(s) + 1
  BY <1>1
<1>6. r \in Seq(Frame) /\ Len(r) = Len(s) + 1
      /\ \A j \in 1..(Len(s) + 1) :
           r[j] = IF j = Len(s) + 1 THEN g ELSE IF j = Len(s) THEN f ELSE s[j]
  BY <1>2, <1>3, <1>4, <1>5
<1> QED
  BY <1>6 DEF q, r

\* What a process has in hand when the last activation returns ...
LEMMA PopHands ==
  ASSUME NEW s \in Seq(Frame), s # <<>>, NEW n, InHands(s, n)
  PROVE  \/ InHands(SubSeq(s, 1, Len(s) - 1), n)
         \/ Direct(s, Len(s)) /\ InHand(s[Len(s)], n)
<1> DEFINE r == SubSeq(s, 1, Len(s) - 1)
<1>1. Len(r) = Len(s) - 1 /\ \A j \in 1..(Len(s) - 1) : r[j] = s[j]
  BY PopLast
<1>2. Len(s) \in Nat \ {0}
  BY EmptySeq
<1>3. PICK i \in 1..Len(s) : Direct(s, i) /\ InHand(s[i], n)
  BY DEF InHands
<1> HIDE DEF r
<1>4. CASE i # Len(s)
  <2>1. i \in 1..(Len(s) - 1) /\ \A j \in 1..(i - 1) : j \in 1..(Len(s) - 1)
    BY <1>2, <1>4
  <2>2. r[i] = s[i] /\ \A j \in 1..(i - 1) : r[j] = s[j]
    BY <1>1, <2>1
  <2>3. Direct(r, i) /\ InHand(r[i], n)
    BY <1>3, <2>2 DEF Direct
  <2>4. InHands(r, n)
    BY <1>1, <2>1, <2>3 DEF InHands
  <2> QED
    BY <2>4 DEF r
<1> QED
  BY <1>3, <1>4

\* ... when it goes on as g ...
LEMMA ReplaceHands ==
  ASSUME NEW s \in Seq(Frame), s # <<>>, NEW g \in Frame, g.path_c = s[Len(s)].path_c,
         NEW n, InHands(s, n)
  PROVE  \/ InHands([s EXCEPT ![Len(s)] = g], n)
         \/ Direct(s, Len(s)) /\ InHand(s[Len(s)], n) /\ ~InHand(g, n)
<1> DEFINE r == [s EXCEPT ![Len(s)] = g]
<1>1. Len(r) = Len(s) /\ \A j \in 1..Len(s) : r[j] = IF j = Len(s) THEN g ELSE s[j]
  BY ReplaceLast
<1>2. Len(s) \in Nat \ {0}
  BY EmptySeq
<1>3. PICK i \in 1..Len(s) : Direct(s, i) /\ InHand(s[i], n)
  BY DEF InHands
<1> HIDE DEF r
<1>4. \A j \in 1..(i - 1) : j \in 1..Len(s)
  BY <1>2
<1>5. Direct(r, i)
  BY <1>1, <1>3, <1>4 DEF Direct
<1>6. CASE InHand(r[i], n)
  BY <1>1, <1>5, <1>6 DEF InHands, r
<1>7. CASE ~InHand(r[i], n)
  BY <1>1, <1>3, <1>7
<1> QED
  BY <1>6, <1>7

\* ... and when it goes on as f and calls rmrf, which begins as g.
LEMMA PushHands ==
  ASSUME NEW s \in Seq(Frame), s # <<>>, NEW f \in Frame, NEW g \in Frame,
         f.path_c = s[Len(s)].path_c, NEW n, InHands(s, n)
  PROVE  \/ InHands(Append([s EXCEPT ![Len(s)] = f], g), n)
         \/ /\ Direct(s, Len(s)) /\ InHand(s[Len(s)], n) /\ ~InHand(f, n)
            /\ ~(kind[f.path_c] # "link" /\ InHand(g, n))
<1> DEFINE r == Append([s EXCEPT ![Len(s)] = f], g)
           l == Len(s)
<1>1. Len(r) = l + 1
      /\ \A j \in 1..(l + 1) : r[j] = IF j = l + 1 THEN g ELSE IF j = l THEN f ELSE s[j]
  BY PushLast
<1>2. l \in Nat \ {0}
  BY EmptySeq
<1>3. PICK i \in 1..l : Direct(s, i) /\ InHand(s[i], n)
  BY DEF InHands
<1> HIDE DEF r, l
<1>4. i \in 1..(l + 1) /\ i # l + 1 /\ \A j \in 1..(i - 1) : j \in 1..(l + 1) /\ j # l + 1
  BY <1>2
<1>5. \A j \in 1..(i - 1) : r[j].path_c = s[j].path_c
  BY <1>1, <1>4 DEF l
<1>6. Direct(r, i)
  BY <1>3, <1>5 DEF Direct
<1>7. CASE InHand(r[i], n)
  BY <1>1, <1>4, <1>6, <1>7 DEF InHands, r
<1>8. CASE ~InHand(r[i], n)
  <2>1. i = l /\ ~InHand(f, n)
    BY <1>1, <1>3, <1>4, <1>8
  <2>2. CASE kind[f.path_c] # "link" /\ InHand(g, n)
    <3>1. l + 1 \in 1..(l + 1) /\ \A j \in 1..(l + 1 - 1) : j = l \/ j \in 1..(l - 1)
      BY <1>2
    <3>2. l \in 1..(l + 1) /\ l # l + 1
      BY <1>2
    <3>3. r[l] = f /\ r[l + 1] = g
      BY <1>1, <3>1, <3>2
    <3>4. \A j \in 1..((l + 1) - 1) : kind[r[j].path_c] # "link"
      BY <1>6, <2>1, <2>2, <3>1, <3>3 DEF Direct
    <3>5. Direct(r, l + 1)
      BY <3>4, Zenon DEF Direct
    <3>6. InHand(r[l + 1], n)
      BY <2>2, <3>3
    <3> QED
      BY <1>1, <3>1, <3>5, <3>6 DEF InHands, r
  <2> QED
    BY <1>3, <2>1, <2>2 DEF l
<1> QED
  BY <1>7, <1>8

\* What "n" is handled by, if its entry m is: the activation for m was called by
\* one that reads n, or m is one of those an activation for n has yet to see.
LEMMA ParentInHands ==
  ASSUME TypeOK, TreeInv, DirInv, NEW s \in Seq(Frame), Shape(s), NEW m, InHands(s, m),
         parent[m] \in File
  PROVE  InHands(s, parent[m]) \/ Kept(parent[m])
<1>1. Len(s) \in Nat /\ \A i \in 1..Len(s) : s[i] \in Frame
  BY LenProperties, ElementOfSeq
\* A directory that is read on a direct path, itself or because of a "*".
<1>2. ASSUME NEW j \in 1..Len(s), Direct(s, j)
      PROVE  InHands(s, s[j].path_c) \/ Kept(s[j].path_c)
  <2> DEFINE K == {k \in 1..j : s[k].path_c = s[j].path_c}
  <2>1. j \in Nat /\ j \in 1..j /\ K \subseteq Nat /\ K # {}
    BY <1>1
  <2>2. PICK k \in K : \A l \in K : ~(l < k)
    BY <2>1, LeastNumber
  <2>3. k \in 1..Len(s) /\ k \in 1..j /\ s[k].path_c = s[j].path_c
    BY <1>1, <2>2
  <2>4. \A l \in 1..(k - 1) : l \in 1..(j - 1)
    BY <2>1, <2>3
  <2>5. Direct(s, k)
    BY <1>2, <2>4 DEF Direct
  <2>6. CASE ~s[k].base
    BY <2>3, <2>5, <2>6 DEF InHands, InHand
  <2>7. CASE s[k].base /\ k = 1
    BY <2>3, <2>7 DEF Shape, Kept
  <2>8. CASE s[k].base /\ k # 1
    <3>1. k - 1 \in 1..j /\ k - 1 < k
      BY <2>1, <2>3, <2>8
    <3>2. s[k].path_c = s[k - 1].path_c
      BY <2>3, <2>8 DEF Shape
    <3>3. k - 1 \in K
      BY <2>3, <3>1, <3>2
    <3> QED
      BY <2>2, <3>1, <3>3
  <2> QED
    BY <2>6, <2>7, <2>8
<1>3. PICK i \in 1..Len(s) : Direct(s, i) /\ InHand(s[i], m)
  BY DEF InHands
<1>4. CASE m = s[i].path_c /\ ~s[i].base
  <2>1. i # 1
    BY <1>4, TreeFacts, Constants DEF Shape
  <2>2. i - 1 \in 1..Len(s) /\ i - 1 \in 1..(i - 1) /\ \A l \in 1..((i - 1) - 1) : l \in 1..(i - 1)
    BY <1>1, <2>1
  <2>3. parent[m] = Resolved(s[i - 1].path_c)
    BY <1>4, <2>1 DEF Shape
  <2>4. kind[s[i - 1].path_c] # "link"
    BY <1>3, <2>2 DEF Direct
  <2>5. parent[m] = s[i - 1].path_c
    BY <2>3, <2>4 DEF Resolved
  <2>6. Direct(s, i - 1)
    BY <1>3, <2>2 DEF Direct
  <2> QED
    BY <1>2, <2>2, <2>5, <2>6
<1>5. CASE \E e \in Todo(s[i]) : m \in {e} \cup Below(e)
  <2>1. PICK e \in Todo(s[i]) : m \in {e} \cup Below(e)
    BY <1>5
  <2>2. e \in File /\ parent[e] = s[i].path_c
    BY <2>1 DEF Todo
  <2>3. CASE m = e
    BY <1>2, <1>3, <2>2, <2>3
  <2>4. CASE m \in Below(e)
    <3>1. m \in File
      BY <2>4 DEF Below
    <3>2. parent[m] \in {e} \cup Below(e)
      BY <2>2, <2>4, <3>1, BelowStep
    <3>3. InHand(s[i], parent[m])
      BY <2>1, <3>2 DEF InHand
    <3> QED
      BY <1>3, <3>3 DEF InHands
  <2> QED
    BY <2>1, <2>3, <2>4
<1> QED
  BY <1>3, <1>4, <1>5 DEF InHand

\* A step of rmrf does not change what is below what.
LEMMA SameHands ==
  ASSUME UNCHANGED <<tree, born, star>>
  PROVE  /\ \A d : Below(d)' = Below(d)
         /\ \A n : Kept(n)' = Kept(n)
         /\ \A p, s : stack'[p] = s => \A n : Handles(p, n)' <=> InHands(s, n)
         /\ \A p, s : stack'[p] = s => (Shape(stack[p])' <=> Shape(s))
<1>1. /\ kind' = kind /\ parent' = parent /\ name' = name /\ target' = target
      /\ born' = born /\ star' = star
  BY DEF tree
<1>2. \A d : Below(d)' = Below(d)
  BY <1>1 DEF Below
<1>3. \A n : Kept(n)' = Kept(n)
  BY <1>1, SameTree DEF Kept
<1>4. \A f : Todo(f)' = Todo(f)
  BY <1>1 DEF Todo
<1>5. ASSUME NEW p, NEW s, stack'[p] = s
      PROVE  /\ \A n : Handles(p, n)' <=> InHands(s, n)
             /\ Shape(stack[p])' <=> Shape(s)
  <2>1. \A n : Handles(p, n)' <=> InHands(s, n)
    BY <1>1, <1>4, <1>2, <1>5 DEF Handles, InHands, InHand, Direct, Todo
  <2>2. Shape(stack[p])' <=> Shape(s)
    BY <1>1, <1>5 DEF Shape, Resolved
  <2> QED
    BY <2>1, <2>2
<1> QED
  BY <1>2, <1>3, <1>5

-----------------------------------------------------------------------------
(* What is left is excused: the steps                                      *)

\* A step that removes nothing and leaves process p the stack s.
LEMMA DoneKept ==
  ASSUME DoneInv, RmrfInv', NEW p \in Actor, UNCHANGED <<tree, live, born, star>>,
         NEW s, stack' = [stack EXCEPT ![p] = s],
         crashed' = crashed \/ (crashed' = crashed \cup {p}),
         Shape(s),
         \A n \in Left : InHands(stack[p], n) => InHands(s, n) \/ Excused(n),
         \A m \in Left : Unlinks(p, m)' /\ kind[m] = "link" => InHands(s, m) \/ Kept(m)
  PROVE  DoneInv'
<1>1. /\ kind' = kind /\ parent' = parent /\ name' = name /\ target' = target
      /\ live' = live /\ born' = born /\ star' = star
  BY DEF tree
<1>2. TypeOK /\ \A q \in Actor : stack'[q] = IF q = p THEN s ELSE stack[q]
  BY DEF DoneInv, RmrfInv, Confined, TypeOK
<1>3. /\ \A d : Below(d)' = Below(d)
      /\ \A n : Kept(n)' = Kept(n)
      /\ \A n : Handles(p, n)' <=> InHands(s, n)
      /\ \A q \in Actor \ {p} : \A n : Handles(q, n)' <=> Handles(q, n)
      /\ Shape(stack[p])' <=> Shape(s)
      /\ \A q \in Actor \ {p} : Shape(stack[q])' <=> Shape(stack[q])
  BY <1>2, SameHands DEF Handles
<1>4. Left' = Left
  BY <1>1, <1>3 DEF Left
<1>5. \A n : Excused(n)' = Excused(n) /\ Emptied(n)' = Emptied(n)
  BY <1>1, <1>3 DEF Excused, Emptied, Exists, Resolved, Entries
<1>6. DirInv'
  BY <1>1 DEF DirInv, DoneInv
<1>7. ShapeInv'
  BY <1>3 DEF ShapeInv, DoneInv
<1>8. UnlinkInv'
  <2>1. \A q \in Actor \ {p}, m \in Left : Unlinks(q, m)' => Unlinks(q, m)
    BY <1>2 DEF Unlinks, At, Running, Now
  <2> QED
    BY <1>1, <1>3, <1>4, <2>1 DEF UnlinkInv, DoneInv
<1>9. LeftInv'
  BY <1>3, <1>4, <1>5 DEF LeftInv, DoneInv, Handles
<1> QED
  BY <1>6, <1>7, <1>8, <1>9 DEF DoneInv

\* The activation below one that returns reads a directory.
LEMMA PopShape ==
  ASSUME NEW s \in Seq(Frame), s # <<>>, Shape(s)
  PROVE  LET r == SubSeq(s, 1, Len(s) - 1) IN
           Shape(r) /\ (r # <<>> => r[Len(r)].at = "readdir")
<1> DEFINE r == SubSeq(s, 1, Len(s) - 1)
           l == Len(s)
<1>1. r \in Seq(Frame) /\ Len(r) = l - 1 /\ \A j \in 1..(l - 1) : r[j] = s[j]
  BY PopLast
<1>2. l \in Nat \ {0}
  BY EmptySeq
<1>3. r # <<>> => Len(r) \in Nat \ {0}
  BY <1>1, EmptySeq
<1> HIDE DEF r
<1>4. \A i \in 1..(l - 1) : i \in 1..l /\ i < l /\ (i # 1 => i - 1 \in 1..(l - 1))
  BY <1>2
<1>5. \A i \in 1..(l - 1) : s[i].at = "readdir"
  BY <1>4 DEF Shape
<1>6. ASSUME NEW i \in 1..(l - 1)
      PROVE  IF i = 1 THEN r[i].path_c = Top /\ r[i].base = star
             ELSE IF r[i].base THEN r[i].path_c = r[i - 1].path_c
             ELSE parent[r[i].path_c] = Resolved(r[i - 1].path_c)
  <2>1. r[i] = s[i] /\ i \in 1..l /\ (i # 1 => r[i - 1] = s[i - 1])
    BY <1>1, <1>4
  <2> QED
    BY <2>1 DEF Shape
<1>7. Shape(r)
  BY <1>1, <1>5, <1>6 DEF Shape
<1>8. r # <<>> => r[Len(r)].at = "readdir"
  <2>1. r # <<>> => l - 1 \in 1..(l - 1)
    BY <1>1, <1>2, <1>3
  <2> QED
    BY <1>1, <1>5, <2>1
<1> QED
  BY <1>7, <1>8 DEF r

\* After a return, process p is not about to unlink anything.
LEMMA AfterReturn ==
  ASSUME DoneInv, NEW p \in Actor, Running(p), Return(p), UNCHANGED crashed
  PROVE  LET s == SubSeq(stack[p], 1, Len(stack[p]) - 1) IN
           /\ stack' = [stack EXCEPT ![p] = s] /\ stack'[p] = s /\ Shape(s)
           /\ \A q \in Actor \ {p} : stack'[q] = stack[q]
           /\ \A m : ~Unlinks(p, m)'
<1> DEFINE s == SubSeq(stack[p], 1, Len(stack[p]) - 1)
<1>1. stack \in [Actor -> Seq(Frame)] /\ stack[p] # <<>> /\ Shape(stack[p])
  BY DEF DoneInv, RmrfInv, Confined, TypeOK, Running, ShapeInv
<1>2. stack' = [stack EXCEPT ![p] = s] /\ stack'[p] = s
  BY <1>1 DEF Return
<1>3. Shape(s) /\ (s # <<>> => s[Len(s)].at = "readdir")
  BY <1>1, PopShape
<1> HIDE DEF s
<1>4. \A m : ~Unlinks(p, m)'
  BY <1>2, <1>3 DEF Unlinks, At, Running, Now
<1>5. \A q \in Actor \ {p} : stack'[q] = stack[q]
  BY <1>1, <1>2
<1> QED
  BY <1>2, <1>3, <1>4, <1>5 DEF s

\* A step in which the innermost activation removes its file, m, and returns.
LEMMA DoneRemoved ==
  ASSUME DoneInv, RmrfInv', NEW p \in Actor, Running(p), NEW m, m = Now(p).path_c,
         UNCHANGED <<tree, born, star, crashed>>, Return(p), live' = live \ {m},
         \/ Unlinks(p, m)
         \/ At(p, "rmdir") /\ kind[m] = "dir" /\ Entries(m) = {}
  PROVE  DoneInv'
<1> DEFINE s == SubSeq(stack[p], 1, Len(stack[p]) - 1)
<1>1. /\ kind' = kind /\ parent' = parent /\ name' = name /\ target' = target
      /\ born' = born /\ star' = star
  BY DEF tree
<1>2. /\ stack' = [stack EXCEPT ![p] = s] /\ stack'[p] = s /\ Shape(s)
      /\ \A q \in Actor \ {p} : stack'[q] = stack[q]
      /\ \A k : ~Unlinks(p, k)'
  BY AfterReturn
<1>3. TypeOK /\ TreeInv /\ DirInv
  BY DEF DoneInv, RmrfInv, Confined
<1>4. stack[p] \in Seq(Frame) /\ stack[p] # <<>> /\ Shape(stack[p])
  BY <1>3 DEF DoneInv, TypeOK, Running, ShapeInv
<1>5. /\ \A d : Below(d)' = Below(d)
      /\ \A n : Kept(n)' = Kept(n)
      /\ \A n : Handles(p, n)' <=> InHands(s, n)
      /\ \A q \in Actor \ {p} : \A n : Handles(q, n)' <=> Handles(q, n)
      /\ Shape(stack[p])' <=> Shape(s)
      /\ \A q \in Actor \ {p} : Shape(stack[q])' <=> Shape(stack[q])
  BY <1>2, SameHands DEF Handles
<1>6. FrameOK(Now(p)) /\ m \in File /\ Now(p).at \in {"unlink", "rmdir"}
      /\ (Now(p).at = "unlink" => Unlinks(p, m))
  <2>1. m \in born
    BY NowGood DEF FrameOK, DoneInv
  <2> QED
    BY <1>3, <2>1, NowGood DEF DoneInv, Unlinks, At, TypeOK
<1>7. Entries(m) = {} /\ (Unlinks(p, m) => kind[m] # "dir" /\ kind[m] # "special")
      /\ (Unlinks(p, m) /\ kind[m] = "link" => kind[target[m]] = "reg")
  <2>1. CASE Unlinks(p, m)
    <3>1. kind[Resolved(m)] = "reg"
      BY <1>6, <2>1 DEF FrameOK, Unlinks, At
    <3>2. kind[m] # "dir" /\ kind[m] # "special" /\ (kind[m] = "link" => kind[target[m]] = "reg")
      BY <3>1 DEF Resolved
    <3>3. Entries(m) = {}
      BY <1>3, <1>6, <3>2, NothingBelow DEF Entries, TypeOK
    <3> QED
      BY <3>2, <3>3
  <2> QED
    BY <2>1
<1> HIDE DEF s
\* What p had in hand it still has, but for m.
<1>8. ASSUME NEW q \in Actor, NEW n, n # m, Handles(q, n)
      PROVE  Handles(q, n)'
  <2>1. CASE q = p
    <3>1. Todo(Now(p)) = {}
      BY <1>6 DEF Todo
    <3>2. ~InHand(Now(p), n)
      BY <1>8, <3>1 DEF InHand
    <3>3. InHands(s, n)
      BY <1>4, <1>8, <2>1, <3>2, PopHands DEF Handles, Now, s
    <3> QED
      BY <1>5, <2>1, <3>3
  <2> QED
    BY <1>5, <1>8, <2>1
<1>9. Left' \subseteq Left \ {m} /\ Left' \subseteq File
  BY <1>1, <1>3, <1>5 DEF Left, TypeOK
\* Only the directory of m may no longer be excused.
<1>10. ASSUME NEW n \in Left', Excused(n)
       PROVE  Excused(n)' \/ (parent[m] = n /\ m \in live)
  <2>1. Exists(n)' => Exists(n)
    BY <1>1 DEF Exists, Resolved
  <2>2. CASE Entries(n) # {}
    <3>1. PICK e \in Entries(n) : TRUE
      BY <2>2
    <3>2. CASE e = m
      BY <3>1, <3>2 DEF Entries
    <3>3. CASE e # m
      <4>1. e \in live' /\ parent'[e] = n
        BY <1>1, <3>1, <3>3 DEF Entries
      <4>2. Entries(n)' # {}
        BY <4>1 DEF Entries
      <4> QED
        BY <4>2 DEF Excused
    <3> QED
      BY <3>2, <3>3
  <2>3. CASE Entries(n) = {}
    BY <1>1, <1>5, <1>10, <2>1, <2>3 DEF Excused
  <2> QED
    BY <2>2, <2>3
<1>11. \A n : Emptied(n) => Emptied(n)'
  BY <1>1 DEF Emptied
\* What was created in it excuses the directory of m.
<1>12. ASSUME NEW n \in Left', parent[m] = n, Below(m) \cap (born \ Old) # {} \/ m \notin Old,
              m \in live
       PROVE  Excused(n)'
  <2>1. n \in File
    BY <1>9
  <2>2. m \in Below(n) /\ Below(m) \subseteq Below(n)
    BY <1>3, <1>6, <1>12, <2>1, BelowStep, BelowEntry
  <2>3. Below(n) \cap (born \ Old) # {}
    BY <1>3, <1>12, <2>2 DEF TypeOK
  <2> QED
    BY <1>1, <1>5, <2>3 DEF Excused
<1>13. ASSUME NEW n \in Left', crashed = {}, parent[m] = n, m \in live
       PROVE  Excused(n)' \/ \E q \in Actor : Handles(q, n)'
  <2>1. n \in File /\ n \in Left /\ n # m
    BY <1>9
  <2>2. m \in Left
    <3>1. m \in Below(n)
      BY <1>3, <1>6, <1>13, <2>1, BelowStep
    <3>2. n = Top \/ n \in Below(Top)
      BY <2>1 DEF Left
    <3>3. m \in Below(Top)
      BY <1>3, <3>1, <3>2, BelowEntry, Constants
    <3> QED
      BY <1>13, <3>3 DEF Left
  <2>3. ASSUME NEW q \in Actor, Handles(q, m)
        PROVE  Excused(n)' \/ Handles(q, n)'
    <3>1. stack[q] \in Seq(Frame) /\ Shape(stack[q])
      BY <1>3 DEF TypeOK, ShapeInv, DoneInv
    <3>2. Handles(q, n) \/ Kept(n)
      BY <1>3, <1>13, <2>1, <2>3, <3>1, ParentInHands DEF Handles
    <3>3. Kept(n) => Excused(n)'
      BY <1>5 DEF Excused
    <3> QED
      BY <1>8, <2>1, <3>2, <3>3
  <2>4. Kept(m) => Excused(n)'
    <3>1. Kept(m) => Kept(n)
      BY <1>3, <1>13, <2>1, KeptParent
    <3> QED
      BY <1>5, <3>1 DEF Excused
  <2>5. CASE Excused(m)
    <3>1. CASE kind[m] = "special"
      BY <1>6, <1>7, <3>1 DEF At
    <3>2. CASE kind[m] = "link"
      <4>1. Unlinks(p, m)
        BY <1>6, <3>2
      <4>2. Handles(p, m) \/ Kept(m)
        BY <2>2, <3>2, <4>1 DEF UnlinkInv, DoneInv
      <4> QED
        BY <2>3, <2>4, <4>2
    <3>3. CASE m \notin Old \/ Below(m) \cap (born \ Old) # {}
      BY <1>12, <1>13, <3>3
    <3> QED
      BY <1>7, <2>4, <2>5, <3>1, <3>2, <3>3 DEF Excused
  <2>6. CASE \E q \in Actor : Handles(q, m)
    BY <2>3, <2>6
  <2> QED
    BY <1>13, <2>2, <2>5, <2>6 DEF LeftInv, DoneInv
<1>14. DirInv'
  <2>1. \A n \in File : n \in live' /\ parent[n] # Root => parent[n] \in live'
    <3>1. \A n \in live : parent[n] # m
      BY <1>7 DEF Entries
    <3> QED
      BY <1>3, <3>1 DEF DirInv
  <2> QED
    BY <1>1, <1>3, <2>1 DEF DirInv
<1>15. ShapeInv'
  BY <1>2, <1>5 DEF ShapeInv, DoneInv
<1>16. UnlinkInv'
  <2>1. \A q \in Actor \ {p}, k \in Left' : Unlinks(q, k)' => Unlinks(q, k)
    BY <1>2 DEF Unlinks, At, Running, Now
  <2> QED
    BY <1>1, <1>2, <1>5, <1>9, <2>1 DEF UnlinkInv, DoneInv
<1>17. LeftInv'
  <2>1. ASSUME NEW n \in Left', NEW q \in Actor \ crashed
        PROVE  Excused(n)' \/ Emptied(n)' \/ Handles(q, n)'
    <3>1. Excused(n) \/ Emptied(n) \/ Handles(q, n)
      BY <1>9, <2>1 DEF LeftInv, DoneInv
    <3>2. CASE parent[m] = n /\ m \in live
      <4>1. m \in Old => Emptied(n)'
        BY <1>1, <3>2 DEF Emptied
      <4> QED
        BY <1>12, <3>2, <4>1
    <3> QED
      BY <1>8, <1>9, <1>10, <1>11, <3>1, <3>2
  <2>2. ASSUME NEW n \in Left', crashed = {}
        PROVE  Excused(n)' \/ \E q \in Actor : Handles(q, n)'
    <3>1. Excused(n) \/ \E q \in Actor : Handles(q, n)
      BY <1>9, <2>2 DEF LeftInv, DoneInv
    <3> QED
      BY <1>8, <1>9, <1>10, <1>13, <2>2, <3>1
  <2> QED
    BY <2>1, <2>2 DEF LeftInv
<1> QED
  BY <1>14, <1>15, <1>16, <1>17 DEF DoneInv

LEMMA ReplaceShape ==
  ASSUME NEW s \in Seq(Frame), s # <<>>, Shape(s), NEW g \in Frame,
         g.path_c = s[Len(s)].path_c, g.base = s[Len(s)].base
  PROVE  Shape([s EXCEPT ![Len(s)] = g])
<1> DEFINE r == [s EXCEPT ![Len(s)] = g]
           l == Len(s)
<1>1. Len(r) = l /\ \A j \in 1..l : r[j] = IF j = l THEN g ELSE s[j]
  BY ReplaceLast
<1>2. l \in Nat \ {0}
  BY EmptySeq
<1> HIDE DEF r
<1>3. \A j \in 1..l : /\ r[j].path_c = s[j].path_c /\ r[j].base = s[j].base
                      /\ j < l => r[j] = s[j]
  BY <1>1, <1>2
<1>4. \A j \in 1..l : j # 1 => j - 1 \in 1..l
  BY <1>2
<1>5. \A j \in 1..l : j # 1 => r[j - 1].path_c = s[j - 1].path_c
  BY <1>3, <1>4
<1>6. Shape(r)
  BY <1>1, <1>3, <1>5 DEF Shape
<1> QED
  BY <1>6 DEF r

LEMMA PushShape ==
  ASSUME NEW s \in Seq(Frame), s # <<>>, Shape(s), NEW f \in Frame, NEW g \in Frame,
         f.path_c = s[Len(s)].path_c, f.base = s[Len(s)].base, f.at = "readdir",
         IF g.base THEN g.path_c = f.path_c ELSE parent[g.path_c] = Resolved(f.path_c)
  PROVE  Shape(Append([s EXCEPT ![Len(s)] = f], g))
<1> DEFINE r == Append([s EXCEPT ![Len(s)] = f], g)
           l == Len(s)
<1>1. Len(r) = l + 1
      /\ \A j \in 1..(l + 1) : r[j] = IF j = l + 1 THEN g ELSE IF j = l THEN f ELSE s[j]
  BY PushLast
<1>2. l \in Nat \ {0}
  BY EmptySeq
<1> HIDE DEF r
<1>3. ASSUME NEW i \in 1..l
      PROVE  /\ i < l + 1 => r[i].at = "readdir"
             /\ IF i = 1 THEN r[i].path_c = Top /\ r[i].base = star
                ELSE IF r[i].base THEN r[i].path_c = r[i - 1].path_c
                ELSE parent[r[i].path_c] = Resolved(r[i - 1].path_c)
  <2>1. i \in 1..(l + 1) /\ i # l + 1 /\ (i # l => i < l)
    BY <1>2
  <2>2. i # 1 => i - 1 \in 1..(l + 1) /\ i - 1 # l + 1 /\ i - 1 # l
    BY <1>2
  <2>3. r[i].path_c = s[i].path_c /\ r[i].base = s[i].base /\ (i # 1 => r[i - 1] = s[i - 1])
    BY <1>1, <2>1, <2>2
  <2>4. r[i].at = "readdir"
    <3>1. CASE i = l
      BY <1>1, <2>1, <3>1
    <3>2. CASE i # l
      BY <1>1, <2>1, <3>2 DEF Shape
    <3> QED
      BY <3>1, <3>2
  <2> QED
    BY <2>3, <2>4 DEF Shape
<1>4. IF r[l + 1].base THEN r[l + 1].path_c = r[l + 1 - 1].path_c
      ELSE parent[r[l + 1].path_c] = Resolved(r[l + 1 - 1].path_c)
  <2>1. l + 1 - 1 = l /\ l \in 1..(l + 1) /\ l # l + 1 /\ l + 1 \in 1..(l + 1)
    BY <1>2
  <2>2. r[l + 1] = g /\ r[l + 1 - 1] = f
    BY <1>1, <2>1
  <2> QED
    BY <2>2
<1>5. \A i \in 1..(l + 1) : i \in 1..l \/ (i = l + 1 /\ i # 1)
  BY <1>2
<1>6. Shape(r)
  <2>1. ASSUME NEW i \in 1..(l + 1)
        PROVE  /\ i < l + 1 => r[i].at = "readdir"
               /\ IF i = 1 THEN r[i].path_c = Top /\ r[i].base = star
                  ELSE IF r[i].base THEN r[i].path_c = r[i - 1].path_c
                  ELSE parent[r[i].path_c] = Resolved(r[i - 1].path_c)
    <3>1. CASE i \in 1..l
      BY <1>3, <3>1
    <3>2. CASE i = l + 1 /\ i # 1
      <4>1. ~(i < l + 1)
        BY <1>2, <3>2
      <4> QED
        BY <1>4, <3>2, <4>1
    <3> QED
      BY <1>5, <3>1, <3>2
  <2> QED
    BY <1>1, <2>1 DEF Shape
<1> QED
  BY <1>6 DEF r

\* A link to an existing regular file is excused only by "a/*".
LEMMA LinkExcused ==
  ASSUME TypeOK, TreeInv, DirInv, NEW m \in File, kind[m] = "link", Exists(m),
         kind[target[m]] = "reg"
  PROVE  (Excused(m) => Kept(m)) /\ ~Emptied(m)
<1>1. m \in Old
  BY DEF TreeInv, File
<1>2. Below(m) = {} /\ \A n \in File : parent[n] # m
  BY NothingBelow
<1>3. Entries(m) = {} /\ ~Emptied(m)
  BY <1>2 DEF Entries, Emptied, File, TypeOK
<1> QED
  BY <1>1, <1>2, <1>3 DEF Excused

\* The innermost activation goes on as g.
LEMMA DoneContinue ==
  ASSUME DoneInv, RmrfInv', NEW p \in Actor, Running(p),
         UNCHANGED <<tree, live, born, star, crashed>>,
         NEW g \in Frame, g.path_c = Now(p).path_c, g.base = Now(p).base,
         stack' = [stack EXCEPT ![p][Len(stack[p])] = g],
         \A n \in Left : Direct(stack[p], Len(stack[p])) /\ InHand(Now(p), n)
                           => InHand(g, n) \/ Excused(n),
         g.at = "unlink" /\ kind[g.path_c] = "link"
           => Exists(g.path_c) /\ kind[target[g.path_c]] = "reg"
  PROVE  DoneInv'
<1> DEFINE s == [stack[p] EXCEPT ![Len(stack[p])] = g]
<1>1. TypeOK /\ TreeInv /\ DirInv /\ p \notin crashed
  BY DEF DoneInv, RmrfInv, Confined, Running
<1>2. stack[p] \in Seq(Frame) /\ stack[p] # <<>> /\ Shape(stack[p])
  BY <1>1 DEF DoneInv, TypeOK, Running, ShapeInv
<1>3. stack' = [stack EXCEPT ![p] = s] /\ stack'[p] = s
  BY <1>1 DEF TypeOK
<1>4. Shape(s)
  BY <1>2, ReplaceShape DEF Now
<1>5. \A n \in Left : InHands(stack[p], n) => InHands(s, n) \/ Excused(n)
  BY <1>2, ReplaceHands DEF Now
<1>6. s # <<>> /\ s[Len(s)] = g
  <2>1. Len(s) = Len(stack[p]) /\ Len(stack[p]) \in 1..Len(stack[p])
        /\ \A j \in 1..Len(stack[p]) : s[j] = IF j = Len(stack[p]) THEN g ELSE stack[p][j]
    BY <1>2, ReplaceLast, EmptySeq
  <2> QED
    BY <2>1
<1> HIDE DEF s
<1>7. ASSUME NEW m \in Left, Unlinks(p, m)', kind[m] = "link"
      PROVE  InHands(s, m) \/ Kept(m)
  <2>1. g.at = "unlink" /\ g.path_c = m
    BY <1>3, <1>6, <1>7 DEF Unlinks, At, Now
  <2>2. (Excused(m) => Kept(m)) /\ ~Emptied(m)
    BY <1>1, <1>7, <2>1, LinkExcused DEF Left, TypeOK
  <2>3. Handles(p, m) \/ Excused(m)
    BY <1>1, <2>2 DEF DoneInv, LeftInv
  <2> QED
    BY <1>5, <2>2, <2>3 DEF Handles
<1> QED
  BY <1>3, <1>4, <1>5, <1>7, DoneKept

\* The innermost activation returns.
LEMMA DoneReturn ==
  ASSUME DoneInv, RmrfInv', NEW p \in Actor, Running(p),
         UNCHANGED <<tree, live, born, star, crashed>>, Return(p),
         \A n \in Left : Direct(stack[p], Len(stack[p])) /\ InHand(Now(p), n) => Excused(n)
  PROVE  DoneInv'
<1> DEFINE s == SubSeq(stack[p], 1, Len(stack[p]) - 1)
<1>1. stack[p] \in Seq(Frame) /\ stack[p] # <<>>
  BY DEF DoneInv, RmrfInv, Confined, TypeOK, Running
<1>2. stack' = [stack EXCEPT ![p] = s] /\ Shape(s) /\ \A m : ~Unlinks(p, m)'
  BY AfterReturn
<1>3. \A n \in Left : InHands(stack[p], n) => InHands(s, n) \/ Excused(n)
  BY <1>1, PopHands DEF Now
<1> HIDE DEF s
<1> QED
  BY <1>2, <1>3, DoneKept

\* An activation that returns early has found its file gone, or a file that
\* rmrf does not remove.
LEMMA EarlyReturn ==
  ASSUME DoneInv, NEW p \in Actor, Running(p), NEW n \in Left, InHand(Now(p), n),
         \/ ~Exists(Now(p).path_c)
         \/ kind[Resolved(Now(p).path_c)] = "special"
  PROVE  Excused(n)
<1> DEFINE f == Now(p).path_c
<1>1. TypeOK /\ TreeInv /\ DirInv
  BY DEF DoneInv, RmrfInv, Confined
<1>2. f \in File /\ n \in live /\ n \in File
  <2>1. f \in born
    BY NowGood DEF FrameOK, DoneInv
  <2> QED
    BY <1>1, <2>1 DEF Left, TypeOK
\* Its file is there, or nothing below it is.
<1>3. n = f \/ \E e \in File : parent[e] = f /\ n \in {e} \cup Below(e)
  BY DEF InHand, Todo
<1>4. n = f \/ n \in Below(f)
  <2>1. ASSUME NEW e \in File, parent[e] = f, n \in {e} \cup Below(e)
        PROVE  n \in Below(f)
    BY <1>1, <1>2, <2>1, BelowStep, BelowEntry
  <2> QED
    BY <1>3, <2>1
<1>5. CASE n = f
  <2>1. CASE kind[f] = "link"
    <3>1. ~(Exists(f) /\ kind[target[f]] = "reg")
      BY <2>1 DEF Resolved
    <3> QED
      BY <1>5, <2>1, <3>1 DEF Excused
  <2>2. CASE kind[f] # "link"
    <3>1. Exists(f) /\ Resolved(f) = f
      BY <1>2, <1>5, <2>2 DEF Exists, Resolved
    <3> QED
      BY <1>5, <3>1 DEF Excused
  <2> QED
    BY <2>1, <2>2
<1>6. CASE n # f
  <2>1. kind[f] = "dir"
    BY <1>1, <1>2, <1>4, <1>6, NothingBelow
  <2>2. f \in live
    BY <1>1, <1>2, <1>4, <1>6, DeadBelow
  <2>3. Exists(f) /\ Resolved(f) = f
    BY <2>1, <2>2 DEF Exists, Resolved
  <2> QED
    BY <2>1, <2>3
<1> QED
  BY <1>5, <1>6

\* On a direct path there is at most one link, its last name.
LEMMA DirectLinks ==
  ASSUME NEW p \in Actor, stack[p] \in Seq(Frame), stack[p] # <<>>,
         Direct(stack[p], Len(stack[p]))
  PROVE  Links(p) <= LinkLimit
<1> DEFINE l == Len(stack[p])
           S == {i \in 1..l : kind[stack[p][i].path_c] = "link" /\ ~stack[p][i].base}
<1>1. l \in Nat \ {0}
  BY EmptySeq
<1>2. \A i \in 1..l : i = l \/ i \in 1..(l - 1)
  BY <1>1
<1>3. S \in SUBSET {l}
  BY <1>2 DEF Direct
<1> HIDE DEF S, l
<1>4. IsFiniteSet({l}) /\ Cardinality({l}) = 1
  BY FS_Singleton
<1>5. Cardinality(S) <= 1 /\ Cardinality(S) \in Nat
  BY <1>3, <1>4, FS_Subset, FS_CardinalityType
<1>6. LinkLimit \in Nat \ {0}
  BY RmrfAssumption
<1>7. Links(p) = Cardinality(S)
  BY DEF Links, S, l
<1> QED
  BY <1>5, <1>6, <1>7

LEMMA AccessDone ==
  ASSUME DoneInv, RmrfInv', NEW p \in Actor, Access(p)
  PROVE  DoneInv'
<1>1. Running(p) /\ Now(p).at = "access" /\ UNCHANGED <<tree, live, born, star, crashed>>
  BY DEF Access, At
<1>2. stack[p] \in Seq(Frame) /\ stack[p] # <<>> /\ Now(p) \in Frame
  BY <1>1, NowGood DEF DoneInv, RmrfInv, Confined, TypeOK, Running
<1>3. CASE Goto(p, "stat")
  <2> DEFINE g == [Now(p) EXCEPT !.at = "stat"]
  <2>1. /\ g \in Frame /\ g.path_c = Now(p).path_c /\ g.base = Now(p).base /\ g.at = "stat"
        /\ g.must = Now(p).must /\ g.seen = Now(p).seen
    BY <1>2 DEF Frame, PC
  <2>2. stack' = [stack EXCEPT ![p][Len(stack[p])] = g]
    BY <1>3 DEF Goto, Now
  <2> HIDE DEF g
  <2>3. Todo(g) = Todo(Now(p))
    BY <1>1, <2>1 DEF Todo
  <2>4. \A n : InHand(Now(p), n) => InHand(g, n)
    BY <2>1, <2>3 DEF InHand
  <2> QED
    BY <1>1, <2>1, <2>2, <2>4, DoneContinue
<1>4. CASE Return(p) /\ (~Exists(Now(p).path_c) \/ Links(p) > LinkLimit)
  <2>1. ASSUME NEW n \in Left, Direct(stack[p], Len(stack[p])), InHand(Now(p), n)
        PROVE  Excused(n)
    <3>1. Links(p) <= LinkLimit
      BY <1>2, <2>1, DirectLinks
    <3>2. Links(p) \in Nat /\ LinkLimit \in Nat
      <4>1. IsFiniteSet(1..Len(stack[p]))
        BY <1>2, FS_Interval, LenProperties
      <4>2. {i \in 1..Len(stack[p]) :
               kind[stack[p][i].path_c] = "link" /\ ~stack[p][i].base}
              \in SUBSET (1..Len(stack[p]))
        OBVIOUS
      <4> QED
        BY <4>1, <4>2, FS_Subset, FS_CardinalityType, RmrfAssumption DEF Links
    <3>3. ~Exists(Now(p).path_c)
      BY <1>4, <3>1, <3>2
    <3> QED
      BY <1>1, <2>1, <3>3, EarlyReturn
  <2> QED
    BY <1>1, <1>4, <2>1, DoneReturn
<1> QED
  BY <1>3, <1>4 DEF Access

\* An activation that has nothing but its file in hand goes on.
LEMMA GotoDone ==
  ASSUME DoneInv, RmrfInv', NEW p \in Actor, Running(p),
         UNCHANGED <<tree, live, born, star, crashed>>,
         NEW l \in PC, Goto(p, l),
         \/ l = "opendir" /\ Now(p).at = "stat"
         \/ \A e \in Todo(Now(p)) : Left \cap ({e} \cup Below(e)) = {},
         l = "unlink" /\ kind[Now(p).path_c] = "link"
           => Exists(Now(p).path_c) /\ kind[target[Now(p).path_c]] = "reg"
  PROVE  DoneInv'
<1> DEFINE g == [Now(p) EXCEPT !.at = l]
<1>1. Now(p) \in Frame
  BY NowGood DEF DoneInv
<1>2. /\ g \in Frame /\ g.path_c = Now(p).path_c /\ g.base = Now(p).base /\ g.at = l
      /\ g.must = Now(p).must /\ g.seen = Now(p).seen
  BY <1>1 DEF Frame
<1>3. stack' = [stack EXCEPT ![p][Len(stack[p])] = g]
  BY DEF Goto, Now
<1> HIDE DEF g
<1>4. l = "opendir" /\ Now(p).at = "stat" => Todo(g) = Todo(Now(p))
  BY <1>2 DEF Todo
<1>5. \A n \in Left : InHand(Now(p), n) => InHand(g, n)
  BY <1>2, <1>4 DEF InHand
<1> QED
  BY <1>2, <1>3, <1>5, DoneContinue

LEMMA StatDone ==
  ASSUME DoneInv, RmrfInv', NEW p \in Actor, Stat(p)
  PROVE  DoneInv'
<1> DEFINE f == Now(p).path_c
<1>1. Running(p) /\ Now(p).at = "stat" /\ UNCHANGED <<tree, live, born, star, crashed>>
  BY DEF Stat, At
<1>2. TypeOK /\ TreeInv /\ DirInv /\ f \in File
  BY <1>1, NowGood DEF DoneInv, RmrfInv, Confined, TypeOK, FrameOK
<1>3. CASE Return(p) /\ (~Exists(f) \/ kind[Resolved(f)] = "special")
  BY <1>1, <1>3, EarlyReturn, DoneReturn
<1>4. CASE Exists(f) /\ kind[Resolved(f)] = "reg" /\ Goto(p, "unlink")
  <2>1. kind[f] # "dir" /\ (kind[f] = "link" => kind[target[f]] = "reg")
    BY <1>4 DEF Resolved
  <2>2. Todo(Now(p)) = {}
    BY <1>2, <2>1, NothingBelow DEF Todo
  <2> QED
    BY <1>1, <1>4, <2>1, <2>2, GotoDone DEF PC
<1>5. CASE Goto(p, "opendir")
  BY <1>1, <1>5, GotoDone DEF PC
<1> QED
  BY <1>3, <1>4, <1>5 DEF Stat

LEMMA UnlinkDone ==
  ASSUME DoneInv, RmrfInv', NEW p \in Actor, Unlink(p)
  PROVE  DoneInv'
<1>1. Running(p) /\ Unlinks(p, Now(p).path_c)
  BY DEF Unlink, Unlinks, At
<1> QED
  BY <1>1, DoneRemoved DEF Unlink

LEMMA RmdirDone ==
  ASSUME DoneInv, RmrfInv', NEW p \in Actor, Rmdir(p)
  PROVE  DoneInv'
<1> DEFINE f == Now(p).path_c
<1>1. Running(p) /\ At(p, "rmdir") /\ UNCHANGED <<tree, born, star, crashed>> /\ Return(p)
  BY DEF Rmdir, At
<1>2. CASE kind[f] = "dir" /\ Entries(f) = {}
  BY <1>1, <1>2, DoneRemoved DEF Rmdir
<1>3. CASE ~(kind[f] = "dir" /\ Entries(f) = {})
  <2>1. UNCHANGED live
    BY <1>3 DEF Rmdir
  <2>2. ASSUME NEW n \in Left, InHand(Now(p), n)
        PROVE  Excused(n)
    <3>1. n = f
      BY <1>1, <2>2 DEF InHand, Todo, At
    <3>2. kind[Resolved(f)] = "dir"
      BY <1>1, NowGood DEF At, FrameOK, DoneInv
    <3>3. CASE kind[f] = "dir"
      BY <1>3, <3>1, <3>3 DEF Excused
    <3>4. CASE kind[f] # "dir"
      BY <3>1, <3>2, <3>4 DEF Excused, Resolved
    <3> QED
      BY <3>3, <3>4
  <2> QED
    BY <1>1, <2>1, <2>2, DoneReturn
<1> QED
  BY <1>2, <1>3

LEMMA OpendirDone ==
  ASSUME DoneInv, RmrfInv', NEW p \in Actor, Opendir(p)
  PROVE  DoneInv'
<1> DEFINE f == Now(p)
           d == Resolved(f.path_c)
           g == [f EXCEPT !.at = "readdir", !.seen = {}, !.must = Entries(d)]
<1>1. Running(p) /\ f.at = "opendir" /\ UNCHANGED <<tree, live, born, star>>
  BY DEF Opendir, At
<1>2. TypeOK /\ TreeInv /\ DirInv /\ f \in Frame /\ f.path_c \in File
  BY <1>1, NowGood DEF DoneInv, RmrfInv, Confined, TypeOK, FrameOK
<1>3. CASE UNCHANGED crashed /\ stack' = [stack EXCEPT ![p][Len(stack[p])] = g]
  <2>1. Entries(d) \subseteq File
    BY <1>2 DEF Entries, TypeOK
  <2>2. /\ g \in Frame /\ g.path_c = f.path_c /\ g.base = f.base /\ g.at = "readdir"
        /\ g.must = Entries(d) /\ g.seen = {}
    BY <1>2, <2>1 DEF Frame, PC
  <2> HIDE DEF f, g
  <2>3. ASSUME NEW n \in Left, InHand(f, n)
        PROVE  InHand(g, n)
    <3>1. CASE n = f.path_c /\ ~f.base
      BY <2>2, <3>1 DEF InHand
    <3>2. CASE \E e \in Todo(f) : n \in {e} \cup Below(e)
      <4>1. PICK e \in Todo(f) : n \in {e} \cup Below(e)
        BY <3>2
      <4>2. e \in File /\ parent[e] = f.path_c /\ ~(f.base /\ name[e] = "hidden")
        BY <4>1 DEF Todo
      <4>3. d = f.path_c
        BY <1>2, <4>2, NothingBelow DEF Resolved
      <4>4. n \in live
        BY DEF Left
      <4>5. e \in live
        BY <1>2, <4>1, <4>2, <4>4, DeadBelow
      <4>6. e \in g.must \ g.seen
        BY <2>2, <4>2, <4>3, <4>5 DEF Entries
      <4>7. e \in Todo(g)
        BY <2>2, <4>2, <4>6 DEF Todo
      <4> QED
        BY <4>1, <4>7 DEF InHand
    <3> QED
      BY <2>3, <3>1, <3>2 DEF InHand
  <2> QED
    BY <1>1, <1>3, <2>2, <2>3, DoneContinue DEF f
<1>4. CASE crashed' = crashed \cup {p} /\ UNCHANGED stack
  <2>1. stack' = [stack EXCEPT ![p] = stack[p]] /\ Shape(stack[p])
    BY <1>2, <1>4 DEF TypeOK, DoneInv, ShapeInv
  <2>2. \A m : ~Unlinks(p, m)'
    BY <1>4 DEF Unlinks, At, Running
  <2> QED
    BY <1>1, <1>4, <2>1, <2>2, DoneKept
<1> QED
  BY <1>3, <1>4, Zenon DEF Opendir, Now

\* An entry is passed: what is left to do but for it.
LEMMA SeenTodo ==
  ASSUME NEW f \in Frame, f.at = "readdir", NEW e \in File
  PROVE  LET g == [f EXCEPT !.seen = @ \cup {e}] IN
           /\ g \in Frame /\ g.path_c = f.path_c /\ g.base = f.base /\ g.at = "readdir"
           /\ \A n : InHand(f, n) =>
                InHand(g, n) \/ (e \in Todo(f) /\ n \in {e} \cup Below(e))
<1> DEFINE g == [f EXCEPT !.seen = @ \cup {e}]
<1>1. /\ g \in Frame /\ g.path_c = f.path_c /\ g.base = f.base /\ g.at = "readdir"
      /\ g.must = f.must /\ g.seen = f.seen \cup {e}
  BY DEF Frame
<1> HIDE DEF g
<1>2. \A k \in Todo(f) : k = e \/ k \in Todo(g)
  BY <1>1 DEF Todo
<1>3. \A n : InHand(f, n) => InHand(g, n) \/ (e \in Todo(f) /\ n \in {e} \cup Below(e))
  BY <1>1, <1>2 DEF InHand
<1> QED
  BY <1>1, <1>3 DEF g

\* The activation called for entry e has it, and what is below it, in hand.
LEMMA EnterDone ==
  ASSUME DoneInv, RmrfInv', NEW p \in Actor, At(p, "readdir"), NEW e \in Unseen(p),
         Enter(p, e), UNCHANGED <<tree, live, born, star, crashed>>
  PROVE  DoneInv'
<1> DEFINE h == Now(p)
           f == [h EXCEPT !.seen = @ \cup {e}]
           g == IF name[e] = "star" THEN Activation(h.path_c, TRUE) ELSE Activation(e, FALSE)
           s == Append([stack[p] EXCEPT ![Len(stack[p])] = f], g)
<1>1. Running(p) /\ h.at = "readdir"
  BY DEF At
<1>2. TypeOK /\ TreeInv /\ DirInv /\ h \in Frame /\ h.path_c \in File
  BY <1>1, NowGood DEF DoneInv, RmrfInv, Confined, TypeOK, FrameOK
<1>3. stack[p] \in Seq(Frame) /\ stack[p] # <<>> /\ Shape(stack[p])
      /\ h = stack[p][Len(stack[p])]
  BY <1>1, <1>2 DEF DoneInv, TypeOK, Running, ShapeInv, Now
<1>4. e \in File /\ parent[e] = Resolved(h.path_c)
  BY EntryFacts DEF DoneInv
<1>5. /\ f \in Frame /\ f.path_c = h.path_c /\ f.base = h.base /\ f.at = "readdir"
      /\ \A n : InHand(h, n) => InHand(f, n) \/ (e \in Todo(h) /\ n \in {e} \cup Below(e))
  BY <1>1, <1>2, <1>4, SeenTodo
<1>6. /\ g \in Frame /\ g.at = "access"
      /\ name[e] = "star" => g.base /\ g.path_c = h.path_c
      /\ name[e] # "star" => ~g.base /\ g.path_c = e
  BY <1>2, <1>4 DEF Activation, Frame, PC
<1>7. stack' = [stack EXCEPT ![p] = s]
  BY DEF Enter, Now
<1> HIDE DEF f, g, h
<1>8. IF g.base THEN g.path_c = f.path_c ELSE parent[g.path_c] = Resolved(f.path_c)
  BY <1>4, <1>5, <1>6
<1>9. Shape(s)
  BY <1>3, <1>5, <1>6, <1>8, PushShape
<1>10. ASSUME NEW n, e \in Todo(h), n \in {e} \cup Below(e)
       PROVE  kind[f.path_c] # "link" /\ InHand(g, n)
  <2>1. parent[e] = h.path_c /\ kind[h.path_c] = "dir"
    BY <1>2, <1>10, NothingBelow DEF Todo
  <2>2. CASE name[e] = "star"
    <3>1. e \in Todo(g)
      BY <1>4, <1>6, <2>1, <2>2 DEF Todo
    <3> QED
      BY <1>5, <1>10, <2>1, <3>1 DEF InHand
  <2>3. CASE name[e] # "star"
    <3>1. CASE n = e
      BY <1>5, <1>6, <2>1, <2>3, <3>1 DEF InHand
    <3>2. CASE n \in Below(e)
      <4>1. PICK k \in File : parent[k] = e /\ n \in {k} \cup Below(k)
        BY <1>2, <1>4, <3>2, BelowSplit
      <4>2. k \in Todo(g)
        BY <1>6, <2>3, <4>1 DEF Todo
      <4> QED
        BY <1>5, <2>1, <4>1, <4>2 DEF InHand
    <3> QED
      BY <1>10, <3>1, <3>2
  <2> QED
    BY <2>2, <2>3
<1>11. \A n : InHands(stack[p], n) => InHands(s, n)
  BY <1>3, <1>5, <1>6, <1>10, PushHands
<1>12. \A m : ~Unlinks(p, m)'
  <2>1. stack'[p] = s
    BY <1>2, <1>7 DEF TypeOK
  <2>2. s # <<>> /\ s[Len(s)] = g
    <3>1. Len(s) = Len(stack[p]) + 1 /\ Len(stack[p]) \in Nat
          /\ \A j \in 1..(Len(stack[p]) + 1) :
               s[j] = IF j = Len(stack[p]) + 1 THEN g
                      ELSE IF j = Len(stack[p]) THEN f ELSE stack[p][j]
      BY <1>3, <1>5, <1>6, PushLast, LenProperties
    <3> HIDE DEF s
    <3>2. Len(s) \in 1..(Len(stack[p]) + 1) /\ Len(s) # 0
      BY <3>1
    <3>3. s # <<>>
      BY <3>2, EmptySeq
    <3> QED
      BY <3>1, <3>2, <3>3
  <2> HIDE DEF s
  <2> QED
    BY <1>6, <2>1, <2>2 DEF Unlinks, At, Now
<1> HIDE DEF s
<1> QED
  BY <1>7, <1>9, <1>11, <1>12, DoneKept

LEMMA ReaddirDone ==
  ASSUME DoneInv, RmrfInv', NEW p \in Actor, Readdir(p)
  PROVE  DoneInv'
<1>1. At(p, "readdir") /\ Running(p) /\ Now(p).at = "readdir"
      /\ UNCHANGED <<tree, live, born, star, crashed>>
  BY DEF Readdir, At
<1>2. PICK e \in Unseen(p) :
        \/ Enter(p, e)
        \/ /\ Now(p).base /\ name[e] = "hidden"
           /\ stack' = [stack EXCEPT ![p][Len(stack[p])].seen = @ \cup {e}]
  BY DEF Readdir
<1>3. CASE Enter(p, e)
  BY <1>1, <1>3, EnterDone
<1>4. CASE /\ Now(p).base /\ name[e] = "hidden"
           /\ stack' = [stack EXCEPT ![p][Len(stack[p])].seen = @ \cup {e}]
  <2> DEFINE g == [Now(p) EXCEPT !.seen = @ \cup {e}]
  <2>1. e \in File /\ Now(p) \in Frame
    BY <1>1, EntryFacts, NowGood DEF DoneInv
  <2>2. /\ g \in Frame /\ g.path_c = Now(p).path_c /\ g.base = Now(p).base /\ g.at = "readdir"
        /\ \A n : InHand(Now(p), n) =>
             InHand(g, n) \/ (e \in Todo(Now(p)) /\ n \in {e} \cup Below(e))
    BY <1>1, <2>1, SeenTodo
  <2>3. stack' = [stack EXCEPT ![p][Len(stack[p])] = g]
    BY <1>4 DEF Now
  <2>4. e \notin Todo(Now(p))
    BY <1>4 DEF Todo
  <2> HIDE DEF g
  <2> QED
    BY <1>1, <2>2, <2>3, <2>4, DoneContinue
<1> QED
  BY <1>2, <1>3, <1>4

LEMMA ClosedirDone ==
  ASSUME DoneInv, RmrfInv', NEW p \in Actor, Closedir(p)
  PROVE  DoneInv'
<1>1. Running(p) /\ Now(p).at = "readdir" /\ UNCHANGED <<tree, live, born, star, crashed>>
  BY DEF Closedir, At
<1>2. TypeOK /\ TreeInv /\ DirInv
  BY DEF DoneInv, RmrfInv, Confined
\* The entries it has not seen are gone, with what was below them.
<1>3. ASSUME NEW e \in Todo(Now(p))
      PROVE  Left \cap ({e} \cup Below(e)) = {}
  <2>1. e \in File \ live
    BY <1>1 DEF Todo, Closedir
  <2> QED
    BY <1>2, <2>1, DeadBelow DEF Left
<1>4. CASE Now(p).base /\ Return(p)
  <2>1. \A n \in Left : ~InHand(Now(p), n)
    BY <1>3, <1>4 DEF InHand
  <2> QED
    BY <1>1, <1>4, <2>1, DoneReturn
<1>5. CASE Goto(p, "rmdir")
  BY <1>1, <1>3, <1>5, GotoDone DEF PC
<1> QED
  BY <1>4, <1>5 DEF Closedir

\* A file another program creates changes nothing of what a process has in hand.
LEMMA CreateHands ==
  ASSUME DoneInv, NEW n \in Late, Create(n), NEW f \in Frame, NEW m \in File \ {n}, InHand(f, m)
  PROVE  InHand(f, m)'
<1>1. TypeOK /\ TreeInv /\ DirInv /\ RmrfInv
  BY DEF DoneInv, RmrfInv, Confined
<1>2. name' = name
  BY DEF Create
<1>3. CASE m = f.path_c /\ ~f.base
  BY <1>3 DEF InHand
<1>4. CASE \E e \in Todo(f) : m \in {e} \cup Below(e)
  <2>1. PICK e \in Todo(f) : m \in {e} \cup Below(e)
    BY <1>4
  <2>2. e \in File /\ parent[e] = f.path_c /\ f.path_c \in File
    BY <2>1 DEF Todo, Frame
  <2>3. e \in born
    BY <1>1, <2>2, Constants DEF DirInv
  <2>4. parent'[e] = parent[e] /\ Below(e) \subseteq Below(e)' \cup {n}
    BY <1>1, <2>2, <2>3, CreateKeeps
  <2>5. e \in Todo(f)'
    BY <1>2, <2>1, <2>4 DEF Todo
  <2>6. m \in {e} \cup Below(e)'
    BY <2>1, <2>4
  <2> QED
    BY <2>5, <2>6 DEF InHand
<1> QED
  BY <1>3, <1>4 DEF InHand

LEMMA CreateDone ==
  ASSUME DoneInv, RmrfInv', NEW n \in Late, Create(n)
  PROVE  DoneInv'
<1>1. TypeOK /\ TreeInv /\ DirInv /\ RmrfInv /\ ShapeInv /\ StackInv
  BY DEF DoneInv, RmrfInv, Confined
<1>2. UNCHANGED <<kind, name, target, star, stack, crashed>>
      /\ live' = live \cup {n} /\ born' = born \cup {n}
  BY DEF Create
<1>3. PICK d \in live : kind[d] = "dir" /\ parent' = [parent EXCEPT ![n] = d]
  BY DEF Create
<1>4. /\ n \notin born /\ n \in File /\ n \notin Old /\ live \subseteq born /\ Old \subseteq born
      /\ kind[n] = "reg"
  BY <1>1, CreateKeeps DEF TypeOK, TreeInv
<1>5. \A m \in File : parent'[m] = IF m = n THEN d ELSE parent[m]
  BY <1>1, <1>3 DEF TypeOK
<1>6. \A e \in File : Below(e) \subseteq Below(e)' \cup {n} /\ Below(e)' \subseteq Below(e) \cup {n}
  BY <1>1, CreateKeeps
<1>7. DirInv'
  <2>1. ASSUME NEW m \in File
        PROVE  /\ m \notin born' => parent'[m] = Root
               /\ parent'[m] # Root => kind[parent'[m]] = "dir" /\ (m \in live' => parent'[m] \in live')
    BY <1>1, <1>2, <1>3, <1>5 DEF DirInv
  <2> QED
    BY <1>2, <2>1 DEF DirInv
<1>8. ASSUME NEW p \in Actor
      PROVE  /\ stack[p] \in Seq(Frame) /\ Len(stack[p]) \in Nat
             /\ \A i \in 1..Len(stack[p]) : stack[p][i] \in Frame /\ stack[p][i].path_c \in born
  <2>1. stack[p] \in Seq(Frame)
    BY <1>1 DEF TypeOK
  <2>2. \A i \in 1..Len(stack[p]) : stack[p][i].path_c \in born
    BY <1>1 DEF StackInv, FrameOK
  <2> QED
    BY <2>1, <2>2, LenProperties, ElementOfSeq
<1>9. ShapeInv'
  <2>1. ASSUME NEW p \in Actor
        PROVE  Shape(stack[p])'
    <3>1. PICK s : s = stack[p]
      OBVIOUS
    <3>2. \A i \in 1..Len(s) : parent'[s[i].path_c] = parent[s[i].path_c]
      BY <1>1, <1>8, <3>1, CreateKeeps
    <3>3. Shape(s)
      BY <1>1, <3>1 DEF ShapeInv
    <3>4. ASSUME NEW i \in 1..Len(s)
          PROVE  /\ i < Len(s) => s[i].at = "readdir"
                 /\ IF i = 1 THEN s[i].path_c = Top /\ s[i].base = star
                    ELSE IF s[i].base THEN s[i].path_c = s[i - 1].path_c
                    ELSE parent'[s[i].path_c] = Resolved(s[i - 1].path_c)
      BY <3>2, <3>3 DEF Shape
    <3>5. stack'[p] = s
      BY <1>2, <3>1
    <3> QED
      BY <1>2, <3>4, <3>5 DEF Shape, Resolved
  <2> QED
    BY <2>1 DEF ShapeInv
<1>10. Left' \subseteq Left \cup {n} /\ Left \subseteq File \ {n}
  <2>1. Top \in File
    BY Constants
  <2> QED
    BY <1>1, <1>2, <1>4, <1>6, <2>1 DEF Left, TypeOK
<1>11. ASSUME NEW m \in Left, NEW p \in Actor, Handles(p, m)
       PROVE  Handles(p, m)'
  <2>1. PICK s : s = stack[p] /\ stack'[p] = s
    BY <1>2
  <2>2. PICK i \in 1..Len(s) : Direct(s, i) /\ InHand(s[i], m)
    BY <1>11, <2>1 DEF Handles, InHands
  <2>3. PICK f \in Frame : f = s[i]
    BY <1>8, <2>1, <2>2
  <2>4. InHand(f, m)'
    BY <1>10, <2>2, <2>3, CreateHands
  <2> QED
    BY <1>2, <2>1, <2>2, <2>3, <2>4 DEF Handles, InHands, InHand, Todo, Direct
<1>12. Hidden \cap born \subseteq Hidden'
  <2> DEFINE top == {h \in Old : parent[h] = Top /\ name[h] = "hidden"}
  <2>1. top' = top /\ top \subseteq File
    BY <1>1, <1>2, CreateKeeps DEF File
  <2>2. Hidden = top \cup UNION {Below(h) : h \in top}
        /\ Hidden' = top' \cup UNION {Below(h)' : h \in top'}
    BY DEF Hidden
  <2> HIDE DEF top
  <2> QED
    BY <1>4, <1>6, <2>1, <2>2
<1>13. ASSUME NEW m \in Left
       PROVE  /\ m \in File /\ m \in born /\ m # n
              /\ Kept(m) => Kept(m)'
              /\ Emptied(m) => Emptied(m)'
  <2>1. m \in File /\ m \in born /\ m # n
    BY <1>4, <1>10 DEF Left
  <2>2. Kept(m) => Kept(m)'
    BY <1>2, <1>12, <2>1 DEF Kept
  <2>3. Emptied(m) => Emptied(m)'
    BY <1>2, <1>4, <1>5 DEF Emptied, File
  <2> QED
    BY <2>1, <2>2, <2>3
<1>14. ASSUME NEW m \in Left, Excused(m)
       PROVE  Excused(m)'
  <2>1. Exists(m)' => Exists(m)
    <3>1. Resolved(m)' = Resolved(m) /\ Resolved(m) # n
      BY <1>1, <1>2, <1>3, <1>4, <1>13, Constants DEF Resolved, TypeOK, File
    <3> QED
      BY <1>2, <1>13, <3>1 DEF Exists
  <2>2. Entries(m) \subseteq Entries(m)'
    BY <1>1, <1>2, <1>4, <1>5 DEF Entries, TypeOK
  <2>3. Below(m) \cap (born \ Old) \subseteq Below(m)' \cap (born' \ Old)
    BY <1>2, <1>4, <1>6, <1>13
  <2> QED
    BY <1>2, <1>13, <1>14, <2>1, <2>2, <2>3 DEF Excused
<1>15. Excused(n)'
  BY <1>4 DEF Excused
<1>16. UnlinkInv'
  <2>1. ASSUME NEW p \in Actor, NEW m \in Left', Unlinks(p, m)', kind'[m] = "link"
        PROVE  Handles(p, m)' \/ Kept(m)'
    <3>1. m \in Left
      BY <1>2, <1>4, <1>10, <2>1
    <3>2. Unlinks(p, m)
      BY <1>2, <2>1 DEF Unlinks, At, Running, Now
    <3>3. Handles(p, m) \/ Kept(m)
      BY <1>2, <2>1, <3>1, <3>2 DEF DoneInv, UnlinkInv
    <3> QED
      BY <1>11, <1>13, <3>1, <3>3
  <2> QED
    BY <2>1 DEF UnlinkInv
<1>17. LeftInv'
  <2>1. ASSUME NEW m \in Left'
        PROVE  /\ \A p \in Actor \ crashed' : Excused(m)' \/ Emptied(m)' \/ Handles(p, m)'
               /\ crashed' = {} => Excused(m)' \/ \E p \in Actor : Handles(p, m)'
    <3>1. CASE m = n
      BY <1>15, <3>1
    <3>2. CASE m \in Left
      <4>1. /\ \A p \in Actor \ crashed : Excused(m) \/ Emptied(m) \/ Handles(p, m)
            /\ crashed = {} => Excused(m) \/ \E p \in Actor : Handles(p, m)
        BY <3>2 DEF DoneInv, LeftInv
      <4> QED
        BY <1>2, <1>11, <1>13, <1>14, <3>2, <4>1
    <3> QED
      BY <1>10, <2>1, <3>1, <3>2
  <2> QED
    BY <2>1 DEF LeftInv
<1> QED
  BY <1>7, <1>9, <1>16, <1>17 DEF DoneInv

LEMMA DoneInit ==
  ASSUME Init
  PROVE  DoneInv
<1>1. RmrfInv /\ TypeOK /\ TreeInv
  BY InitInv DEF RmrfInv, Confined
<1>2. live = Old /\ born = Old /\ crashed = {} /\ star \in BOOLEAN
  BY DEF Init
<1>3. DirInv
  <2>1. ASSUME NEW n \in File
        PROVE  /\ n \notin born => parent[n] = Root
               /\ parent[n] # Root => kind[parent[n]] = "dir" /\ (n \in live => parent[n] \in live)
    <3>1. n \in Late \cup {Top} => parent[n] = Root
      BY DEF Init
    <3>2. n \in Old \ {Top} => (parent[n] # Root => kind[parent[n]] = "dir")
      BY DEF Init
    <3>3. parent[n] \in Old \cup {Root}
      BY <1>1, <1>2 DEF TreeInv
    <3> QED
      BY <1>2, <3>1, <3>2, <3>3 DEF File
  <2> QED
    BY <2>1 DEF DirInv
<1>4. ASSUME NEW p \in Actor
      PROVE  Len(stack[p]) = 1 /\ stack[p][1] = Activation(Top, star) /\ stack[p] # <<>>
  BY DEF Init
<1>5. ShapeInv
  <2>1. ASSUME NEW p \in Actor
        PROVE  Shape(stack[p])
    <3>1. Activation(Top, star).path_c = Top /\ Activation(Top, star).base = star
      BY DEF Activation
    <3>2. ASSUME NEW i \in 1..Len(stack[p])
          PROVE  i = 1 /\ ~(i < Len(stack[p]))
      <4>1. Len(stack[p]) = 1
        BY <1>4
      <4> QED
        BY <4>1
    <3> QED
      BY <1>4, <3>1, <3>2 DEF Shape
  <2> QED
    BY <2>1 DEF ShapeInv
<1>6. \A p \in Actor : ~At(p, "unlink")
  BY <1>4 DEF At, Now, Activation
<1>7. UnlinkInv
  BY <1>6 DEF UnlinkInv, Unlinks
<1>8. ASSUME NEW p \in Actor, NEW n \in Left
      PROVE  Handles(p, n) \/ Kept(n)
  <2> DEFINE f == Activation(Top, star)
  <2>1. f.path_c = Top /\ f.base = star /\ f.at = "access"
    BY DEF Activation
  <2> HIDE DEF f
  <2>2. Direct(stack[p], 1)
    BY DEF Direct
  <2>3. InHand(f, n) => Handles(p, n)
    BY <1>4, <2>2 DEF Handles, InHands, f
  <2>4. CASE n = Top
    BY <1>2, <2>1, <2>3, <2>4 DEF InHand, Kept
  <2>5. CASE n \in Below(Top)
    <3>1. PICK e \in File : parent[e] = Top /\ n \in {e} \cup Below(e)
      BY <1>1, <2>5, BelowSplit, Constants
    <3>2. CASE star /\ name[e] = "hidden"
      <4>1. e \in Old
        BY <1>2, <1>3, <3>1, Constants DEF DirInv
      <4> QED
        BY <3>1, <3>2, <4>1 DEF Kept, Hidden
    <3>3. CASE ~(star /\ name[e] = "hidden")
      <4>1. e \in Todo(f)
        BY <2>1, <3>1, <3>3 DEF Todo
      <4> QED
        BY <2>3, <3>1, <4>1 DEF InHand
    <3> QED
      BY <3>2, <3>3
  <2> QED
    BY <2>4, <2>5 DEF Left
<1>9. LeftInv
  <2>1. \E p \in Actor : TRUE
    BY RmrfAssumption
  <2> QED
    BY <1>8, <2>1 DEF LeftInv, Excused
<1> QED
  BY <1>1, <1>3, <1>5, <1>7, <1>9 DEF DoneInv

LEMMA DoneNext ==
  ASSUME DoneInv, [Next]_vars
  PROVE  DoneInv'
<1>1. RmrfInv'
  BY NextInv DEF DoneInv
<1>2. ASSUME NEW p \in Actor, rmrf(p)
      PROVE  DoneInv'
  <2>1. CASE Access(p)
    BY <1>1, <2>1, AccessDone
  <2>2. CASE Stat(p)
    BY <1>1, <2>2, StatDone
  <2>3. CASE Unlink(p)
    BY <1>1, <2>3, UnlinkDone
  <2>4. CASE Opendir(p)
    BY <1>1, <2>4, OpendirDone
  <2>5. CASE Readdir(p)
    BY <1>1, <2>5, ReaddirDone
  <2>6. CASE Closedir(p)
    BY <1>1, <2>6, ClosedirDone
  <2>7. CASE Rmdir(p)
    BY <1>1, <2>7, RmdirDone
  <2> QED
    BY <1>2, <2>1, <2>2, <2>3, <2>4, <2>5, <2>6, <2>7 DEF rmrf
<1>3. ASSUME UNCHANGED vars
      PROVE  DoneInv'
  <2>1. PICK p \in Actor : TRUE
    BY RmrfAssumption
  <2>2. UNCHANGED <<tree, live, born, star>> /\ stack' = stack /\ crashed' = crashed
    BY <1>3 DEF vars
  <2>3. stack' = [stack EXCEPT ![p] = stack[p]] /\ Shape(stack[p])
    BY <2>2 DEF DoneInv, RmrfInv, Confined, TypeOK, ShapeInv
  <2>4. \A m \in Left : Unlinks(p, m)' /\ kind[m] = "link" => InHands(stack[p], m) \/ Kept(m)
    BY <2>2 DEF DoneInv, UnlinkInv, Unlinks, At, Running, Now, Handles
  <2> QED
    BY <1>1, <2>2, <2>3, <2>4, DoneKept
<1> QED
  BY <1>1, <1>2, <1>3, CreateDone DEF Next

\* Whatever the processes and the creations interleave to, each process still
\* has in hand what is left of the tree, or there is an excuse for it.
THEOREM DoneInvCorrect == Spec => []DoneInv
<1>1. Init => DoneInv
  BY DoneInit
<1>2. DoneInv /\ [Next]_vars => DoneInv'
  BY DoneNext
<1> QED
  BY <1>1, <1>2, PTL DEF Spec

\* rmrf (004/rmrf.cpp:26): when every process has returned from it, the tree is
\* gone but for what is excused; when some have crashed, but for that and for
\* directories that were emptied.
THEOREM CompleteCorrect == Spec => []Complete
<1>1. DoneInv => Complete
  <2> SUFFICES ASSUME DoneInv, \A p \in Actor : ~Running(p)
               PROVE  /\ crashed = {} => \A n \in Left : Excused(n)
                      /\ crashed # Actor => \A n \in Left : Excused(n) \/ Emptied(n)
    BY DEF Complete
  <2>1. \A p \in Actor \ crashed : \A n : ~Handles(p, n)
    BY DEF Running, Handles, InHands
  <2>2. crashed \subseteq Actor
    BY DEF DoneInv, RmrfInv, Confined, TypeOK
  <2> QED
    BY <2>1, <2>2 DEF DoneInv, LeftInv
<1> QED
  BY <1>1, DoneInvCorrect, PTL
=============================================================================
