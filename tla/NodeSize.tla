------------------------------ MODULE NodeSize ------------------------------
(***************************************************************************)
(* get_node_size of 008/main.cpp adds up the sizes of the files in a       *)
(* directory tree, while other programs create and remove files in it.     *)
(* One action is one call that looks at the file system.                   *)
(*                                                                         *)
(* A path is represented by the file it names last; 0 is the directory     *)
(* main asks for.  Where each file is, and what a link points to, never    *)
(* changes; whether it is there does.                                      *)
(***************************************************************************)
EXTENDS Integers, Sequences

CONSTANTS
  MaxNode,  \* bound: the files that may be in the tree are 1..MaxNode
  Links,    \* symbolic links a path may go through (40 on Linux, then ELOOP)
  st_size   \* the size of each of them

Top == 0
Uninit == -1   \* main does not initialise sizee

Nodes == 1..MaxNode
Files == 0..MaxNode

ASSUME SizeAssumption ==
  MaxNode \in Nat /\ Links \in Nat /\ st_size \in [Nodes -> Nat]

VARIABLES
  shape,   \* of each file: its kind, the directory it is in, a link's target
  there,   \* the files that exist
  always, ever,  \* the files that existed all the time, or at some time
  frames,  \* the activations of get_node_size, the innermost last
  sizee    \* the variable of main

nsVars == <<shape, there, always, ever, frames, sizee>>

\* "locked" is a directory that may not be read, "special" a device or a socket.
Kinds == {"reg", "dir", "locked", "link", "special"}

Parent(f) == shape[f].parent
Kind(f) == shape[f].kind

\* An activation: the file path names last and the one it leads to, the files
\* that path goes through since that of the caller, how many links it may still
\* go through, the point reached, the list of scandir, total_size and node_size.
Call(f, left) ==
  [path |-> f, node |-> f, way |-> {f}, left |-> left, at |-> "stat", list |-> {},
   total_size |-> 0, node_size |-> 0]

\* A place in the tree; only a link has a target.
Places ==
  {p \in [kind : Kinds, parent : Files, target : Files] : p.kind = "link" \/ p.target = Top}

NsInit ==
  /\ \E files \in [Nodes -> Places], k \in {"dir", "locked"} :
       shape = [f \in Files |-> IF f = Top THEN [kind |-> k, parent |-> Top, target |-> Top]
                                ELSE files[f]]
  /\ \A f \in Nodes :
       /\ Parent(f) < f /\ Kind(Parent(f)) \in {"dir", "locked"}
       /\ shape[f].target # f
  /\ there \in SUBSET Nodes
  /\ \A f \in there : Parent(f) \in there \cup {Top}
  /\ always = there /\ ever = there
  /\ frames = <<Call(Top, Links)>>
  /\ sizee = Uninit

\* No activation is more than a path with too many links away from the first.
NsTypeOK ==
  /\ always \subseteq there /\ there \subseteq ever /\ ever \subseteq Nodes
  /\ sizee \in Nat \cup {Uninit}
  /\ Len(frames) <= (Links + 1) * (MaxNode + 1)
  /\ \A i \in 1..Len(frames) :
       /\ frames[i].path \in Files /\ frames[i].node \in Files
       /\ frames[i].way \subseteq Files /\ frames[i].left \in 0..Links
       /\ frames[i].at \in {"stat", "scandir", "loop"}
       /\ frames[i].list \subseteq Nodes
       /\ frames[i].total_size \in Nat /\ frames[i].node_size \in Nat

-----------------------------------------------------------------------------
(* Other programs                                                          *)

Finished == frames = <<>>

\* A file is created in a directory that exists, once.
NsCreate(f) ==
  /\ ~Finished /\ f \notin ever /\ Parent(f) \in there \cup {Top}
  /\ there' = there \cup {f} /\ ever' = ever \cup {f}
  /\ UNCHANGED <<shape, always, frames, sizee>>

\* A file, or an empty directory, is removed.
NsRemove(f) ==
  /\ ~Finished /\ f \in there /\ \A g \in there : Parent(g) # f
  /\ there' = there \ {f} /\ always' = always \ {f}
  /\ UNCHANGED <<shape, ever, frames, sizee>>

-----------------------------------------------------------------------------
(* get_node_size                                                           *)

Now == frames[Len(frames)]
NsAt(l) == ~Finished /\ Now.at = l

\* The names path consists of are all there.
Whole == \A i \in 1..Len(frames) : frames[i].way \subseteq there \cup {Top}

\* Where each path ends up when stat follows at most n links: the file, the links
\* it may still go through, and those on the way; nothing if one of the files is
\* missing or there are too many links.
Follow ==
  LET to[n \in 0..Links] ==
        [f \in Files |->
           IF f \notin there \cup {Top} THEN {}
           ELSE IF Kind(f) # "link" THEN {[node |-> f, left |-> n, way |-> {f}]}
           ELSE IF n = 0 THEN {}
           ELSE {[r EXCEPT !.way = @ \cup {f}] : r \in to[n - 1][shape[f].target]}]
  IN  to

\* Mutant: the size is added whatever the call returned.
NsReturnAdds(ret, size) ==
  IF Len(frames) = 1 THEN frames' = <<>> /\ sizee' = IF ret = 0 THEN size ELSE sizee
  ELSE /\ frames' = [i \in 1..(Len(frames) - 1) |->
            IF i < Len(frames) - 1 THEN frames[i]
            ELSE LET up == frames[i]
                     node_size == IF ret = 0 THEN size ELSE up.node_size
                 IN  [up EXCEPT !.node_size = node_size, !.total_size = @ + node_size]]
       /\ UNCHANGED sizee

\* The innermost activation returns ret and, if that is 0, has stored size
\* through its pointer: in node_size of its caller, or in sizee of main.
NsReturn(ret, size) ==
  IF Len(frames) = 1 THEN frames' = <<>> /\ sizee' = IF ret = 0 THEN size ELSE sizee
  ELSE /\ frames' = [i \in 1..(Len(frames) - 1) |->
            IF i < Len(frames) - 1 \/ ret # 0 THEN frames[i]
            ELSE [frames[i] EXCEPT !.node_size = size, !.total_size = @ + size]]
       /\ UNCHANGED sizee

\* The innermost activation goes on as f.
NsGoto(f) == frames' = [frames EXCEPT ![Len(frames)] = f] /\ UNCHANGED sizee

\* stat and the branches on what it found.
NsStat ==
  /\ NsAt("stat")
  /\ LET to == Follow[Now.left][Now.path] IN
     \/ (~Whole \/ to = {}) /\ NsReturn(-1, 0)
     \/ /\ Whole
        /\ \E r \in to :
             \/ Kind(r.node) = "reg" /\ NsReturn(0, st_size[r.node])
             \/ Kind(r.node) = "special" /\ NsReturn(-1, 0)
             \/ /\ Kind(r.node) \in {"dir", "locked"}
                /\ NsGoto([Now EXCEPT !.at = "scandir", !.node = r.node, !.way = r.way,
                                      !.left = r.left])
  /\ UNCHANGED <<shape, there, always, ever>>

\* The entries that filter lets through: all but "." and "..".
Entries(d) == {f \in there : Parent(f) = d}

\* The directory, or the path to it, may be gone by now.
NsScandir ==
  /\ NsAt("scandir")
  /\ \/ /\ Whole /\ Kind(Now.node) = "dir"
        /\ NsGoto([Now EXCEPT !.at = "loop", !.list = Entries(Now.node)])
     \/ (~Whole \/ Kind(Now.node) = "locked") /\ NsReturn(-1, 0)
  /\ UNCHANGED <<shape, there, always, ever>>

\* The list of scandir is sorted, and taken from its end.
NsLoop ==
  /\ NsAt("loop") /\ Now.list # {}
  /\ LET f == CHOOSE n \in Now.list : \A g \in Now.list : g <= n IN
     frames' = Append([frames EXCEPT ![Len(frames)].list = @ \ {f}], Call(f, Now.left))
  /\ UNCHANGED <<shape, there, always, ever, sizee>>

NsEnd ==
  /\ NsAt("loop") /\ Now.list = {}
  /\ NsReturn(0, Now.total_size)
  /\ UNCHANGED <<shape, there, always, ever>>

NsStep == NsStat \/ NsScandir \/ NsLoop \/ NsEnd

NsNext == NsStep \/ \E f \in Nodes : NsCreate(f) \/ NsRemove(f)

NsSpec == NsInit /\ [][NsNext]_nsVars

-----------------------------------------------------------------------------
(* Properties                                                              *)

\* The sum of a function on the files.
Total(v) ==
  LET sum[m \in Files] == IF m = 0 THEN 0 ELSE sum[m - 1] + v[m]
  IN  sum[MaxNode]

\* The sum of the sizes at the ends of all paths from x[1] in the tree sh, through
\* files of S, that use at most x[2] links: one step of its recursion.
SizeAt(sh, S, size, x) ==
  LET f == x[1]
      n == x[2]
  IN  CASE f \in S \cup {Top} /\ sh[f].kind = "reg" -> st_size[f]
        [] f \in S \cup {Top} /\ sh[f].kind = "link" /\ n > 0 ->
             size[<<sh[f].target, n - 1>>]
        [] f \in S \cup {Top} /\ sh[f].kind = "dir" ->
             Total([g \in Nodes |-> IF sh[g].parent = f THEN size[<<g, n>>] ELSE 0])
        [] OTHER -> 0

Sizes(sh, S) ==
  LET size[x \in Files \X (0..Links)] == SizeAt(sh, S, size, x)
  IN  size

\* "get_node_size ... total size of path" (008/main.cpp:39): whatever is created
\* and removed meanwhile, and whichever calls fail for that, the size is at least
\* that of the files that were there all the time, and at most that of those that
\* were there at some time; without such changes it is exact.  A file counts once
\* for each path to it, links to a directory above it included.  main prints an
\* uninitialised size only if the directory itself cannot be read.
NsBetween ==
  /\ NsTypeOK
  /\ Finished =>
       IF Kind(Top) = "locked" THEN sizee = Uninit
       ELSE /\ Sizes(shape, always)[<<Top, Links>>] <= sizee
            /\ sizee <= Sizes(shape, ever)[<<Top, Links>>]

\* get_node_size returns, as long as only finitely many files are created.
NsEnds == <>Finished
=============================================================================
