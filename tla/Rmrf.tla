-------------------------------- MODULE Rmrf --------------------------------
(***************************************************************************)
(* 004/rmrf.cpp removes a file, a directory tree ("a") or the contents of  *)
(* a directory ("a/*").  Several processes run it on the same argument     *)
(* while another program creates files; one action is one call that looks  *)
(* at the file system or changes it.                                       *)
(*                                                                         *)
(* A path is represented by the file it names last.  Files are numbers: 0  *)
(* is the root, 1 what the argument names, and a file is numbered higher   *)
(* than the directory it is in.                                            *)
(***************************************************************************)
EXTENDS Integers, Sequences, FiniteSets

CONSTANTS
  Actor,      \* the processes that call rmrf
  N,          \* bound: the files that exist at the start are 1..N
  Late,       \* bound: files another program may create, numbers above N
  Kind,       \* the kinds of file, of "reg", "dir", "link" and "special" (a device...)
  Name,       \* the kinds of name, of "plain", "hidden" (".x") and "star" ("*")
  FdLimit,    \* directories a process can have open
  LinkLimit,  \* symbolic links a path may go through (ELOOP)
  Nowhere     \* what a dangling link points to

Root == 0
Top == 1
Old == 1..N
File == Old \cup Late

ASSUME RmrfAssumption ==
  /\ Actor # {}
  /\ N \in Nat \ {0}
  /\ \A n \in Late : n \in Nat /\ n > N
  /\ Kind \subseteq {"reg", "dir", "link", "special"} /\ "reg" \in Kind
  /\ Name \subseteq {"plain", "hidden", "star"} /\ "plain" \in Name
  /\ FdLimit \in Nat /\ LinkLimit \in Nat \ {0}
  /\ Nowhere \notin File \cup {Root}

VARIABLES
  kind,    \* the kind of each file
  parent,  \* the directory a file is in
  name,    \* the kind of its name
  target,  \* what a link points to
  live,    \* the files that exist
  born,    \* the files that have existed
  star,    \* the argument is "a/*"
  stack,   \* per process: the activations of rmrf, the innermost last
  crashed  \* the processes that crashed

tree == <<kind, parent, name, target>>
vars == <<tree, live, born, star, stack, crashed>>

PC == {"access", "stat", "unlink", "opendir", "readdir", "rmdir"}

\* An activation: the file path_c names; whether base is "*"; the point it has
\* reached; the entries of the directory at opendir and those readdir returned.
Frame == [path_c : File, base : BOOLEAN, at : PC, must : SUBSET File, seen : SUBSET File]

TypeOK ==
  /\ kind \in [File -> Kind] /\ name \in [File -> Name]
  /\ parent \in [File -> File \cup {Root}]
  /\ target \in [File -> Old \cup {Nowhere}]
  /\ live \subseteq born /\ born \subseteq File
  /\ star \in BOOLEAN
  /\ stack \in [Actor -> Seq(Frame)]
  /\ crashed \subseteq Actor

Activation(f, b) == [path_c |-> f, base |-> b, at |-> "access", must |-> {}, seen |-> {}]

\* Every tree of N files, numbered level by level; links point to the other
\* files that are not links, or nowhere.
Init ==
  /\ kind \in [File -> Kind] /\ \A n \in Late : kind[n] = "reg"
  /\ name \in [File -> Name] /\ \A n \in Late \cup {Top} : name[n] = "plain"
  /\ parent \in [File -> 0..N] /\ \A n \in Late \cup {Top} : parent[n] = Root
  /\ \A n \in Old \ {Top} :
       /\ parent[n] < n /\ parent[n - 1] <= parent[n]
       /\ parent[n] # Root => kind[parent[n]] = "dir"
  /\ target \in [File -> Old \cup {Nowhere}]
  /\ \A n \in File :
       IF kind[n] = "link" THEN target[n] # Nowhere => kind[target[n]] # "link"
       ELSE target[n] = Nowhere
  /\ live = Old /\ born = Old
  /\ star \in BOOLEAN
  /\ stack = [p \in Actor |-> <<Activation(Top, star)>>]
  /\ crashed = {}

-----------------------------------------------------------------------------
(* The file system                                                         *)

Entries(d) == {n \in live : parent[n] = d}

\* What f resolves to when links are followed.
Resolved(f) == IF kind[f] = "link" THEN target[f] ELSE f

Exists(f) == f \in live /\ Resolved(f) \in live

-----------------------------------------------------------------------------
(* rmrf                                                                    *)

Running(p) == p \notin crashed /\ stack[p] # <<>>

Now(p) == stack[p][Len(stack[p])]

At(p, l) == Running(p) /\ Now(p).at = l

Goto(p, l) == stack' = [stack EXCEPT ![p][Len(stack[p])].at = l]

Return(p) == stack' = [stack EXCEPT ![p] = SubSeq(@, 1, Len(@) - 1)]

\* The links the path of process p goes through.
Links(p) ==
  Cardinality({i \in 1..Len(stack[p]) :
                 kind[stack[p][i].path_c] = "link" /\ ~stack[p][i].base})

Access(p) ==
  /\ At(p, "access")
  /\ \/ Exists(Now(p).path_c) /\ Links(p) <= LinkLimit /\ Goto(p, "stat")
     \/ (~Exists(Now(p).path_c) \/ Links(p) > LinkLimit) /\ Return(p)
  /\ UNCHANGED <<tree, live, born, star, crashed>>

\* Links are followed; a special file is reported and left.
Stat(p) ==
  /\ At(p, "stat")
  /\ \/ /\ Exists(Now(p).path_c)
        /\ \/ kind[Resolved(Now(p).path_c)] = "reg" /\ Goto(p, "unlink")
           \/ kind[Resolved(Now(p).path_c)] = "dir" /\ Goto(p, "opendir")
           \/ kind[Resolved(Now(p).path_c)] = "special" /\ Return(p)
     \/ ~Exists(Now(p).path_c) /\ Return(p)
  /\ UNCHANGED <<tree, live, born, star, crashed>>

\* A link is removed, not what it points to.
Unlink(p) ==
  /\ At(p, "unlink")
  /\ live' = live \ {Now(p).path_c}
  /\ Return(p)
  /\ UNCHANGED <<tree, born, star, crashed>>

\* The result of opendir is not tested: readdir(NULL) crashes.
Opendir(p) ==
  /\ At(p, "opendir")
  /\ \/ /\ Exists(Now(p).path_c) /\ Len(stack[p]) <= FdLimit
        /\ stack' = [stack EXCEPT ![p][Len(stack[p])] =
                       [@ EXCEPT !.at = "readdir", !.seen = {},
                                 !.must = Entries(Resolved(Now(p).path_c))]]
        /\ UNCHANGED crashed
     \/ /\ ~Exists(Now(p).path_c) \/ Len(stack[p]) > FdLimit
        /\ crashed' = crashed \cup {p}
        /\ UNCHANGED stack
  /\ UNCHANGED <<tree, live, born, star>>

\* The entries readdir may return: those the directory had when it was opened,
\* even if they are gone, and those created since.
Unseen(p) ==
  (Now(p).must \cup Entries(Resolved(Now(p).path_c))) \ Now(p).seen

\* The path of entry e is that of the directory and its name.  If the name is
\* "*", basename is "*" and dirname is the directory itself.
Enter(p, e) ==
  stack' = [stack EXCEPT ![p] =
              Append([stack[p] EXCEPT ![Len(stack[p])].seen = @ \cup {e}],
                     IF name[e] = "star" THEN Activation(Now(p).path_c, TRUE)
                     ELSE Activation(e, FALSE))]

\* Mutant: hidden entries are removed too.
ReaddirHidden(p) ==
  /\ At(p, "readdir")
  /\ \E e \in Unseen(p) : Enter(p, e)
  /\ UNCHANGED <<tree, live, born, star, crashed>>

\* With "*" hidden entries are skipped.
Readdir(p) ==
  /\ At(p, "readdir")
  /\ \E e \in Unseen(p) :
       \/ ~(Now(p).base /\ name[e] = "hidden") /\ Enter(p, e)
       \/ /\ Now(p).base /\ name[e] = "hidden"
          /\ stack' = [stack EXCEPT ![p][Len(stack[p])].seen = @ \cup {e}]
  /\ UNCHANGED <<tree, live, born, star, crashed>>

\* Mutant: the emptied directory is left.
ClosedirReturns(p) ==
  /\ At(p, "readdir")
  /\ Now(p).must \cap live \subseteq Now(p).seen
  /\ Return(p)
  /\ UNCHANGED <<tree, live, born, star, crashed>>

\* readdir returns NULL once it returned every entry that has stayed there.
Closedir(p) ==
  /\ At(p, "readdir")
  /\ Now(p).must \cap live \subseteq Now(p).seen
  /\ IF Now(p).base THEN Return(p) ELSE Goto(p, "rmdir")
  /\ UNCHANGED <<tree, live, born, star, crashed>>

\* rmdir fails on a link and on a directory that is not empty; nobody looks.
Rmdir(p) ==
  /\ At(p, "rmdir")
  /\ live' = IF kind[Now(p).path_c] = "dir" /\ Entries(Now(p).path_c) = {}
               THEN live \ {Now(p).path_c} ELSE live
  /\ Return(p)
  /\ UNCHANGED <<tree, born, star, crashed>>

rmrf(p) ==
  \/ Access(p) \/ Stat(p) \/ Unlink(p) \/ Opendir(p) \/ Readdir(p) \/ Closedir(p)
  \/ Rmdir(p)

\* Another program creates a regular file.
Create(n) ==
  /\ n \in Late \ born
  /\ \E d \in live : kind[d] = "dir" /\ parent' = [parent EXCEPT ![n] = d]
  /\ live' = live \cup {n} /\ born' = born \cup {n}
  /\ UNCHANGED <<kind, name, target, star, stack, crashed>>

Next == (\E p \in Actor : rmrf(p)) \/ (\E n \in Late : Create(n))

Spec == Init /\ [][Next]_vars
-----------------------------------------------------------------------------
(* Properties                                                              *)

\* n is in the tree below d, d excluded.
Below(d) ==
  LET in[n \in File] == parent[n] = d \/ (parent[n] # Root /\ in[parent[n]])
  IN  {n \in File : in[n]}

\* The hidden entries of Top and what is below them.
Hidden ==
  LET top == {h \in Old : parent[h] = Top /\ name[h] = "hidden"}
  IN  top \cup UNION {Below(h) : h \in top}

Linked == {target[l] : l \in {n \in Old : kind[n] = "link"}} \ {Nowhere}

\* Where rmrf may get to.
Reach == {Top} \cup Below(Top) \cup UNION {Below(d) : d \in Linked}

\* "a/*" without a link that could lead back to a.
Starred == star /\ kind[Top] = "dir" /\ Linked = {}

\* Nothing is removed but what the argument names, what is below it, and what
\* is below a directory some link points to.  With "a/*" the directory and its
\* hidden entries stay, unless a link leads back to it.
Confined ==
  /\ TypeOK
  /\ born \ live \subseteq Reach
  /\ Starred => (born \ live) \cap ({Top} \cup Hidden) = {}

\* What "a/*" spares.
Kept(n) == star /\ n \in {Top} \cup Hidden

\* Why a file of the tree is still there: the program does not remove special
\* files, links to anything but an existing regular file, nor a directory that
\* is not empty, or was not when it came to it since something was created below it.
Excused(n) ==
  \/ n \notin Old
  \/ kind[n] = "special"
  \/ kind[n] = "link" /\ ~(Exists(n) /\ kind[target[n]] = "reg")
  \/ Entries(n) # {} \/ Below(n) \cap (born \ Old) # {}
  \/ Kept(n)

\* A directory whose last entry may have gone after a process came to it.
Emptied(n) == \E m \in Old \ live : parent[m] = n

\* What is left of the tree.
Left == live \cap ({Top} \cup Below(Top))

\* When no process is in rmrf any more, the tree is gone, but for what is
\* excused: processes that remove the same tree at the same time leave nothing
\* behind that one alone would have removed.  If some of them crashed they may
\* also leave a directory they have emptied.
Complete ==
  (\A p \in Actor : ~Running(p)) =>
    /\ crashed = {} => \A n \in Left : Excused(n)
    /\ crashed # Actor => \A n \in Left : Excused(n) \/ Emptied(n)
=============================================================================
