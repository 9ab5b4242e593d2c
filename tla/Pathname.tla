------------------------------ MODULE Pathname ------------------------------
(***************************************************************************)
(* dirname and basename of 005/parse_pathname.cpp.  A path is a sequence   *)
(* of characters, "/" or others.  Positions count from 0 and are size_t:   *)
(* their arithmetic is modulo SizeT, and npos is the largest of them.      *)
(* The state is the path they are called with, every path up to a length.  *)
(***************************************************************************)
EXTENDS Integers, Sequences

CONSTANTS
  SizeT,    \* 2^64
  Char,     \* the characters
  MaxPath   \* bound: the length of a path; max_size() of a string is below npos

ASSUME PathAssumption == SizeT \in Nat /\ MaxPath \in Nat /\ MaxPath < SizeT - 1

VARIABLE path

PathInit == path = <<>>

PathNext == Len(path) < MaxPath /\ \E c \in Char : path' = Append(path, c)

PathSpec == PathInit /\ [][PathNext]_path

npos == SizeT - 1

Plus(a, b) == (a + b) % SizeT

\* The last "/" at pos or before it.
find_last_of(p, pos) ==
  LET at == {i \in 0..(Len(p) - 1) : i <= pos /\ p[i + 1] = "/"}
  IN  IF at = {} THEN npos ELSE CHOOSE i \in at : \A j \in at : j <= i

\* At most n characters from pos on.
substr(p, pos, n) ==
  SubSeq(p, pos + 1, IF n < Len(p) - pos THEN pos + n ELSE Len(p))

dirname(p) ==
  LET location == find_last_of(p, npos) IN
  CASE Len(p) = Plus(location, 1) ->
         substr(p, 0, Plus(find_last_of(p, Plus(location, -1)), 1))
    [] Len(p) # Plus(location, 1) /\ location = npos -> <<".">>
    [] OTHER -> substr(p, 0, location)

\* Mutant: the "/" itself is part of the name.
BasenameSlash(p) ==
  LET location == find_last_of(p, npos) IN
  IF location # npos /\ Len(p) > Plus(location, 1) THEN substr(p, location, npos) ELSE p

basename(p) ==
  LET location == find_last_of(p, npos) IN
  CASE location = 0 /\ Len(p) = 1 -> <<"/">>
    [] Len(p) # 1 /\ Len(p) = Plus(location, 1) ->
         substr(p, Plus(find_last_of(p, Plus(location, -1)), 1), Plus(location, -1))
    [] OTHER -> substr(p, Plus(location, 1), npos)

-----------------------------------------------------------------------------
(* What the manual page says                                               *)

\* The path without the slashes at its end.
Trimmed(p) ==
  LET n == {i \in 1..Len(p) : p[i] # "/"}
  IN  IF n = {} THEN <<>> ELSE SubSeq(p, 1, CHOOSE i \in n : \A j \in n : j <= i)

\* "If path does not contain a slash, dirname() returns the string "." [...] If
\* path is the string "/", then both return the string "/" [...] Trailing '/'
\* characters are not counted as part of the pathname" (dirname(3)).
ManualDirname(p) ==
  LET last == find_last_of(Trimmed(p), npos) IN
  CASE Trimmed(p) = <<>> -> IF p = <<>> THEN <<".">> ELSE <<"/">>
    [] Trimmed(p) # <<>> /\ last = npos -> <<".">>
    [] OTHER -> LET up == Trimmed(SubSeq(p, 1, last)) IN IF up = <<>> THEN <<"/">> ELSE up

ManualBasename(p) ==
  LET t == Trimmed(p) IN
  CASE t = <<>> -> IF p = <<>> THEN <<".">> ELSE <<"/">>
    [] OTHER -> substr(t, (find_last_of(t, npos) + 1) % SizeT, npos)

-----------------------------------------------------------------------------
(* Properties of every path                                                *)

Slashes(p) == {i \in 1..Len(p) : p[i] = "/"}
Trailing(p) == p # <<>> /\ p[Len(p)] = "/"

\* "/name/", the case the comments of the code give.
OneName(p) == Slashes(p) = {1, Len(p)} /\ Len(p) > 2

\* parse_pathname.h:24 says of dirname and dirname(3) "they are the same".  They
\* are for a name alone, for a directory and a name with one slash between, and
\* for "/", "//" and "/name/"; for "/name" the code returns nothing, and for
\* other paths that end in a slash what it returns ends in a slash too.
DirnameAgrees(p) ==
  dirname(p) = ManualDirname(p) <=>
    \/ p # <<>> /\ Slashes(p) = {}
    \/ /\ ~Trailing(p) /\ Slashes(p) # {}
       /\ LET d == SubSeq(p, 1, find_last_of(p, npos)) IN  d = <<"/">> \/ (d # <<>> /\ ~Trailing(d))
    \/ p \in {<<"/">>, <<"/", "/">>}
    \/ OneName(p)

\* basename agrees with basename(3) for every path with no slash at its end, but
\* of those that end in one only for "/", three slashes or more, and "/name/":
\* from "usr/" it cuts a character off, in "usr/lib/" it leaves the slash.
BasenameAgrees(p) ==
  basename(p) = ManualBasename(p) <=>
    \/ p # <<>> /\ ~Trailing(p)
    \/ Trimmed(p) = <<>> /\ Len(p) \notin {0, 2}
    \/ OneName(p)

\* What rmrf.cpp relies on: a path with no slash at its end is its dirname, a
\* slash, and its basename; the basename is then "*" only if the last name is.
Rejoined(p) ==
  ~Trailing(p) /\ Slashes(p) # {} => dirname(p) \o <<"/">> \o basename(p) = p

\* All of that for every path.
Pathnames == DirnameAgrees(path) /\ BasenameAgrees(path) /\ Rejoined(path)
=============================================================================
