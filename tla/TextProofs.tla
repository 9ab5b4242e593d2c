----------------------------- MODULE TextProofs -----------------------------
(***************************************************************************)
(* Proofs about the functions that take text or data apart: the path names *)
(* of 005, the pictures and their names of 006, the configuration file of  *)
(* 001, the dump of 003 and the two splits of 007, in this order.          *)
(***************************************************************************)
EXTENDS Pathname, PicData, ReadCfg, Dump, Split, SequenceTheorems, WellFoundedInduction, TLAPS

LEMMA Least ==
  ASSUME NEW S, S \subseteq Nat, S # {}
  PROVE  \E i \in S : \A j \in S : i <= j
<1>1. PICK x \in S : \A y \in S : <<y, x>> \notin OpToRel(<, Nat)
  BY NatLessThanWellFounded, WFMin
<1>2. \A y \in S : ~(y < x)
  BY <1>1 DEF OpToRel
<1>3. \A y \in S : x <= y
  BY <1>2
<1> QED
  BY <1>3

-----------------------------------------------------------------------------
(* dirname and basename of 005                                             *)

LEMMA Wraps ==
  /\ npos \in Nat /\ npos > 0 /\ Plus(npos, 1) = 0 /\ Plus(0, -1) = npos
  /\ \A a \in 0..(npos - 1) : Plus(a, 1) = a + 1
  /\ \A a \in 1..npos : Plus(a, -1) = a - 1
<1>1. SizeT \in Nat /\ SizeT > 1
  BY PathAssumption
<1>2. SizeT % SizeT = 0 /\ (-1) % SizeT = SizeT - 1
  BY <1>1, Z3
<1>3. \A a \in 0..(SizeT - 1) : a % SizeT = a
  BY <1>1, Z3
<1> QED
  BY <1>1, <1>2, <1>3 DEF npos, Plus

LEMMA Greatest ==
  ASSUME NEW n \in Nat, NEW S, S \subseteq 0..n, S # {}
  PROVE  \E i \in S : \A j \in S : j <= i
<1> DEFINE T == {n - i : i \in S}
<1>0. \A i \in S : i \in Int /\ 0 <= i /\ i <= n
  OBVIOUS
<1>1. T \subseteq Nat /\ T # {}
  <2>1. \A x \in T : x \in Nat
    <3> TAKE x \in T
    <3>1. PICK i \in S : x = n - i
      OBVIOUS
    <3> QED
      BY <1>0, <3>1
  <2> QED
    BY <2>1
<1>2. PICK x \in T : \A y \in T : <<y, x>> \notin OpToRel(<, Nat)
  BY <1>1, NatLessThanWellFounded, WFMin
<1>3. \A y \in T : ~(y < x)
  BY <1>1, <1>2 DEF OpToRel
<1>4. PICK i \in S : x = n - i
  OBVIOUS
<1>5. \A j \in S : j <= i
  <2> TAKE j \in S
  <2>1. n - j \in T
    OBVIOUS
  <2>2. ~(n - j < x)
    BY <1>3, <2>1
  <2> QED
    BY <1>0, <1>4, <2>2
<1> QED
  BY <1>5

\* The last slash at pos or before it, if there is one.
LEMMA FindLast ==
  ASSUME NEW C, NEW p \in Seq(C), NEW pos \in Nat
  PROVE  LET r == find_last_of(p, pos) IN
         \/ r = npos /\ \A j \in 0..(Len(p) - 1) : j <= pos => p[j + 1] # "/"
         \/ /\ r \in 0..(Len(p) - 1) /\ r <= pos /\ p[r + 1] = "/"
            /\ \A j \in (r + 1)..(Len(p) - 1) : j <= pos => p[j + 1] # "/"
<1> DEFINE at == {i \in 0..(Len(p) - 1) : i <= pos /\ p[i + 1] = "/"}
<1>1. CASE at = {}
  BY <1>1 DEF find_last_of
<1>2. CASE at # {}
  <2>1. Len(p) \in Nat /\ at \subseteq 0..Len(p)
    OBVIOUS
  <2>2. \E i \in at : \A j \in at : j <= i
    BY <1>2, <2>1, Greatest
  <2> DEFINE r == CHOOSE i \in at : \A j \in at : j <= i
  <2>3. r \in at /\ \A j \in at : j <= r
    BY <2>2
  <2>4. find_last_of(p, pos) = r
    BY <1>2 DEF find_last_of
  <2>5. r \in 0..(Len(p) - 1) /\ r <= pos /\ p[r + 1] = "/"
    BY <2>3
  <2>6. ASSUME NEW j \in (r + 1)..(Len(p) - 1), j <= pos
        PROVE  p[j + 1] # "/"
    <3> HIDE DEF r
    <3>1. j \in 0..(Len(p) - 1) /\ ~(j <= r)
      BY <2>1, <2>5
    <3> QED
      BY <2>3, <2>6, <3>1
  <2> HIDE DEF r
  <2> QED
    BY <2>4, <2>5, <2>6
<1> QED
  BY <1>1, <1>2

\* The path up to its last character that is no slash.
LEMMA Trims ==
  ASSUME NEW C, NEW p \in Seq(C)
  PROVE  \E t \in 0..Len(p) :
           /\ Trimmed(p) = SubSeq(p, 1, t)
           /\ t > 0 => p[t] # "/"
           /\ \A j \in (t + 1)..Len(p) : p[j] = "/"
<1> DEFINE n == {i \in 1..Len(p) : p[i] # "/"}
<1>0. Len(p) \in Nat
  OBVIOUS
<1>1. CASE n = {}
  <2>1. Trimmed(p) = SubSeq(p, 1, 0)
    BY <1>1 DEF Trimmed
  <2>2. \A j \in 1..Len(p) : p[j] = "/"
    BY <1>1
  <2> QED
    BY <1>0, <2>1, <2>2
<1>2. CASE n # {}
  <2>1. \E i \in n : \A j \in n : j <= i
    BY <1>0, <1>2, Greatest, n \subseteq 0..Len(p)
  <2> DEFINE t == CHOOSE i \in n : \A j \in n : j <= i
  <2>2. t \in n /\ \A j \in n : j <= t
    BY <2>1
  <2>3. Trimmed(p) = SubSeq(p, 1, t)
    BY <1>2 DEF Trimmed
  <2>5. t \in 1..Len(p) /\ p[t] # "/"
    BY <2>2
  <2>4. ASSUME NEW j \in (t + 1)..Len(p)
        PROVE  p[j] = "/"
    <3> HIDE DEF t
    <3>1. j \in 1..Len(p) /\ ~(j <= t)
      BY <1>0, <2>5
    <3> QED
      BY <2>2, <3>1
  <2> HIDE DEF t
  <2> QED
    BY <2>3, <2>4, <2>5
<1> QED
  BY <1>1, <1>2

\* k is the place of the last slash among the first n characters, or 0.
LastSlash(p, n, k) ==
  k \in 0..n /\ (k > 0 => p[k] = "/") /\ \A j \in (k + 1)..n : p[j] # "/"

\* t is the place of the last character that is no slash, or 0.
LastOther(p, t) ==
  t \in 0..Len(p) /\ (t > 0 => p[t] # "/") /\ \A j \in (t + 1)..Len(p) : p[j] = "/"

LEMMA FindsSlash ==
  ASSUME NEW C, NEW p \in Seq(C), NEW pos \in Nat, NEW n \in 0..Len(p),
         pos + 1 = n \/ (pos + 1 >= n /\ n = Len(p))
  PROVE  \E k : LastSlash(p, n, k) /\ find_last_of(p, pos) = IF k = 0 THEN npos ELSE k - 1
<1> DEFINE r == find_last_of(p, pos)
<1>0. Len(p) \in Nat
  OBVIOUS
<1>1. CASE r = npos /\ \A j \in 0..(Len(p) - 1) : j <= pos => p[j + 1] # "/"
  <2>1. ASSUME NEW j \in 1..n PROVE p[j] # "/"
    <3>1. j - 1 \in 0..(Len(p) - 1) /\ j - 1 <= pos /\ j = (j - 1) + 1
      BY <1>0
    <3> QED
      BY <1>1, <3>1
  <2> QED
    BY <1>1, <2>1 DEF LastSlash
<1>2. CASE /\ r \in 0..(Len(p) - 1) /\ r <= pos /\ p[r + 1] = "/"
           /\ \A j \in (r + 1)..(Len(p) - 1) : j <= pos => p[j + 1] # "/"
  <2> HIDE DEF r
  <2>1. ASSUME NEW j \in (r + 2)..n PROVE p[j] # "/"
    <3>1. j - 1 \in (r + 1)..(Len(p) - 1) /\ j - 1 <= pos /\ j = (j - 1) + 1
      BY <1>0, <1>2
    <3> QED
      BY <1>2, <3>1
  <2>2. LastSlash(p, n, r + 1)
    BY <1>0, <1>2, <2>1 DEF LastSlash
  <2>3. r + 1 # 0 /\ r = (r + 1) - 1
    BY <1>2
  <2> QED
    BY <2>2, <2>3 DEF r
<1> QED
  BY <1>1, <1>2, FindLast

LEMMA FindsNone ==
  ASSUME NEW p, p = <<>>, NEW pos
  PROVE  find_last_of(p, pos) = npos
<1>1. {i \in 0..(Len(p) - 1) : i <= pos /\ p[i + 1] = "/"} = {}
  OBVIOUS
<1> QED
  BY <1>1 DEF find_last_of

\* A sequence of one element.
LEMMA OneLong ==
  ASSUME NEW C, NEW s \in Seq(C), Len(s) = 1
  PROVE  s = <<s[1]>>
<1>1. s[1] \in C
  OBVIOUS
<1>2. <<s[1]>> \in Seq(C) /\ Len(<<s[1]>>) = Len(s)
  BY <1>1
<1>3. \A i \in 1..Len(s) : s[i] = <<s[1]>>[i]
  OBVIOUS
<1> QED
  BY <1>2, <1>3, SeqEqual

\* A string is shorter than npos.
Fitting(p) == Len(p) < npos

\* What the three branches of dirname return.
LEMMA DirnameBranches ==
  ASSUME NEW C, NEW p \in Seq(C), Fitting(p), NEW k, LastSlash(p, Len(p), k)
  PROVE  /\ find_last_of(p, npos) = IF k = 0 THEN npos ELSE k - 1
         /\ p = <<>> => dirname(p) = <<>>
         /\ p # <<>> /\ k = 0 => dirname(p) = <<".">>
         /\ Len(p) = 1 /\ k = 1 => dirname(p) = p
         /\ Len(p) > 1 /\ k = Len(p) =>
              \E u : LastSlash(p, Len(p) - 1, u) /\ dirname(p) = SubSeq(p, 1, u)
         /\ k > 0 /\ k < Len(p) => dirname(p) = SubSeq(p, 1, k - 1)
<1> DEFINE l == find_last_of(p, npos)
<1>0. Len(p) \in Nat /\ npos \in Nat /\ Len(p) < npos /\ k \in 0..Len(p)
  BY Wraps DEF Fitting, LastSlash
<1>1. \E j : LastSlash(p, Len(p), j) /\ l = IF j = 0 THEN npos ELSE j - 1
  BY <1>0, FindsSlash
<1>2. \A i, j : LastSlash(p, Len(p), i) /\ LastSlash(p, Len(p), j) => i = j
  BY <1>0 DEF LastSlash
<1>3. l = IF k = 0 THEN npos ELSE k - 1
  BY <1>1, <1>2
<1> HIDE DEF l
<1>4. Plus(l, 1) = k
  BY <1>0, <1>3, Wraps
<1>5. p = <<>> => dirname(p) = <<>>
  <2> SUFFICES ASSUME p = <<>> PROVE dirname(p) = <<>>
    OBVIOUS
  <2>1. dirname(p) = substr(p, 0, Plus(find_last_of(p, Plus(l, -1)), 1))
    BY <1>0, <1>4 DEF dirname, l
  <2>2. Plus(l, -1) = npos - 1 /\ npos - 1 \in Nat
    BY <1>0, <1>3, Wraps
  <2>3. find_last_of(p, npos - 1) = npos
    BY <2>2, FindsNone
  <2>4. Plus(find_last_of(p, npos - 1), 1) = 0
    BY <2>3, Wraps
  <2> QED
    BY <2>1, <2>2, <2>4 DEF substr
<1>6. p # <<>> /\ k = 0 => dirname(p) = <<".">>
  BY <1>0, <1>3, <1>4 DEF dirname, l
<1>7. ASSUME Len(p) = 1, k = 1 PROVE dirname(p) = p
  <2>1. l = 0 /\ Plus(l, -1) = npos
    BY <1>3, <1>7, Wraps
  <2>2. dirname(p) = substr(p, 0, Plus(l, 1))
    BY <1>4, <1>7, <2>1 DEF dirname, l
  <2> QED
    BY <1>4, <1>7, <2>2 DEF substr
<1>8. ASSUME Len(p) > 1, k = Len(p)
      PROVE  \E u : LastSlash(p, Len(p) - 1, u) /\ dirname(p) = SubSeq(p, 1, u)
  <2>1. Plus(l, -1) = Len(p) - 2
    BY <1>0, <1>3, <1>8, Wraps
  <2>2. PICK u : /\ LastSlash(p, Len(p) - 1, u)
                 /\ find_last_of(p, Len(p) - 2) = IF u = 0 THEN npos ELSE u - 1
    BY <1>0, <1>8, FindsSlash
  <2>3. u \in Nat /\ u < Len(p)
    BY <1>0, <1>8, <2>2 DEF LastSlash
  <2>4. Plus(find_last_of(p, Plus(l, -1)), 1) = u
    BY <1>0, <2>1, <2>2, <2>3, Wraps
  <2>5. dirname(p) = substr(p, 0, u)
    BY <1>4, <1>8, <2>4 DEF dirname, l
  <2>6. substr(p, 0, u) = SubSeq(p, 1, u)
    BY <1>0, <2>3 DEF substr
  <2> QED
    BY <2>2, <2>5, <2>6
<1>9. ASSUME k > 0, k < Len(p)
      PROVE  dirname(p) = SubSeq(p, 1, k - 1)
  <2>1. dirname(p) = substr(p, 0, k - 1)
    BY <1>0, <1>3, <1>4, <1>9 DEF dirname, l
  <2> QED
    BY <1>0, <1>9, <2>1 DEF substr
<1> QED
  BY <1>3, <1>5, <1>6, <1>7, <1>8, <1>9 DEF l

\* What the manual page wants in each case; t is where the path without the
\* slashes at its end ends, k its last slash.
LEMMA ManualBranches ==
  ASSUME NEW C, NEW p \in Seq(C), Fitting(p), NEW t, LastOther(p, t), NEW k, LastSlash(p, t, k)
  PROVE  /\ Trimmed(p) = SubSeq(p, 1, t)
         /\ p = <<>> => ManualDirname(p) = <<".">> /\ ManualBasename(p) = <<".">>
         /\ p # <<>> /\ t = 0 => ManualDirname(p) = <<"/">> /\ ManualBasename(p) = <<"/">>
         /\ t > 0 /\ k = 0 => ManualDirname(p) = <<".">>
         /\ t > 0 /\ k > 0 =>
              \E u : /\ LastOther(SubSeq(p, 1, k - 1), u)
                     /\ ManualDirname(p) = IF u = 0 THEN <<"/">> ELSE SubSeq(p, 1, u)
         /\ t > 0 => ManualBasename(p) = SubSeq(p, k + 1, t)
<1>0. /\ Len(p) \in Nat /\ npos \in Nat /\ Len(p) < npos /\ t \in 0..Len(p) /\ k \in 0..t
      /\ SizeT = npos + 1
  BY Wraps, PathAssumption DEF Fitting, LastSlash, LastOther, npos
<1>1. Trimmed(p) = SubSeq(p, 1, t)
  <2>1. PICK u \in 0..Len(p) : /\ Trimmed(p) = SubSeq(p, 1, u) /\ (u > 0 => p[u] # "/")
                               /\ \A j \in (u + 1)..Len(p) : p[j] = "/"
    BY Trims
  <2>2. u = t
    BY <1>0, <2>1 DEF LastOther
  <2> QED
    BY <2>1, <2>2
<1> DEFINE q == SubSeq(p, 1, t)
<1>2. q \in Seq(C) /\ Len(q) = t /\ \A i \in 1..t : q[i] = p[i]
  BY <1>0
<1>3. LastSlash(q, t, k)
  BY <1>0, <1>2 DEF LastSlash
<1> HIDE DEF q
<1>4. find_last_of(q, npos) = IF k = 0 THEN npos ELSE k - 1
  <2>1. PICK j : LastSlash(q, t, j) /\ find_last_of(q, npos) = IF j = 0 THEN npos ELSE j - 1
    BY <1>0, <1>2, FindsSlash
  <2>2. j = k
    BY <1>0, <1>3, <2>1 DEF LastSlash
  <2> QED
    BY <2>1, <2>2
<1>5. Trimmed(p) = q /\ (q = <<>> <=> t = 0)
  <2>1. q = <<>> <=> t = 0
    BY <1>0, <1>2
  <2> QED
    BY <1>1, <2>1 DEF q
<1>6. p = <<>> => ManualDirname(p) = <<".">> /\ ManualBasename(p) = <<".">>
  BY <1>0, <1>5 DEF ManualDirname, ManualBasename
<1>7. p # <<>> /\ t = 0 => ManualDirname(p) = <<"/">> /\ ManualBasename(p) = <<"/">>
  BY <1>0, <1>5 DEF ManualDirname, ManualBasename
<1>8. t > 0 /\ k = 0 => ManualDirname(p) = <<".">>
  BY <1>0, <1>4, <1>5 DEF ManualDirname
<1>9. ASSUME t > 0, k > 0
      PROVE  \E u : /\ LastOther(SubSeq(p, 1, k - 1), u)
                    /\ ManualDirname(p) = IF u = 0 THEN <<"/">> ELSE SubSeq(p, 1, u)
  <2> DEFINE d == SubSeq(p, 1, k - 1)
  <2>1. d \in Seq(C) /\ Len(d) = k - 1 /\ \A i \in 1..(k - 1) : d[i] = p[i]
    BY <1>0, <1>9
  <2>2. ManualDirname(p) = IF Trimmed(d) = <<>> THEN <<"/">> ELSE Trimmed(d)
    BY <1>0, <1>4, <1>5, <1>9 DEF ManualDirname
  <2>3. \A u \in 0..(k - 1) : SubSeq(d, 1, u) = SubSeq(p, 1, u) /\ (SubSeq(p, 1, u) = <<>> <=> u = 0)
    BY <1>0
  <2> HIDE DEF d
  <2>4. PICK u \in 0..Len(d) : /\ Trimmed(d) = SubSeq(d, 1, u) /\ (u > 0 => d[u] # "/")
                               /\ \A j \in (u + 1)..Len(d) : d[j] = "/"
    BY <2>1, Trims
  <2>5. LastOther(d, u)
    BY <2>4 DEF LastOther
  <2> QED
    BY <2>1, <2>2, <2>3, <2>4, <2>5 DEF d
<1>10. ASSUME t > 0 PROVE ManualBasename(p) = SubSeq(p, k + 1, t)
  <2>1. (find_last_of(q, npos) + 1) % SizeT = k
    <3>1. Plus(find_last_of(q, npos), 1) = k
      BY <1>0, <1>4, Wraps
    <3> QED
      BY <3>1 DEF Plus
  <2>2. ManualBasename(p) = substr(q, k, npos)
    BY <1>5, <1>10, <2>1 DEF ManualBasename
  <2>3. substr(q, k, npos) = SubSeq(q, k + 1, t)
    BY <1>0, <1>2 DEF substr
  <2>4. SubSeq(q, k + 1, t) = SubSeq(p, k + 1, t)
    BY <1>0, <1>2
  <2> QED
    BY <2>2, <2>3, <2>4
<1> QED
  BY <1>1, <1>6, <1>7, <1>8, <1>9, <1>10

LEMMA HasLastSlash ==
  ASSUME NEW C, NEW p \in Seq(C), NEW n \in 0..Len(p)
  PROVE  \E k : LastSlash(p, n, k)
<1>1. n = 0 => LastSlash(p, n, 0)
  BY DEF LastSlash
<1>2. ASSUME n > 0 PROVE \E k : LastSlash(p, n, k)
  <2>1. n - 1 \in Nat /\ (n - 1) + 1 = n
    BY <1>2
  <2> QED
    BY <2>1, FindsSlash
<1>3. n \in Nat
  OBVIOUS
<1> QED
  BY <1>1, <1>2, <1>3

LEMMA HasLastOther ==
  ASSUME NEW C, NEW p \in Seq(C)
  PROVE  \E t : LastOther(p, t)
BY Trims DEF LastOther

\* dirname of a path with a slash at its end, and of one without.
LEMMA DirnameTrailing ==
  ASSUME NEW C, NEW p \in Seq(C), Fitting(p), p # <<>>, p[Len(p)] = "/"
  PROVE  dirname(p) = ManualDirname(p) <=> p \in {<<"/">>, <<"/", "/">>} \/ OneName(p)
<1> DEFINE n == Len(p)
<1>0. n \in Nat /\ n > 0 /\ p[n] = "/" /\ LastSlash(p, n, n)
  BY DEF LastSlash
<1>1. PICK t : LastOther(p, t)
  BY HasLastOther
<1>2. t \in 0..n /\ t # n /\ (t > 0 => p[t] # "/") /\ \A j \in (t + 1)..n : p[j] = "/"
  BY <1>0, <1>1 DEF LastOther
<1>3. PICK k : LastSlash(p, t, k)
  BY <1>2, HasLastSlash
<1>4. k \in 0..t /\ (k > 0 => p[k] = "/") /\ \A j \in (k + 1)..t : p[j] # "/"
  BY <1>3 DEF LastSlash
<1>5. CASE n = 1
  <2>1. p = <<"/">>
    BY <1>0, <1>5
  <2>2. dirname(p) = p
    BY <1>0, <1>5, DirnameBranches
  <2>3. t = 0
    BY <1>0, <1>2, <1>5
  <2>4. ManualDirname(p) = <<"/">>
    BY <1>1, <1>3, <2>3, ManualBranches
  <2> QED
    BY <2>1, <2>2, <2>4
<1>6. CASE n > 1
  <2>1. PICK u : LastSlash(p, n - 1, u) /\ dirname(p) = SubSeq(p, 1, u)
    BY <1>0, <1>6, DirnameBranches
  <2>2. u \in 0..(n - 1) /\ (u > 0 => p[u] = "/") /\ \A j \in (u + 1)..(n - 1) : p[j] # "/"
    BY <2>1 DEF LastSlash
  <2>3. Len(SubSeq(p, 1, u)) = u /\ \A i \in 1..u : SubSeq(p, 1, u)[i] = p[i]
    BY <1>0, <2>2
  <2>4. dirname(p) = <<"/">> <=> u = 1
    <3>1. ASSUME u = 1 PROVE SubSeq(p, 1, u) = <<"/">>
      <4>1. SubSeq(p, 1, u)[1] = "/" /\ Len(SubSeq(p, 1, u)) = 1 /\ SubSeq(p, 1, u) \in Seq(C)
        BY <1>0, <2>2, <2>3, <3>1
      <4> QED
        BY <4>1, OneLong
    <3>2. Len(<<"/">>) = 1
      OBVIOUS
    <3> QED
      BY <2>1, <2>3, <3>1, <3>2
  <2>5. OneName(p) <=> u = 1 /\ n > 2
    <3>1. OneName(p) => u = 1 /\ n > 2
      BY <1>0, <1>6, <2>2 DEF OneName, Slashes
    <3>2. ASSUME u = 1, n > 2 PROVE OneName(p)
      <4>1. \A i \in 1..n : p[i] = "/" <=> i \in {1, n}
        BY <1>0, <2>2, <3>2
      <4> QED
        BY <1>0, <3>2, <4>1 DEF OneName, Slashes
    <3> QED
      BY <3>1, <3>2
  <2>6. CASE t = 0
    <3>1. ManualDirname(p) = <<"/">>
      BY <1>1, <1>3, <2>6, ManualBranches
    <3>2. u = n - 1
      BY <1>0, <1>2, <2>2, <2>6
    <3>3. p \in {<<"/">>, <<"/", "/">>} <=> n = 2
      BY <1>0, <1>2, <1>6, <2>6
    <3> QED
      BY <1>0, <2>4, <2>5, <3>1, <3>2, <3>3
  <2>7. CASE t > 0 /\ k = 0
    <3>1. ManualDirname(p) = <<".">>
      BY <1>1, <1>3, <2>7, ManualBranches
    <3>2. dirname(p) # <<".">>
      <4> SUFFICES ASSUME SubSeq(p, 1, u) = <<".">> PROVE FALSE
        BY <2>1
      <4>1. Len(<<".">>) = 1 /\ <<".">>[1] = "." /\ "." # "/"
        OBVIOUS
      <4>2. u = 1
        BY <2>3, <4>1
      <4>3. SubSeq(p, 1, u)[1] = "/"
        BY <2>2, <2>3, <4>2
      <4> QED
        BY <4>1, <4>3
    <3>3. p[1] # "/"
      BY <1>0, <1>2, <1>4, <2>7
    <3>4. ~OneName(p) /\ p \notin {<<"/">>, <<"/", "/">>}
      BY <1>0, <3>3 DEF OneName, Slashes
    <3> QED
      BY <3>1, <3>2, <3>4
  <2>8. CASE t > 0 /\ k > 0
    <3>1. PICK v : /\ LastOther(SubSeq(p, 1, k - 1), v)
                   /\ ManualDirname(p) = IF v = 0 THEN <<"/">> ELSE SubSeq(p, 1, v)
      BY <1>1, <1>3, <2>8, ManualBranches
    <3>2. /\ v \in 0..(k - 1) /\ (v > 0 => p[v] # "/")
          /\ \A j \in (v + 1)..(k - 1) : p[j] = "/"
      BY <1>0, <1>2, <1>4, <2>8, <3>1 DEF LastOther
    <3>3. n > 2 /\ k < t
      BY <1>0, <1>2, <1>4, <2>8
    <3>4. p \notin {<<"/">>, <<"/", "/">>}
      BY <3>3
    <3>5. CASE v = 0
      <4>1. ManualDirname(p) = <<"/">>
        BY <3>1, <3>5
      <4> QED
        BY <2>4, <2>5, <3>3, <3>4, <4>1
    <3>6. CASE v > 0
      <4>1. Len(SubSeq(p, 1, v)) = v /\ SubSeq(p, 1, v)[v] = p[v]
        BY <1>0, <1>2, <1>4, <3>2, <3>6
      <4>2. dirname(p) # ManualDirname(p)
        BY <2>1, <2>2, <2>3, <3>1, <3>2, <3>6, <4>1
      <4>3. u # 1
        BY <1>2, <1>4, <2>2, <2>8, <3>2, <3>3, <3>6
      <4> QED
        BY <2>5, <3>4, <4>2, <4>3
    <3> QED
      BY <3>2, <3>5, <3>6
  <2> QED
    BY <1>2, <1>4, <2>6, <2>7, <2>8
<1> HIDE DEF n
<1>7. n = 1 \/ n > 1
  BY <1>0
<1> QED
  BY <1>5, <1>6, <1>7

LEMMA DirnamePlain ==
  ASSUME NEW C, NEW p \in Seq(C), Fitting(p), ~Trailing(p)
  PROVE  dirname(p) = ManualDirname(p) <=>
           \/ p # <<>> /\ Slashes(p) = {}
           \/ /\ Slashes(p) # {}
              /\ LET d == SubSeq(p, 1, find_last_of(p, npos))
                 IN  d = <<"/">> \/ (d # <<>> /\ ~Trailing(d))
<1> DEFINE n == Len(p)
<1>0. n \in Nat
  OBVIOUS
<1>1. CASE p = <<>>
  <2>1. Slashes(p) = {}
    BY <1>1 DEF Slashes
  <2>2. LastOther(p, 0) /\ LastSlash(p, 0, 0)
    BY <1>1 DEF LastOther, LastSlash
  <2>3. LastSlash(p, n, 0)
    BY <1>1 DEF LastSlash
  <2>4. dirname(p) = <<>>
    BY <1>1, <2>3, DirnameBranches
  <2>5. ManualDirname(p) = <<".">>
    BY <1>1, <2>2, ManualBranches
  <2> QED
    BY <1>1, <2>1, <2>4, <2>5
<1>2. CASE p # <<>>
  <2>1. n > 0 /\ p[n] # "/" /\ LastOther(p, n)
    BY <1>0, <1>2 DEF Trailing, LastOther
  <2>2. PICK k : LastSlash(p, n, k)
    BY <1>0, HasLastSlash
  <2>3. k \in 0..(n - 1) /\ (k > 0 => p[k] = "/") /\ \A j \in (k + 1)..n : p[j] # "/"
    BY <1>0, <2>1, <2>2 DEF LastSlash
  <2>4. CASE k = 0
    <3>1. Slashes(p) = {}
      BY <1>0, <2>3, <2>4 DEF Slashes
    <3>2. dirname(p) = <<".">>
      BY <1>2, <2>2, <2>4, DirnameBranches
    <3>3. ManualDirname(p) = <<".">>
      BY <2>1, <2>2, <2>4, ManualBranches
    <3> QED
      BY <1>2, <3>1, <3>2, <3>3
  <2>5. CASE k > 0
    <3>1. Slashes(p) # {}
      BY <1>0, <2>3, <2>5 DEF Slashes
    <3> DEFINE d == SubSeq(p, 1, k - 1)
    <3>2. d \in Seq(C) /\ Len(d) = k - 1 /\ \A i \in 1..(k - 1) : d[i] = p[i]
      BY <1>0, <2>3, <2>5
    <3>3. find_last_of(p, npos) = k - 1
      BY <2>2, <2>5, DirnameBranches
    <3>4. dirname(p) = d
      BY <2>2, <2>3, <2>5, DirnameBranches
    <3>5. PICK u : /\ LastOther(d, u)
                   /\ ManualDirname(p) = IF u = 0 THEN <<"/">> ELSE SubSeq(p, 1, u)
      BY <2>1, <2>2, <2>5, ManualBranches
    <3>6. \A v \in 0..(k - 1) : Len(SubSeq(p, 1, v)) = v
      BY <1>0, <2>3
    <3>7. Slashes(p) # {} /\ (SubSeq(p, 1, find_last_of(p, npos)) = d)
      BY <3>1, <3>3
    <3>8. u = k - 1 => SubSeq(p, 1, u) = d
      OBVIOUS
    <3> HIDE DEF d
    <3>9. u \in 0..(k - 1) /\ (u > 0 => d[u] # "/") /\ \A j \in (u + 1)..(k - 1) : d[j] = "/"
      BY <3>2, <3>5 DEF LastOther
    <3>10. d # <<>> <=> k > 1
      BY <2>3, <2>5, <3>2
    <3>11. CASE u = 0
      <4>1. d = ManualDirname(p) <=> d = <<"/">>
        BY <3>5, <3>11
      <4>2. d = <<>> \/ Trailing(d)
        BY <2>3, <2>5, <3>2, <3>9, <3>10, <3>11 DEF Trailing
      <4> QED
        BY <3>4, <3>7, <4>1, <4>2
    <3>12. CASE u > 0
      <4>1. d = ManualDirname(p) <=> u = k - 1
        BY <2>3, <3>2, <3>5, <3>6, <3>8, <3>9, <3>12
      <4>2. d # <<>> /\ (~Trailing(d) <=> u = k - 1)
        BY <2>3, <3>2, <3>9, <3>10, <3>12 DEF Trailing
      <4>3. ASSUME d = <<"/">> PROVE FALSE
        <5>1. Len(d) = 1 /\ d[1] = "/"
          BY <4>3
        <5>2. k - 1 = 1 /\ u \in 0..(k - 1) /\ u > 0 /\ d[u] # "/"
          BY <3>2, <3>9, <3>12, <5>1
        <5>3. u = 1
          BY <2>3, <5>2
        <5> QED
          BY <5>1, <5>2, <5>3
      <4> QED
        BY <3>4, <3>7, <4>1, <4>2, <4>3
    <3> QED
      BY <3>9, <3>11, <3>12
  <2> QED
    BY <2>3, <2>4, <2>5
<1> QED
  BY <1>1, <1>2

\* dirname is as DirnameAgrees says for every path.
LEMMA DirnameAlways ==
  ASSUME NEW C, NEW p \in Seq(C), Fitting(p)
  PROVE  DirnameAgrees(p)
<1>1. CASE Trailing(p)
  <2>1. p # <<>> /\ p[Len(p)] = "/"
    BY <1>1 DEF Trailing
  <2>2. Slashes(p) # {}
    BY <2>1 DEF Slashes
  <2> QED
    BY <1>1, <2>1, <2>2, DirnameTrailing DEF DirnameAgrees
<1>2. CASE ~Trailing(p)
  <2>1. p \notin {<<"/">>, <<"/", "/">>}
    BY <1>2 DEF Trailing
  <2>2. ~OneName(p)
    <3> SUFFICES ASSUME OneName(p) PROVE FALSE
      OBVIOUS
    <3>1. Len(p) \in Slashes(p)
      BY DEF OneName
    <3> QED
      BY <1>2, <3>1 DEF Slashes, Trailing
  <2> QED
    BY <1>2, <2>1, <2>2, DirnamePlain DEF DirnameAgrees
<1> QED
  BY <1>1, <1>2

\* What the three branches of basename return.
LEMMA BasenameBranches ==
  ASSUME NEW C, NEW p \in Seq(C), Fitting(p), NEW k, LastSlash(p, Len(p), k)
  PROVE  /\ p = <<>> => basename(p) = <<>>
         /\ Len(p) = 1 /\ k = 1 => basename(p) = <<"/">>
         /\ Len(p) > 1 /\ k = Len(p) =>
              \E u : /\ LastSlash(p, Len(p) - 1, u)
                     /\ basename(p) = SubSeq(p, u + 1, IF u < 2 THEN u + Len(p) - 2 ELSE Len(p))
         /\ p # <<>> /\ k < Len(p) => basename(p) = SubSeq(p, k + 1, Len(p))
<1> DEFINE l == find_last_of(p, npos)
<1>0. Len(p) \in Nat /\ npos \in Nat /\ Len(p) < npos /\ k \in 0..Len(p)
  BY Wraps DEF Fitting, LastSlash
<1>1. l = IF k = 0 THEN npos ELSE k - 1
  BY DirnameBranches
<1> HIDE DEF l
<1>2. Plus(l, 1) = k
  BY <1>0, <1>1, Wraps
<1>3. ASSUME p = <<>> PROVE basename(p) = <<>>
  <2>1. Len(p) = 0 /\ k = 0 /\ l = npos /\ npos # 0
    BY <1>0, <1>1, <1>3, Wraps
  <2>2. Plus(l, -1) = npos - 1
    BY <2>1, Wraps
  <2>3. find_last_of(p, npos - 1) = npos
    BY <1>3, FindsNone
  <2>4. basename(p) = substr(p, 0, npos - 1)
    BY <1>2, <2>1, <2>2, <2>3, Wraps DEF basename, l
  <2> QED
    BY <1>0, <1>3, <2>4, Wraps DEF substr
<1>4. Len(p) = 1 /\ k = 1 => basename(p) = <<"/">>
  BY <1>1 DEF basename, l
<1>5. ASSUME Len(p) > 1, k = Len(p)
      PROVE  \E u : /\ LastSlash(p, Len(p) - 1, u)
                    /\ basename(p) = SubSeq(p, u + 1, IF u < 2 THEN u + Len(p) - 2 ELSE Len(p))
  <2>1. Plus(l, -1) = Len(p) - 2
    BY <1>0, <1>1, <1>5, Wraps
  <2>2. PICK u : /\ LastSlash(p, Len(p) - 1, u)
                 /\ find_last_of(p, Len(p) - 2) = IF u = 0 THEN npos ELSE u - 1
    BY <1>0, <1>5, FindsSlash
  <2>3. u \in Nat /\ u < Len(p)
    BY <1>0, <1>5, <2>2 DEF LastSlash
  <2>4. Plus(find_last_of(p, Plus(l, -1)), 1) = u
    BY <1>0, <2>1, <2>2, <2>3, Wraps
  <2>5. basename(p) = substr(p, u, Len(p) - 2)
    BY <1>0, <1>2, <1>5, <2>1, <2>4 DEF basename, l
  <2>6. substr(p, u, Len(p) - 2) = SubSeq(p, u + 1, IF u < 2 THEN u + Len(p) - 2 ELSE Len(p))
    BY <1>0, <1>5, <2>3 DEF substr
  <2> QED
    BY <2>2, <2>5, <2>6
<1>6. ASSUME p # <<>>, k < Len(p) PROVE basename(p) = SubSeq(p, k + 1, Len(p))
  <2>1. Len(p) # k /\ Len(p) > 0
    BY <1>0, <1>6
  <2>2. ~(l = 0 /\ Len(p) = 1)
    <3>1. npos > 0
      BY Wraps
    <3>2. ASSUME Len(p) = 1 PROVE k = 0
      BY <1>0, <1>6, <3>2
    <3> QED
      BY <1>1, <3>1, <3>2
  <2>3. basename(p) = substr(p, k, npos)
    BY <1>2, <2>1, <2>2 DEF basename, l
  <2> QED
    BY <1>0, <2>3 DEF substr
<1> QED
  BY <1>3, <1>4, <1>5, <1>6

LEMMA BasenameAlways ==
  ASSUME NEW C, NEW p \in Seq(C), Fitting(p)
  PROVE  BasenameAgrees(p)
<1> DEFINE n == Len(p)
<1>0. n \in Nat
  OBVIOUS
<1>1. PICK t : LastOther(p, t)
  BY HasLastOther
<1>2. t \in 0..n /\ (t > 0 => p[t] # "/") /\ \A j \in (t + 1)..n : p[j] = "/"
  BY <1>1 DEF LastOther
<1>3. PICK k : LastSlash(p, t, k)
  BY <1>2, HasLastSlash
<1>4. k \in 0..t /\ (k > 0 => p[k] = "/") /\ \A j \in (k + 1)..t : p[j] # "/"
  BY <1>3 DEF LastSlash
<1>5. Trimmed(p) = SubSeq(p, 1, t)
  BY <1>1, <1>3, ManualBranches
<1>6. Trimmed(p) = <<>> <=> t = 0
  BY <1>0, <1>2, <1>5
<1>7. \A a, b \in 1..n : a <= b =>
         /\ Len(SubSeq(p, a, b)) = b - a + 1 /\ SubSeq(p, a, b) \in Seq(C)
         /\ \A i \in 1..(b - a + 1) : SubSeq(p, a, b)[i] = p[a + i - 1]
  BY <1>0
<1>8. CASE p = <<>>
  <2>1. LastSlash(p, n, 0)
    BY <1>8 DEF LastSlash
  <2>2. basename(p) = <<>> /\ ManualBasename(p) = <<".">>
    BY <1>1, <1>3, <1>8, <2>1, BasenameBranches, ManualBranches
  <2>3. ~OneName(p) /\ n = 0
    BY <1>8 DEF OneName
  <2> QED
    BY <1>8, <2>2, <2>3 DEF BasenameAgrees
<1>9. CASE p # <<>> /\ ~Trailing(p)
  <2>1. n > 0 /\ t = n
    BY <1>0, <1>2, <1>9 DEF Trailing
  <2>2. LastSlash(p, n, k) /\ k < n
    BY <1>0, <1>2, <1>3, <1>4, <2>1
  <2>3. basename(p) = SubSeq(p, k + 1, n)
    BY <1>9, <2>2, BasenameBranches
  <2>4. ManualBasename(p) = SubSeq(p, k + 1, n)
    BY <1>1, <1>3, <2>1, ManualBranches
  <2> QED
    BY <1>9, <2>3, <2>4 DEF BasenameAgrees
<1>10. CASE Trailing(p)
  <2>1. p # <<>> /\ n > 0 /\ p[n] = "/" /\ LastSlash(p, n, n) /\ t < n
    BY <1>0, <1>2, <1>10 DEF Trailing, LastSlash
  <2>2. CASE n = 1
    <3>1. basename(p) = <<"/">>
      BY <2>1, <2>2, BasenameBranches
    <3>2. t = 0
      BY <1>2, <2>1, <2>2
    <3>3. ManualBasename(p) = <<"/">>
      BY <1>1, <1>3, <2>1, <3>2, ManualBranches
    <3> QED
      BY <1>6, <2>2, <3>1, <3>2, <3>3 DEF BasenameAgrees
  <2>3. CASE n > 1
    <3>1. PICK u : /\ LastSlash(p, n - 1, u)
                   /\ basename(p) = SubSeq(p, u + 1, IF u < 2 THEN u + n - 2 ELSE n)
      BY <2>1, <2>3, BasenameBranches
    <3>2. u \in 0..(n - 1) /\ (u > 0 => p[u] = "/") /\ \A j \in (u + 1)..(n - 1) : p[j] # "/"
      BY <3>1 DEF LastSlash
    <3>3. OneName(p) <=> u = 1 /\ n > 2
      <4>1. OneName(p) => u = 1 /\ n > 2
        BY <1>0, <2>3, <3>2 DEF OneName, Slashes
      <4>2. ASSUME u = 1, n > 2 PROVE OneName(p)
        <5>1. \A i \in 1..n : p[i] = "/" <=> i \in {1, n}
          BY <1>0, <2>1, <3>2, <4>2
        <5> QED
          BY <1>0, <4>2, <5>1 DEF OneName, Slashes
      <4> QED
        BY <4>1, <4>2
    <3>4. BasenameAgrees(p) <=>
            (basename(p) = ManualBasename(p) <=> (t = 0 /\ n # 2) \/ (u = 1 /\ n > 2))
      BY <1>6, <1>10, <2>1, <2>3, <3>3 DEF BasenameAgrees
    <3>5. CASE t = 0
      <4>1. ManualBasename(p) = <<"/">> /\ u = n - 1
        BY <1>0, <1>1, <1>2, <1>3, <2>1, <2>3, <3>2, <3>5, ManualBranches
      <4>2. CASE n = 2
        <5>1. basename(p) = <<>>
          BY <1>0, <3>1, <4>1, <4>2
        <5> QED
          BY <3>4, <3>5, <4>1, <4>2, <5>1
      <4>3. CASE n > 2
        <5>1. basename(p) = SubSeq(p, n, n)
          BY <1>0, <3>1, <4>1, <4>3
        <5> DEFINE s == SubSeq(p, n, n)
        <5>2. s \in Seq(C) /\ Len(s) = 1 /\ s[1] = "/"
          BY <1>0, <2>1
        <5> HIDE DEF s
        <5>3. s = <<"/">>
          BY <5>2, OneLong
        <5> USE DEF s
        <5> QED
          BY <3>4, <3>5, <4>1, <4>3, <5>1, <5>3
      <4> HIDE DEF n
      <4>4. n = 2 \/ n > 2
        BY <1>0, <2>3
      <4> QED
        BY <4>2, <4>3, <4>4
    <3>6. CASE t > 0
      <4> DEFINE code == SubSeq(p, u + 1, IF u < 2 THEN u + n - 2 ELSE n)
                 manual == SubSeq(p, k + 1, t)
      <4>1. basename(p) = code /\ ManualBasename(p) = manual
        BY <1>1, <1>3, <3>1, <3>6, ManualBranches
      <4>2. k < t
        BY <1>2, <1>4, <3>6
      <4>3. Len(manual) = t - k /\ manual[t - k] = p[t]
        BY <1>2, <1>4, <1>7, <4>2
      <4>4. CASE u = 0
        <5>1. t = n - 1 /\ k = 0
          BY <1>0, <1>2, <1>4, <2>1, <2>3, <3>2, <4>4
        <5>2. code = SubSeq(p, 1, n - 2)
          BY <1>0, <4>4
        <5>3. Len(code) = n - 2
          <6>1. \A j \in 0..n : Len(SubSeq(p, 1, j)) = j
            BY <1>0
          <6> HIDE DEF n, code
          <6>2. n - 2 \in 0..n
            BY <1>0, <2>3
          <6> QED
            BY <5>2, <6>1, <6>2
        <5> HIDE DEF code, manual, n
        <5>4. Len(manual) = n - 1
          BY <1>0, <4>3, <5>1
        <5>5. code # manual
          BY <1>0, <5>3, <5>4
        <5> QED
          BY <3>4, <3>6, <4>1, <4>4, <5>5
      <4>5. CASE u = 1
        <5>1. t = n - 1 /\ n > 2 /\ k = 1
          BY <1>0, <1>2, <1>4, <2>1, <2>3, <3>2, <3>6, <4>5
        <5>2. code = manual
          BY <1>0, <4>5, <5>1
        <5> QED
          BY <3>4, <4>1, <4>5, <5>1, <5>2
      <4>6. CASE u > 1
        <5>1. Len(code) = n - u /\ code[n - u] = p[n] /\ n - u > 0
          BY <1>0, <1>7, <2>1, <3>2, <4>6
        <5>2. code # manual
          BY <1>2, <2>1, <3>6, <4>3, <5>1
        <5> HIDE DEF code, manual, n
        <5> QED
          BY <3>4, <3>6, <4>1, <4>6, <5>2
      <4> QED
        BY <3>2, <4>4, <4>5, <4>6
    <3> QED
      BY <1>2, <3>5, <3>6
  <2> HIDE DEF n
  <2>4. n = 1 \/ n > 1
    BY <1>0, <2>1
  <2> QED
    BY <2>2, <2>3, <2>4
<1> QED
  BY <1>8, <1>9, <1>10

LEMMA RejoinedAlways ==
  ASSUME NEW C, NEW p \in Seq(C), Fitting(p)
  PROVE  Rejoined(p)
<1> SUFFICES ASSUME ~Trailing(p), Slashes(p) # {}
             PROVE  dirname(p) \o <<"/">> \o basename(p) = p
  BY DEF Rejoined
<1> DEFINE n == Len(p)
<1>0. n \in Nat /\ p # <<>> /\ n > 0 /\ p[n] # "/"
  BY DEF Trailing, Slashes
<1>1. PICK k : LastSlash(p, n, k)
  BY <1>0, HasLastSlash
<1>2. k \in 1..(n - 1) /\ p[k] = "/"
  BY <1>0, <1>1 DEF LastSlash, Slashes
<1>3. dirname(p) = SubSeq(p, 1, k - 1) /\ basename(p) = SubSeq(p, k + 1, n)
  <2>1. k > 0 /\ k < Len(p)
    BY <1>0, <1>2
  <2> QED
    BY <1>0, <1>1, <2>1, DirnameBranches, BasenameBranches
<1>4. SubSeq(p, 1, k - 1) \o <<p[k]>> = SubSeq(p, 1, k)
  BY <1>0, <1>2
<1>5. SubSeq(p, 1, k) \o SubSeq(p, k + 1, n) = p
  BY <1>0, <1>2, ConcatAdjacentSubSeq, SubSeqFull
<1> QED
  BY <1>2, <1>3, <1>4, <1>5

\* 005/parse_pathname.cpp:20-48: dirname and basename are what Pathnames says for
\* every path of any characters that is shorter than the largest size_t.
THEOREM PathnamesAlways == PathSpec => []Pathnames
<1> DEFINE PathOK == path \in Seq(Char \cup {"/"}) /\ Len(path) <= MaxPath
<1>1. PathInit => PathOK
  BY PathAssumption DEF PathInit
<1>2. PathOK /\ [PathNext]_path => PathOK'
  <2> SUFFICES ASSUME PathOK, [PathNext]_path PROVE PathOK'
    OBVIOUS
  <2>1. CASE PathNext
    BY <2>1, PathAssumption DEF PathNext
  <2>2. CASE UNCHANGED path
    BY <2>2
  <2> QED
    BY <2>1, <2>2
<1>3. PathOK => Pathnames
  <2> SUFFICES ASSUME PathOK PROVE Pathnames
    OBVIOUS
  <2>1. Fitting(path)
    BY PathAssumption DEF Fitting, npos
  <2> QED
    BY <2>1, DirnameAlways, BasenameAlways, RejoinedAlways DEF Pathnames
<1> QED
  BY <1>1, <1>2, <1>3, PTL DEF PathSpec

-----------------------------------------------------------------------------
(* read_packet and filterpictype of 006                                    *)

\* A suffix, element by element.
LEMMA SuffixIs ==
  ASSUME NEW C, NEW s \in Seq(C), NEW t \in Seq(C)
  PROVE  IsSuffix(s, t) <=>
           Len(s) <= Len(t) /\ \A i \in 1..Len(s) : s[i] = t[Len(t) - Len(s) + i]
<1> DEFINE m == Len(s)
           n == Len(t)
           rs == Reverse(s)
           rt == Reverse(t)
<1>0. m \in Nat /\ n \in Nat
  OBVIOUS
<1>1. /\ rs \in Seq(C) /\ Len(rs) = m /\ \A i \in 1..m : rs[i] = s[m - i + 1]
      /\ rt \in Seq(C) /\ Len(rt) = n /\ \A i \in 1..n : rt[i] = t[n - i + 1]
  BY DEF Reverse
<1> HIDE DEF rs, rt, m, n
<1>2. IsSuffix(s, t) <=> m <= n /\ SubSeq(rs, 1, m) = SubSeq(rt, 1, m)
  BY <1>1 DEF IsSuffix, IsPrefix, rs, rt
<1>3. CASE m <= n
  <2>1. /\ SubSeq(rs, 1, m) \in Seq(C) /\ Len(SubSeq(rs, 1, m)) = m
        /\ \A i \in 1..m : SubSeq(rs, 1, m)[i] = rs[i]
        /\ SubSeq(rt, 1, m) \in Seq(C) /\ Len(SubSeq(rt, 1, m)) = m
        /\ \A i \in 1..m : SubSeq(rt, 1, m)[i] = rt[i]
    BY <1>0, <1>1, <1>3
  <2>2. SubSeq(rs, 1, m) = SubSeq(rt, 1, m) <=> \A i \in 1..m : rs[i] = rt[i]
    BY <2>1, SeqEqual
  <2>3. (\A i \in 1..m : rs[i] = rt[i]) <=> \A i \in 1..m : s[i] = t[n - m + i]
    <3>1. ASSUME \A i \in 1..m : rs[i] = rt[i], NEW i \in 1..m
          PROVE  s[i] = t[n - m + i]
      <4>1. m - i + 1 \in 1..m /\ m - (m - i + 1) + 1 = i /\ n - (m - i + 1) + 1 = n - m + i
        BY <1>0
      <4> QED
        BY <1>0, <1>1, <1>3, <3>1, <4>1
    <3>2. ASSUME \A i \in 1..m : s[i] = t[n - m + i], NEW i \in 1..m
          PROVE  rs[i] = rt[i]
      <4> DEFINE j == m - i + 1
      <4>1. j \in 1..m /\ n - m + j = n - i + 1 /\ i \in 1..n
        BY <1>0, <1>3
      <4>2. rs[i] = s[j] /\ rt[i] = t[n - i + 1]
        BY <1>1, <4>1
      <4> HIDE DEF j
      <4> QED
        BY <3>2, <4>1, <4>2
    <3> QED
      BY <3>1, <3>2
  <2> QED
    BY <1>2, <1>3, <2>2, <2>3 DEF m, n
<1> QED
  BY <1>2, <1>3 DEF m, n

\* What stands before a name shorter than the suffix never completes it.
LEMMA NotBefore ==
  ASSUME NEW C, d_name \in Seq(C), d_name # <<>>, NEW before \in Befores,
         NEW s \in Seq(C), Len(s) \in 1..5, \A i \in 1..Len(s) : s[i] # "type"
  PROVE  EndsWith(before, s) <=> IsSuffix(s, d_name)
<1> DEFINE D == C \cup Letter \cup {"type"}
           m == Len(s)
           n == Len(d_name)
           memory == before \o d_name
<1>0. m \in 1..5 /\ n \in Nat /\ n > 0
  OBVIOUS
<1>1. before \in Seq(D) /\ Len(before) = 4 /\ before[4] = "type"
  <2>1. PICK a \in Letter, b \in Letter, c \in Letter : before = <<a, b, c, "type">>
    BY DEF Befores
  <2>2. a \in D /\ b \in D /\ c \in D /\ "type" \in D
    OBVIOUS
  <2> HIDE DEF D
  <2> QED
    BY <2>1, <2>2
<1>2. d_name \in Seq(D) /\ s \in Seq(D)
  OBVIOUS
<1> HIDE DEF D
<1>3. /\ memory \in Seq(D) /\ Len(memory) = n + 4 /\ memory[4] = "type"
      /\ \A i \in 1..n : memory[4 + i] = d_name[i]
  <2>1. /\ memory \in Seq(D) /\ Len(memory) = 4 + n
        /\ \A i \in 1..(4 + n) : memory[i] = IF i <= 4 THEN before[i] ELSE d_name[i - 4]
    <3>1. before \in Seq(D) /\ Len(before) = 4 /\ d_name \in Seq(D)
      BY <1>1, <1>2
    <3>2. /\ memory \in Seq(D) /\ Len(memory) = Len(before) + Len(d_name)
          /\ \A i \in 1..(Len(before) + Len(d_name)) :
               memory[i] = IF i <= Len(before) THEN before[i] ELSE d_name[i - Len(before)]
      BY <3>1, ConcatProperties
    <3> HIDE DEF memory
    <3> QED
      BY <3>1, <3>2
  <2> HIDE DEF memory, n
  <2>2. \A i \in 1..n : 4 + i \in 1..(4 + n) /\ ~(4 + i <= 4) /\ (4 + i) - 4 = i
    BY <1>0
  <2> QED
    BY <1>0, <1>1, <2>1, <2>2
<1> HIDE DEF memory
<1>4. /\ SubSeq(memory, n + 4 - m + 1, n + 4) \in Seq(D)
      /\ Len(SubSeq(memory, n + 4 - m + 1, n + 4)) = m
      /\ \A i \in 1..m : SubSeq(memory, n + 4 - m + 1, n + 4)[i] = memory[n + 4 - m + i]
  <2> HIDE DEF m, n
  <2>1. n + 4 - m + 1 \in 1..(n + 4) /\ n + 4 - (n + 4 - m + 1) + 1 = m
    BY <1>0
  <2> QED
    BY <1>0, <1>3, <2>1
<1>5. EndsWith(before, s) <=> \A i \in 1..m : s[i] = memory[n + 4 - m + i]
  <2>1. EndsWith(before, s) <=> SubSeq(memory, n + 4 - m + 1, n + 4) = s
    <3>1. EndsWith(before, s) <=> SubSeq(memory, Len(memory) - m + 1, Len(memory)) = s
      BY DEF EndsWith, memory
    <3>2. Len(memory) = n + 4
      BY <1>3
    <3> QED
      BY <3>1, <3>2
  <2> QED
    BY <1>2, <1>4, <2>1, SeqEqual
<1>6. IsSuffix(s, d_name) <=> m <= n /\ \A i \in 1..m : s[i] = d_name[n - m + i]
  BY SuffixIs
<1> HIDE DEF n
<1>7. CASE m <= n
  <2>1. \A i \in 1..m : memory[n + 4 - m + i] = d_name[n - m + i]
    <3> TAKE i \in 1..m
    <3>1. n - m + i \in 1..n /\ n + 4 - m + i = 4 + (n - m + i)
      BY <1>0, <1>7
    <3> QED
      BY <1>3, <3>1
  <2> QED
    BY <1>5, <1>6, <1>7, <2>1
<1>8. CASE m > n
  <2>1. m - n \in 1..m /\ n + 4 - m + (m - n) = 4
    BY <1>0, <1>8
  <2>2. s[m - n] # memory[n + 4 - m + (m - n)]
    BY <1>3, <2>1
  <2>3. ~(m <= n)
    BY <1>0, <1>8
  <2> QED
    BY <1>5, <1>6, <2>1, <2>2, <2>3
<1> QED
  BY <1>0, <1>7, <1>8

LEMMA FiltersAlways ==
  ASSUME NEW C, d_name \in Seq(C)
  PROVE  FiltersPictures
<1> SUFFICES ASSUME d_name # <<>>, NEW before \in Befores
             PROVE  filterpictype(before) = 1 <=> IsSuffix(Jpg, d_name) \/ IsSuffix(Jpeg, d_name)
  BY DEF FiltersPictures
<1> DEFINE D == C \cup {".", "j", "p", "e", "g"}
<1>1. d_name \in Seq(D)
  OBVIOUS
<1>2. /\ Jpg \in Seq(D) /\ Len(Jpg) = 4 /\ \A i \in 1..4 : Jpg[i] # "type"
      /\ Jpeg \in Seq(D) /\ Len(Jpeg) = 5 /\ \A i \in 1..5 : Jpeg[i] # "type"
  BY DEF Jpg, Jpeg
<1> HIDE DEF D
<1>3. EndsWith(before, Jpg) <=> IsSuffix(Jpg, d_name)
  BY <1>1, <1>2, NotBefore
<1>4. EndsWith(before, Jpeg) <=> IsSuffix(Jpeg, d_name)
  BY <1>1, <1>2, NotBefore
<1> QED
  BY <1>3, <1>4 DEF filterpictype

PdTypeOK ==
  /\ data \in Seq(Byte) /\ bd \in Seq(Byte) /\ received \in Seq(Byte)
  /\ ret \in Int /\ d_name \in Seq(Letter)

\* ReceivesData, with what the end of the file stands for.
PdInv == PdTypeOK /\ ReceivesData /\ (ret = AVERROR_EOF => bd = <<>>)

LEMMA PdInitInv == PdInit => PdInv
<1> SUFFICES ASSUME PdInit PROVE PdInv
  OBVIOUS
<1>1. data \in Seq(Byte)
  BY DEF PdInit
<1>2. <<>> \o data = data
  BY <1>1
<1> QED
  BY <1>1, <1>2 DEF PdInit, PdInv, PdTypeOK, ReceivesData, AVERROR_EOF

LEMMA PdNextInv == PdInv /\ [PdNext]_pdVars => PdInv'
<1> SUFFICES ASSUME PdInv, [PdNext]_pdVars PROVE PdInv'
  OBVIOUS
<1>0. /\ data \in Seq(Byte) /\ bd \in Seq(Byte) /\ received \in Seq(Byte)
      /\ ret \in Int /\ d_name \in Seq(Letter)
      /\ received \o bd = data
      /\ ret = AVERROR_EOF => received = data
      /\ ret = AVERROR_EOF => bd = <<>>
      /\ ret # AVERROR_EOF /\ received # <<>> => ret \in 1..Len(received)
  BY DEF PdInv, PdTypeOK, ReceivesData
<1>1. CASE NextName
  <2>1. d_name' \in Seq(Letter)
    BY <1>0, <1>1 DEF NextName
  <2> QED
    BY <1>0, <1>1, <2>1 DEF NextName, PdInv, PdTypeOK, ReceivesData
<1>2. ASSUME NEW buf_size \in 1..MaxBuf, read_packet(buf_size)
      PROVE  PdInv'
  <2> DEFINE n == IF buf_size > Len(bd) THEN Len(bd) ELSE buf_size
  <2>1. n \in 0..Len(bd) /\ (n = 0 => Len(bd) = 0)
    BY <1>0, PicDataAssumption
  <2>2. UNCHANGED <<data, d_name>>
    BY <1>2 DEF read_packet
  <2>3. CASE n = 0 /\ ret' = AVERROR_EOF /\ UNCHANGED <<bd, received>>
    <3>1. bd = <<>>
      BY <1>0, <2>1, <2>3
    <3>2. received = data
      BY <1>0, <3>1
    <3> QED
      BY <1>0, <2>2, <2>3, <3>1, <3>2 DEF PdInv, PdTypeOK, ReceivesData, AVERROR_EOF
  <2>4. CASE /\ n > 0 /\ ret' = n
             /\ received' = received \o SubSeq(bd, 1, n)
             /\ bd' = SubSeq(bd, n + 1, Len(bd))
    <3> HIDE DEF n
    <3> DEFINE copy == SubSeq(bd, 1, n)
               rest == SubSeq(bd, n + 1, Len(bd))
    <3>1. copy \in Seq(Byte) /\ Len(copy) = n /\ rest \in Seq(Byte)
      BY <1>0, <2>1, <2>4
    <3>2. copy \o rest = bd
      <4>1. /\ 1 \in 1..(Len(bd) + 1) /\ n \in (1 - 1)..Len(bd) /\ Len(bd) \in n..Len(bd)
            /\ bd \in Seq(Byte)
        BY <1>0, <2>1
      <4> QED
        BY <4>1, ConcatAdjacentSubSeq, SubSeqFull
    <3> HIDE DEF copy, rest
    <3>3. (received \o copy) \o rest = received \o (copy \o rest)
      <4>1. received \in Seq(Byte) /\ copy \in Seq(Byte) /\ rest \in Seq(Byte)
        BY <1>0, <3>1
      <4> QED
        BY <4>1, ConcatAssociative
    <3>4. received' \in Seq(Byte) /\ Len(received') = Len(received) + n /\ bd' \in Seq(Byte)
      BY <1>0, <2>4, <3>1 DEF copy, rest
    <3>5. received' \o bd' = data'
      BY <1>0, <2>2, <2>4, <3>2, <3>3 DEF copy, rest
    <3>6. ret' \in Int /\ ret' # AVERROR_EOF /\ ret' \in 1..Len(received')
      BY <1>0, <2>1, <2>4, <3>4 DEF AVERROR_EOF
    <3> QED
      BY <1>0, <2>2, <3>4, <3>5, <3>6 DEF PdInv, PdTypeOK, ReceivesData
  <2> QED
    BY <1>2, <2>3, <2>4 DEF read_packet
<1>3. CASE UNCHANGED pdVars
  BY <1>0, <1>3 DEF pdVars, PdInv, PdTypeOK, ReceivesData
<1> QED
  BY <1>1, <1>2, <1>3 DEF PdNext, Reads

\* 006/pic_op.c:33-45 and main.c:14-22: libav receives every picture as it is,
\* for any sizes of its buffers, and scandir every name that ends in a suffix.
THEOREM PicturesReadAlways == PdSpec => []PicturesRead
<1>1. PdInv => PicturesRead
  BY FiltersAlways DEF PdInv, PdTypeOK, PicturesRead
<1> QED
  BY <1>1, PdInitInv, PdNextInv, PTL DEF PdSpec

-----------------------------------------------------------------------------
(* read_cfg_file of 001                                                    *)

\* r is the first position from i on whose element is not in C.
IsPast(s, i, C, r) ==
  /\ r \in i..(Len(s) + 1)
  /\ \A j \in i..(r - 1) : s[j] \in C
  /\ r <= Len(s) => s[r] \notin C

LEMMA PastIs ==
  ASSUME NEW X, NEW s \in Seq(X), NEW i \in 1..(Len(s) + 1), NEW C
  PROVE  IsPast(s, i, C, Past(s, i, C))
<1> DEFINE stop == {j \in i..Len(s) : s[j] \notin C}
<1>0. Len(s) \in Nat /\ i \in Nat
  OBVIOUS
<1>1. CASE stop = {}
  <2>1. Past(s, i, C) = Len(s) + 1
    BY <1>1 DEF Past
  <2>2. \A j \in i..((Len(s) + 1) - 1) : s[j] \in C
    BY <1>0, <1>1
  <2> QED
    BY <1>0, <2>1, <2>2 DEF IsPast
<1>2. CASE stop # {}
  <2>1. \E j \in stop : \A k \in stop : j <= k
    BY <1>0, <1>2, Least, stop \subseteq Nat
  <2> DEFINE r == CHOOSE j \in stop : \A k \in stop : j <= k
  <2>2. r \in stop /\ \A k \in stop : r <= k
    BY <2>1
  <2>3. Past(s, i, C) = r
    BY <1>2 DEF Past
  <2>4. r \in i..Len(s) /\ s[r] \notin C
    BY <2>2
  <2>5. ASSUME NEW j \in i..(r - 1)
        PROVE  s[j] \in C
    <3> HIDE DEF r
    <3>1. j \in i..Len(s) /\ ~(r <= j)
      BY <1>0, <2>4
    <3> QED
      BY <2>2, <3>1
  <2> HIDE DEF r
  <2> QED
    BY <1>0, <2>3, <2>4, <2>5 DEF IsPast
<1> QED
  BY <1>1, <1>2

LEMMA PastOne ==
  ASSUME NEW X, NEW s \in Seq(X), NEW i \in 1..(Len(s) + 1), NEW C,
         NEW r, IsPast(s, i, C, r)
  PROVE  Past(s, i, C) = r
<1> DEFINE q == Past(s, i, C)
<1>1. IsPast(s, i, C, q)
  BY PastIs
<1> HIDE DEF q
<1>2. q = r
  BY <1>1 DEF IsPast
<1> QED
  BY <1>2 DEF q

\* The parts of s between o and e, by their places in s.
PartsAt(s, o, e, p) ==
  /\ p \in Nat \X Nat \X Nat /\ 0 < p[1] /\ p[1] < p[2] /\ p[2] < p[3] /\ p[3] <= e - o
  /\ \A i \in 1..p[1] : s[o + i] \notin NotInName
  /\ \A i \in (p[1] + 1)..p[2] : s[o + i] \in Between
  /\ \A i \in (p[2] + 1)..p[3] : s[o + i] \notin NotInName
  /\ p[3] < e - o => s[o + p[3] + 1] \in NotInName

LEMMA PartsOfSub ==
  ASSUME NEW X, NEW s \in Seq(X), NEW o \in Nat, NEW e \in Nat, o <= e, e <= Len(s), NEW p
  PROVE  p \in Parts(SubSeq(s, o + 1, e)) <=> PartsAt(s, o, e, p)
<1> DEFINE t == SubSeq(s, o + 1, e)
           n == e - o
<1>1. n \in Nat /\ t \in Seq(X) /\ Len(t) = n /\ \A i \in 1..n : t[i] = s[o + i]
  <2>1. \A i \in (o + 1)..e : s[i] \in X
    OBVIOUS
  <2>2. /\ t \in Seq(X) /\ Len(t) = IF o + 1 <= e THEN e - (o + 1) + 1 ELSE 0
        /\ \A i \in 1..(e - (o + 1) + 1) : t[i] = s[(o + 1) + i - 1]
    BY <2>1, SubSeqProperties
  <2> HIDE DEF t
  <2> QED
    BY <2>2
<1> HIDE DEF t, n
<1>2. \A a, b \in Nat : a <= b /\ b <= n =>
         /\ SubSeq(t, a + 1, b) \in Seq(X) /\ Len(SubSeq(t, a + 1, b)) = b - a
         /\ \A i \in 1..(b - a) : SubSeq(t, a + 1, b)[i] = s[o + a + i]
  <2> SUFFICES ASSUME NEW a \in Nat, NEW b \in Nat, a <= b, b <= n
               PROVE  /\ SubSeq(t, a + 1, b) \in Seq(X) /\ Len(SubSeq(t, a + 1, b)) = b - a
                      /\ \A i \in 1..(b - a) : SubSeq(t, a + 1, b)[i] = s[o + a + i]
    OBVIOUS
  <2>1. \A i \in (a + 1)..b : t[i] \in X
    BY <1>1
  <2>2. /\ SubSeq(t, a + 1, b) \in Seq(X)
        /\ Len(SubSeq(t, a + 1, b)) = IF a + 1 <= b THEN b - (a + 1) + 1 ELSE 0
        /\ \A i \in 1..(b - (a + 1) + 1) : SubSeq(t, a + 1, b)[i] = t[(a + 1) + i - 1]
    BY <2>1, SubSeqProperties
  <2>3. ASSUME NEW i \in 1..(b - a) PROVE SubSeq(t, a + 1, b)[i] = s[o + a + i]
    <3>1. i \in 1..(b - (a + 1) + 1) /\ (a + 1) + i - 1 = a + i /\ a + i \in 1..n /\ o + (a + i) = o + a + i
      BY <1>1
    <3> QED
      BY <1>1, <2>2, <3>1
  <2> QED
    BY <2>2, <2>3
<1>3. \A a, b \in Nat : a < b /\ b <= n =>
         (Word(SubSeq(t, a + 1, b)) <=> \A i \in (a + 1)..b : s[o + i] \notin NotInName)
  <2> SUFFICES ASSUME NEW a \in Nat, NEW b \in Nat, a < b, b <= n
               PROVE  Word(SubSeq(t, a + 1, b)) <=> \A i \in (a + 1)..b : s[o + i] \notin NotInName
    OBVIOUS
  <2> DEFINE w == SubSeq(t, a + 1, b)
  <2>1. w # <<>> /\ Len(w) = b - a /\ \A i \in 1..(b - a) : w[i] = s[o + a + i]
    <3>0. a \in Nat /\ b \in Nat /\ a <= b /\ b <= n
      OBVIOUS
    <3>1. w \in Seq(X) /\ Len(w) = b - a /\ \A i \in 1..(b - a) : w[i] = s[o + a + i]
      BY <1>2, <3>0, Zenon
    <3> HIDE DEF w
    <3> QED
      BY <3>1
  <2> HIDE DEF w
  <2>2. ASSUME Word(w), NEW i \in (a + 1)..b PROVE s[o + i] \notin NotInName
    <3>1. i - a \in 1..(b - a) /\ o + a + (i - a) = o + i
      OBVIOUS
    <3> QED
      BY <2>1, <2>2, <3>1 DEF Word
  <2>3. ASSUME \A i \in (a + 1)..b : s[o + i] \notin NotInName PROVE Word(w)
    <3>1. ASSUME NEW i \in 1..(b - a) PROVE w[i] \notin NotInName
      <4>1. a + i \in (a + 1)..b /\ o + a + i = o + (a + i)
        OBVIOUS
      <4> QED
        BY <2>1, <2>3, <4>1
    <3> QED
      BY <2>1, <3>1 DEF Word
  <2> QED
    BY <2>2, <2>3 DEF w
<1>4. ASSUME p \in Nat \X Nat \X Nat, 0 < p[1], p[1] < p[2], p[2] < p[3], p[3] <= n
      PROVE  p \in Parts(t) <=> PartsAt(s, o, e, p)
  <2>1. Word(SubSeq(t, 1, p[1])) <=> \A i \in 1..p[1] : s[o + i] \notin NotInName
    <3>1. 0 + 1 = 1 /\ p[1] <= n /\ p[1] \in Nat
      BY <1>1, <1>4
    <3> QED
      BY <1>3, <1>4, <3>1
  <2>2. Word(SubSeq(t, p[2] + 1, p[3])) <=> \A i \in (p[2] + 1)..p[3] : s[o + i] \notin NotInName
    BY <1>3, <1>4
  <2>3. \A i \in (p[1] + 1)..p[2] : t[i] = s[o + i]
    BY <1>1, <1>4
  <2>4. p[3] < n => t[p[3] + 1] = s[o + p[3] + 1]
    BY <1>1, <1>4
  <2>5. p \in (1..Len(t)) \X (1..Len(t)) \X (1..Len(t))
    BY <1>1, <1>4
  <2> QED
    BY <1>1, <1>4, <2>1, <2>2, <2>3, <2>4, <2>5 DEF Parts, PartsAt, n
<1>5. p \in Parts(t) => p \in Nat \X Nat \X Nat /\ 0 < p[1] /\ p[1] < p[2] /\ p[2] < p[3] /\ p[3] <= n
  BY <1>1 DEF Parts
<1>6. PartsAt(s, o, e, p) => p \in Nat \X Nat \X Nat /\ 0 < p[1] /\ p[1] < p[2] /\ p[2] < p[3] /\ p[3] <= n
  BY DEF PartsAt, n
<1> QED
  BY <1>4, <1>5, <1>6 DEF t

\* The newline at the end of a line is in none of its parts.
LEMMA PartsBeforeNL ==
  ASSUME NEW X, NEW s \in Seq(X), NEW o \in Nat, NEW e \in Nat, o < e, e <= Len(s), s[e] = NL,
         NEW p
  PROVE  PartsAt(s, o, e, p) <=> PartsAt(s, o, e - 1, p)
<1>1. s[e] \in NotInName
  BY DEF NotInName
<1>2. ASSUME PartsAt(s, o, e, p) PROVE PartsAt(s, o, e - 1, p)
  <2>1. p[3] # e - o
    <3> SUFFICES ASSUME p[3] = e - o PROVE FALSE
      OBVIOUS
    <3>1. p[3] \in (p[2] + 1)..p[3] /\ o + p[3] = e
      BY <1>2 DEF PartsAt
    <3> QED
      BY <1>1, <1>2, <3>1 DEF PartsAt
  <2>2. p[3] \in Nat /\ p[3] <= e - o /\ (p[3] < (e - 1) - o => s[o + p[3] + 1] \in NotInName)
    BY <1>2 DEF PartsAt
  <2>3. p[3] <= (e - 1) - o
    BY <2>1, <2>2
  <2> QED
    BY <1>2, <2>2, <2>3 DEF PartsAt
<1>3. ASSUME PartsAt(s, o, e - 1, p) PROVE PartsAt(s, o, e, p)
  <2>1. p[3] < e - o => s[o + p[3] + 1] \in NotInName
    <3>1. p[3] < (e - 1) - o => s[o + p[3] + 1] \in NotInName
      BY <1>3 DEF PartsAt
    <3>2. p[3] = (e - 1) - o => o + p[3] + 1 = e
      BY <1>3 DEF PartsAt
    <3>3. p[3] \in Nat /\ p[3] <= (e - 1) - o
      BY <1>3 DEF PartsAt
    <3> QED
      BY <1>1, <3>1, <3>2, <3>3
  <2> QED
    BY <1>3, <2>1 DEF PartsAt
<1> QED
  BY <1>2, <1>3

LEMMA BetweenNot == Between \subseteq NotInName
BY DEF Between, NotInName

\* sscanf succeeds exactly on the lines that have the parts.
LEMMA SscanfIs ==
  ASSUME NEW t \in Seq(CfgChar)
  PROVE  /\ \A p \in Parts(t) :
              sscanf(t) = <<[name |-> SubSeq(t, 1, p[1]), value |-> SubSeq(t, p[2] + 1, p[3]),
                             at |-> offset]>>
         /\ Parts(t) = {} => sscanf(t) = <<>>
<1> DEFINE n == Len(t)
           a == Past(t, 1, CfgChar \ NotInName)
           b == Past(t, a, Between)
           c == Past(t, b, CfgChar \ NotInName)
<1>0. n \in Nat
  OBVIOUS
<1>1. \A p : p \in Parts(t) <=> PartsAt(t, 0, n, p)
  <2> TAKE p
  <2>1. SubSeq(t, 0 + 1, n) = t
    BY SubSeqFull
  <2>2. p \in Parts(SubSeq(t, 0 + 1, n)) <=> PartsAt(t, 0, n, p)
    BY <1>0, PartsOfSub
  <2> QED
    BY <2>1, <2>2
<1>2. IsPast(t, 1, CfgChar \ NotInName, a)
  <2>1. 1 \in 1..(Len(t) + 1)
    BY <1>0
  <2> QED
    BY <2>1, PastIs
<1>3. a \in 1..(n + 1)
  BY <1>2 DEF IsPast
<1>4. IsPast(t, a, Between, b)
  BY <1>3, PastIs
<1>5. b \in a..(n + 1)
  BY <1>4 DEF IsPast
<1>6. IsPast(t, b, CfgChar \ NotInName, c)
  <2> HIDE DEF a, b, n
  <2>1. b \in 1..(n + 1)
    BY <1>0, <1>3, <1>5
  <2> QED
    BY <2>1, PastIs DEF n
<1>7. sscanf(t) = IF a > 1 /\ b > a /\ c > b
                    THEN <<[name |-> SubSeq(t, 1, a - 1), value |-> SubSeq(t, b, c - 1),
                            at |-> offset]>>
                    ELSE <<>>
  BY DEF sscanf
<1>8. ASSUME NEW p \in Parts(t)
      PROVE  sscanf(t) = <<[name |-> SubSeq(t, 1, p[1]), value |-> SubSeq(t, p[2] + 1, p[3]),
                            at |-> offset]>>
  <2>1. /\ p \in Nat \X Nat \X Nat /\ 0 < p[1] /\ p[1] < p[2] /\ p[2] < p[3] /\ p[3] <= n
        /\ \A i \in 1..p[1] : t[0 + i] \notin NotInName
        /\ \A i \in (p[1] + 1)..p[2] : t[0 + i] \in Between
        /\ \A i \in (p[2] + 1)..p[3] : t[0 + i] \notin NotInName
        /\ p[3] < n => t[0 + p[3] + 1] \in NotInName
    BY <1>0, <1>1 DEF PartsAt
  <2> DEFINE x == p[1]
             y == p[2]
             z == p[3]
  <2>2. /\ x \in Nat /\ y \in Nat /\ z \in Nat /\ 0 < x /\ x < y /\ y < z /\ z <= n
        /\ \A i \in 1..x : t[i] \notin NotInName
        /\ \A i \in (x + 1)..y : t[i] \in Between
        /\ \A i \in (y + 1)..z : t[i] \notin NotInName
        /\ z < n => t[z + 1] \in NotInName
    BY <1>0, <2>1
  <2> HIDE DEF x, y, z, n
  <2>3. IsPast(t, 1, CfgChar \ NotInName, x + 1)
    <3>1. t[x + 1] \in NotInName
      BY <1>0, <2>2, BetweenNot
    <3> QED
      BY <1>0, <2>2, <3>1 DEF IsPast, n
  <2>4. a = x + 1
    <3>1. 1 \in 1..(Len(t) + 1)
      BY <1>0 DEF n
    <3> QED
      BY <2>3, <3>1, PastOne
  <2>5. IsPast(t, x + 1, Between, y + 1)
    <3>1. t[y + 1] \notin Between
      BY <1>0, <2>2, BetweenNot
    <3> QED
      BY <1>0, <2>2, <3>1 DEF IsPast, n
  <2>6. x + 1 \in 1..(Len(t) + 1) /\ y + 1 \in 1..(Len(t) + 1)
    BY <1>0, <2>2 DEF n
  <2>7. b = y + 1
    BY <2>4, <2>5, <2>6, PastOne
  <2>8. IsPast(t, y + 1, CfgChar \ NotInName, z + 1)
    BY <1>0, <2>2 DEF IsPast, n
  <2>9. c = z + 1
    BY <2>6, <2>7, <2>8, PastOne
  <2> HIDE DEF a, b, c
  <2>10. a > 1 /\ b > a /\ c > b /\ a - 1 = x /\ c - 1 = z
    BY <2>2, <2>4, <2>7, <2>9
  <2> QED
    BY <1>7, <2>7, <2>10 DEF x, y, z
<1>9. ASSUME a > 1, b > a, c > b
      PROVE  <<a - 1, b - 1, c - 1>> \in Parts(t)
  <2> HIDE DEF a, b, c, n
  <2>1. c \in b..(n + 1)
    BY <1>6 DEF IsPast, n
  <2>2. /\ \A i \in 1..(a - 1) : t[i] \notin NotInName
        /\ \A i \in ((a - 1) + 1)..(b - 1) : t[i] \in Between
        /\ \A i \in ((b - 1) + 1)..(c - 1) : t[i] \notin NotInName
        /\ c - 1 < n => t[c] \in NotInName
    <3>1. \A i \in a..(b - 1) : t[i] \in Between
      BY <1>4 DEF IsPast
    <3>2. \A i \in b..(c - 1) : t[i] \notin NotInName
      BY <1>6 DEF IsPast
    <3>3. c <= n => t[c] \in NotInName
      <4>1. c <= n => c \in 1..n
        BY <1>0, <1>3, <1>5, <2>1
      <4>2. \A i \in 1..n : t[i] \in CfgChar
        BY DEF n
      <4>3. c <= n => t[c] \notin CfgChar \ NotInName
        BY <1>6 DEF IsPast, n
      <4> QED
        BY <4>1, <4>2, <4>3
    <3> QED
      BY <1>0, <1>2, <1>3, <1>5, <2>1, <3>1, <3>2, <3>3 DEF IsPast
  <2>3. PartsAt(t, 0, n, <<a - 1, b - 1, c - 1>>)
    BY <1>0, <1>3, <1>5, <1>9, <2>1, <2>2 DEF PartsAt
  <2> QED
    BY <1>1, <2>3
<1> HIDE DEF a, b, c
<1>10. Parts(t) = {} => sscanf(t) = <<>>
  BY <1>7, <1>9
<1> QED
  BY <1>8, <1>10

CfgTypeOK ==
  /\ file \in Seq(CfgChar) /\ offset \in 0..Len(file)
  /\ got \in Seq([name : Seq(CfgChar), value : Seq(CfgChar), at : Nat])

\* What fgets reads: up to a newline, as much as line has room for, or the rest.
LEMMA FgetsIs ==
  ASSUME CfgTypeOK, offset < Len(file)
  PROVE  \E e \in (offset + 1)..Len(file) :
           /\ fgets = SubSeq(file, offset + 1, e) /\ Len(fgets) = e - offset
           /\ e - offset <= MAX_LINE_LEN - 1
           /\ \A i \in (offset + 1)..(e - 1) : file[i] # NL
           /\ file[e] = NL \/ e = Len(file) \/ e - offset = MAX_LINE_LEN - 1
<1> DEFINE n == Len(file)
           m == MAX_LINE_LEN - 1
           q == Past(file, offset + 1, CfgChar \ {NL})
           e == Smaller(Smaller(q, offset + m), n)
<1>0. n \in Nat /\ m \in Nat /\ m > 0 /\ offset \in Nat /\ offset < n /\ file \in Seq(CfgChar)
  BY CfgAssumption DEF CfgTypeOK
<1>1. IsPast(file, offset + 1, CfgChar \ {NL}, q)
  <2>1. offset + 1 \in 1..(Len(file) + 1)
    BY <1>0
  <2> QED
    BY <1>0, <2>1, PastIs
<1> HIDE DEF q, n, m
<1>2. /\ q \in (offset + 1)..(n + 1)
      /\ \A i \in (offset + 1)..(q - 1) : file[i] # NL
      /\ q <= n => file[q] = NL
  <2>1. /\ q \in (offset + 1)..(n + 1)
        /\ \A i \in (offset + 1)..(q - 1) : file[i] \in CfgChar \ {NL}
        /\ q <= n => file[q] \notin CfgChar \ {NL}
    BY <1>1 DEF IsPast, n
  <2>2. q <= n => file[q] \in CfgChar
    <3>1. q <= n => q \in 1..n
      BY <1>0, <2>1
    <3>2. \A i \in 1..n : file[i] \in CfgChar
      BY <1>0 DEF n
    <3> QED
      BY <3>1, <3>2
  <2> QED
    BY <2>1, <2>2
<1>3. e \in (offset + 1)..n /\ e <= q /\ e - offset <= m
  BY <1>0, <1>2 DEF Smaller
<1>4. e = q \/ e = n \/ e = offset + m
  BY <1>0, <1>2 DEF Smaller
<1>5. fgets = SubSeq(file, offset + 1, e)
  BY DEF fgets, Line, m, n, q
<1> HIDE DEF e
<1>6. Len(SubSeq(file, offset + 1, e)) = e - offset
  <2>1. \A i \in (offset + 1)..e : file[i] \in CfgChar
    BY <1>0, <1>3 DEF n
  <2>2. Len(SubSeq(file, offset + 1, e)) = IF offset + 1 <= e THEN e - (offset + 1) + 1 ELSE 0
    BY <1>0, <1>3, <2>1, SubSeqProperties
  <2> QED
    BY <1>0, <1>3, <2>2
<1>7. file[e] = NL \/ e = n \/ e - offset = m
  BY <1>0, <1>2, <1>3, <1>4
<1>8. \A i \in (offset + 1)..(e - 1) : file[i] # NL
  BY <1>0, <1>2, <1>3
<1> QED
  BY <1>3, <1>5, <1>6, <1>7, <1>8 DEF m, n

Elements(s) == {s[i] : i \in 1..Len(s)}

LEMMA ElementsAppend ==
  ASSUME NEW R, NEW s \in Seq(R), NEW r
  PROVE  Elements(s \o <<r>>) = Elements(s) \cup {r}
<1> DEFINE u == s \o <<r>>
           n == Len(s)
<1>1. n \in Nat /\ Len(u) = n + 1 /\ u[n + 1] = r /\ \A i \in 1..n : u[i] = s[i]
  <2>1. s \in Seq(R \cup {r}) /\ <<r>> \in Seq(R \cup {r}) /\ Len(<<r>>) = 1 /\ <<r>>[1] = r
    OBVIOUS
  <2>2. /\ Len(u) = n + 1
        /\ \A i \in 1..(n + 1) : u[i] = IF i <= n THEN s[i] ELSE <<r>>[i - n]
    BY <2>1, ConcatProperties
  <2> HIDE DEF u, n
  <2>3. n \in Nat
    BY DEF n
  <2>4. ~(n + 1 <= n) /\ (n + 1) - n = 1 /\ n + 1 \in 1..(n + 1)
    BY <2>3
  <2> QED
    BY <2>1, <2>2, <2>3, <2>4
<1> HIDE DEF u, n
<1>2. ASSUME NEW x \in {u[i] : i \in 1..Len(u)} PROVE x \in {s[i] : i \in 1..n} \cup {r}
  <2>1. PICK i \in 1..Len(u) : x = u[i]
    OBVIOUS
  <2>2. i \in 1..n \/ i = n + 1
    BY <1>1
  <2> QED
    BY <1>1, <2>1, <2>2
<1>3. ASSUME NEW x \in {s[i] : i \in 1..n} \cup {r} PROVE x \in {u[i] : i \in 1..Len(u)}
  <2>1. CASE x = r
    <3>1. n + 1 \in 1..Len(u)
      BY <1>1
    <3> QED
      BY <1>1, <2>1, <3>1
  <2>2. CASE x \in {s[i] : i \in 1..n}
    <3>1. PICK i \in 1..n : x = s[i]
      BY <2>2
    <3>2. i \in 1..Len(u)
      BY <1>1
    <3> QED
      BY <1>1, <3>1, <3>2
  <2> QED
    BY <2>1, <2>2
<1>4. {u[i] : i \in 1..Len(u)} = {s[i] : i \in 1..n} \cup {r}
  BY <1>2, <1>3
<1> QED
  BY <1>4 DEF u, n, Elements

\* o is where a piece of a line begins.
PieceAt(o) ==
  \E i \in 0..o :
    /\ i = 0 \/ file[i] = NL
    /\ \A j \in (i + 1)..o : file[j] # NL
    /\ (o - i) % (MAX_LINE_LEN - 1) = 0

\* When each line fits: the next one is to be read, and the pairs of those before
\* it, and no others, have been.
Reading ==
  /\ offset \in {0, Len(file)} \/ file[offset] = NL
  /\ \A l \in Lines(file) : \A p \in Parts(SubSeq(file, l[1], l[2])) :
       l[2] <= offset => Pair(l, p) \in Got
  /\ \A r \in Got : \E l \in Lines(file) : \E p \in Parts(SubSeq(file, l[1], l[2])) : r = Pair(l, p)

CfgInv ==
  /\ CfgTypeOK
  /\ offset < Len(file) => PieceAt(offset)
  /\ \A r \in Got : PieceAt(r.at)
  /\ Fits => Reading

\* The pair that stands at offset with its parts at p.
PairHere(p) ==
  [name |-> SubSeq(file, offset + 1, offset + p[1]),
   value |-> SubSeq(file, offset + p[2] + 1, offset + p[3]), at |-> offset]

\* What one turn of the loop prints.
LEMMA TurnPrints ==
  ASSUME CfgTypeOK, offset < Len(file), read_cfg_file, NEW e \in (offset + 1)..Len(file),
         fgets = SubSeq(file, offset + 1, e)
  PROVE  /\ got' \in Seq([name : Seq(CfgChar), value : Seq(CfgChar), at : Nat])
         /\ \/ Got' = Got /\ \A p : ~PartsAt(file, offset, e, p)
            \/ \E p : /\ PartsAt(file, offset, e, p) /\ Got' = Got \cup {PairHere(p)}
                      /\ \A q : PartsAt(file, offset, e, q) => PairHere(q) = PairHere(p)
<1> DEFINE t == SubSeq(file, offset + 1, e)
           R == [name : Seq(CfgChar), value : Seq(CfgChar), at : Nat]
<1>0. /\ offset \in Nat /\ e \in Nat /\ offset < e /\ e <= Len(file) /\ file \in Seq(CfgChar)
      /\ got \in Seq(R)
  BY DEF CfgTypeOK
<1>1. \A i \in (offset + 1)..e : file[i] \in CfgChar
  BY <1>0
<1>2. t \in Seq(CfgChar)
  BY <1>0, <1>1, SubSeqProperties
<1>3. \A p : p \in Parts(t) <=> PartsAt(file, offset, e, p)
  <2> TAKE p
  <2> QED
    BY <1>0, PartsOfSub
<1>4. got' = got \o sscanf(t)
  BY DEF read_cfg_file
<1> HIDE DEF R
<1>5. CASE Parts(t) = {}
  <2>1. sscanf(t) = <<>>
    BY <1>2, <1>5, SscanfIs
  <2>2. got' = got
    BY <1>0, <1>4, <2>1, ConcatEmptySeq
  <2> QED
    BY <1>0, <1>3, <1>5, <2>2 DEF Got, R
<1>6. ASSUME NEW p \in Parts(t)
      PROVE  sscanf(t) = <<PairHere(p)>> /\ PairHere(p) \in R
  <2>3. p \in Nat \X Nat \X Nat /\ 0 < p[1] /\ p[1] < p[2] /\ p[2] < p[3] /\ p[3] <= e - offset
    BY <1>3 DEF PartsAt
  <2> DEFINE x == p[1]
             y == p[2]
             z == p[3]
  <2>4. /\ x \in Nat /\ y \in Nat /\ z \in Nat /\ 0 < x /\ x < y /\ y < z /\ z <= e - offset
    BY <2>3
  <2> HIDE DEF x, y, z
  <2>5. SubSeq(t, 1, x) = SubSeq(file, offset + 1, offset + x)
    <3>1. /\ offset + 1 \in 1..Len(file) /\ e \in 1..Len(file)
          /\ 1 \in 1..(e - (offset + 1) + 1) /\ x \in 1..(e - (offset + 1) + 1)
          /\ (offset + 1) + 1 - 1 = offset + 1 /\ (offset + 1) + x - 1 = offset + x
      BY <1>0, <2>4
    <3> QED
      BY <1>0, <3>1, SubSeqOfSubSeq
  <2>6. SubSeq(t, y + 1, z) = SubSeq(file, offset + y + 1, offset + z)
    <3> DEFINE k == y + 1
    <3>1. /\ offset + 1 \in 1..Len(file) /\ e \in 1..Len(file)
          /\ k \in 1..(e - (offset + 1) + 1) /\ z \in 1..(e - (offset + 1) + 1)
          /\ (offset + 1) + k - 1 = offset + y + 1 /\ (offset + 1) + z - 1 = offset + z
      BY <1>0, <2>4
    <3> HIDE DEF k
    <3>2. SubSeq(t, k, z) = SubSeq(file, (offset + 1) + k - 1, (offset + 1) + z - 1)
      BY <1>0, <3>1, SubSeqOfSubSeq
    <3> QED
      BY <3>1, <3>2 DEF k
  <2>7. sscanf(t) = <<[name |-> SubSeq(t, 1, p[1]), value |-> SubSeq(t, p[2] + 1, p[3]),
                       at |-> offset]>>
    BY <1>2, SscanfIs
  <2>8. SubSeq(file, offset + 1, offset + x) \in Seq(CfgChar)
    <3>1. \A i \in (offset + 1)..(offset + x) : file[i] \in CfgChar
      BY <1>0, <1>1, <2>4
    <3> QED
      BY <1>0, <2>4, <3>1, SubSeqProperties
  <2>9. SubSeq(file, offset + y + 1, offset + z) \in Seq(CfgChar)
    <3>1. \A i \in (offset + y + 1)..(offset + z) : file[i] \in CfgChar
      BY <1>0, <1>1, <2>4
    <3> QED
      BY <1>0, <2>4, <3>1, SubSeqProperties
  <2> QED
    BY <1>0, <2>5, <2>6, <2>7, <2>8, <2>9 DEF PairHere, R, x, y, z
<1>7. CASE Parts(t) # {}
  <2>1. PICK p \in Parts(t) : TRUE
    BY <1>7
  <2>2. PartsAt(file, offset, e, p)
    BY <1>3
  <2> DEFINE r == PairHere(p)
  <2>3. sscanf(t) = <<r>> /\ r \in R
    BY <1>6
  <2>4. \A q : PartsAt(file, offset, e, q) => PairHere(q) = r
    <3> SUFFICES ASSUME NEW q, PartsAt(file, offset, e, q) PROVE PairHere(q) = r
      OBVIOUS
    <3>1. sscanf(t) = <<PairHere(q)>>
      BY <1>3, <1>6
    <3> QED
      BY <2>3, <3>1
  <2> HIDE DEF r
  <2>5. got' = got \o <<r>>
    BY <1>4, <2>3
  <2>6. got' \in Seq(R)
    <3>1. <<r>> \in Seq(R)
      BY <2>3
    <3> QED
      BY <1>0, <2>5, <3>1, ConcatProperties
  <2>7. Got' = Got \cup {r}
    <3>1. Got = Elements(got) /\ Got' = Elements(got')
      BY DEF Got, Elements
    <3> QED
      BY <1>0, <2>5, <3>1, ElementsAppend
  <2> QED
    BY <2>2, <2>4, <2>6, <2>7 DEF r, R
<1> QED
  BY <1>5, <1>7

\* Where fgets stops when the rest of the file begins at offset.
Turn(e) ==
  /\ e \in (offset + 1)..Len(file)
  /\ e - offset <= MAX_LINE_LEN - 1
  /\ \A i \in (offset + 1)..(e - 1) : file[i] # NL
  /\ file[e] = NL \/ e = Len(file) \/ e - offset = MAX_LINE_LEN - 1

LEMMA ModAdd ==
  ASSUME NEW m \in Nat, m > 0, NEW x \in Nat, x % m = 0
  PROVE  (x + m) % m = 0
<1> DEFINE d == x \div m
           e == (x + m) \div m
           r == (x + m) % m
<1>1. d \in Int /\ x = m * d + (x % m)
  OBVIOUS
<1>2. e \in Int /\ r \in 0..(m - 1) /\ x + m = m * e + r
  OBVIOUS
<1> HIDE DEF d, e, r
<1>3. r = m * ((d + 1) - e)
  BY <1>1, <1>2
<1> DEFINE k == (d + 1) - e
<1>4. k \in Int /\ r = m * k
  BY <1>1, <1>2, <1>3
<1> HIDE DEF k
<1>5. CASE k <= -1
  <2>1. m * k <= -m
    BY <1>4, <1>5
  <2> QED
    BY <1>2, <1>4, <2>1
<1>6. CASE k >= 1
  <2>1. m * k >= m
    BY <1>4, <1>6
  <2> QED
    BY <1>2, <1>4, <2>1
<1>7. CASE k = 0
  BY <1>4, <1>7 DEF r
<1> QED
  BY <1>4, <1>5, <1>6, <1>7

LEMMA NextPiece ==
  ASSUME CfgTypeOK, offset < Len(file), PieceAt(offset), NEW e, Turn(e), e < Len(file)
  PROVE  PieceAt(e)
<1> DEFINE m == MAX_LINE_LEN - 1
<1>0. /\ m \in Nat /\ m > 0 /\ offset \in Nat /\ e \in Nat /\ offset < e
      /\ Len(file) \in Nat
  BY CfgAssumption DEF CfgTypeOK, Turn
<1> HIDE DEF m
<1>1. CASE file[e] = NL
  <2>1. e \in 0..e /\ e - e = 0 /\ \A j \in (e + 1)..e : file[j] # NL
    BY <1>0
  <2>2. 0 % m = 0
    BY <1>0
  <2> QED
    BY <1>1, <2>1, <2>2 DEF PieceAt, m
<1>2. CASE file[e] # NL
  <2>1. e = offset + m
    <3>1. e - offset = MAX_LINE_LEN - 1
      BY <1>0, <1>2 DEF Turn
    <3> QED
      BY <1>0, <3>1 DEF m
  <2>2. PICK i \in 0..offset :
          /\ i = 0 \/ file[i] = NL
          /\ \A j \in (i + 1)..offset : file[j] # NL
          /\ (offset - i) % m = 0
    BY DEF PieceAt, m
  <2>3. \A j \in (i + 1)..e : file[j] # NL
    <3> SUFFICES ASSUME NEW j \in (i + 1)..e PROVE file[j] # NL
      OBVIOUS
    <3>1. j \in (i + 1)..offset \/ j \in (offset + 1)..(e - 1) \/ j = e
      BY <1>0
    <3> QED
      BY <1>2, <2>2, <3>1 DEF Turn
  <2>4. (e - i) % m = 0
    <3> DEFINE x == offset - i
    <3>1. x \in Nat /\ e - i = x + m /\ x % m = 0
      BY <1>0, <2>1, <2>2
    <3> HIDE DEF x
    <3>2. (x + m) % m = 0
      BY <1>0, <3>1, ModAdd
    <3> QED
      BY <3>1, <3>2
  <2>5. i \in 0..e
    BY <1>0
  <2> QED
    BY <2>2, <2>3, <2>4, <2>5 DEF PieceAt, m
<1> QED
  BY <1>1, <1>2

AtLine == offset \in {0, Len(file)} \/ file[offset] = NL

\* When each line fits, fgets reads to the end of one.
LEMMA WholeLine ==
  ASSUME CfgTypeOK, offset < Len(file), Fits, AtLine, NEW e, Turn(e)
  PROVE  file[e] = NL \/ e = Len(file)
<1> DEFINE n == Len(file)
<1>0. /\ n \in Nat /\ file \in Seq(CfgChar) /\ offset \in Nat /\ offset < n
      /\ e \in Nat /\ offset < e /\ e <= n /\ MAX_LINE_LEN \in Nat
  BY CfgAssumption DEF CfgTypeOK, Turn
<1> SUFFICES ASSUME file[e] # NL, e < n PROVE FALSE
  BY <1>0
<1> DEFINE q == Past(file, e + 1, CfgChar \ {NL})
<1>1. IsPast(file, e + 1, CfgChar \ {NL}, q)
  <2>1. e + 1 \in 1..(Len(file) + 1)
    BY <1>0
  <2> QED
    BY <1>0, <2>1, PastIs
<1> HIDE DEF q, n
<1>2. /\ q \in (e + 1)..(n + 1)
      /\ \A i \in (e + 1)..(q - 1) : file[i] # NL
      /\ q <= n => file[q] = NL
  <2>1. /\ q \in (e + 1)..(n + 1)
        /\ \A i \in (e + 1)..(q - 1) : file[i] \in CfgChar \ {NL}
        /\ q <= n => file[q] \notin CfgChar \ {NL}
    BY <1>1 DEF IsPast, n
  <2>2. q <= n => file[q] \in CfgChar
    <3>1. q <= n => q \in 1..n
      BY <1>0, <2>1
    <3>2. \A i \in 1..n : file[i] \in CfgChar
      BY <1>0 DEF n
    <3> QED
      BY <3>1, <3>2
  <2> QED
    BY <2>1, <2>2
<1> DEFINE l == <<offset + 1, q - 1>>
<1>3. l \in Lines(file)
  <2>1. l \in (1..n) \X (0..n) /\ offset + 1 <= q - 1
    BY <1>0, <1>2
  <2>2. offset + 1 = 1 \/ file[(offset + 1) - 1] = NL
    BY <1>0 DEF AtLine, n
  <2>3. q - 1 = n \/ file[(q - 1) + 1] = NL
    BY <1>0, <1>2
  <2>4. \A i \in (offset + 1)..(q - 1) : file[i] # NL
    <3> SUFFICES ASSUME NEW i \in (offset + 1)..(q - 1) PROVE file[i] # NL
      OBVIOUS
    <3>1. i \in (offset + 1)..(e - 1) \/ i = e \/ i \in (e + 1)..(q - 1)
      BY <1>0, <1>2
    <3> QED
      BY <1>2, <3>1 DEF Turn
  <2> QED
    BY <2>1, <2>2, <2>3, <2>4 DEF Lines, n
<1>4. (q - 1) - (offset + 1) + 2 < MAX_LINE_LEN
  BY <1>3 DEF Fits
<1>5. e - offset = MAX_LINE_LEN - 1
  BY <1>0 DEF Turn, n
<1> QED
  BY <1>0, <1>2, <1>4, <1>5

\* Where the line ends that fgets has read.
LineEnd(e) == IF file[e] = NL THEN e - 1 ELSE e

\* The line that is read in a turn, when it is a whole one.
LEMMA LineRead ==
  ASSUME CfgTypeOK, offset < Len(file), AtLine, NEW e, Turn(e), file[e] = NL \/ e = Len(file)
  PROVE  /\ offset < LineEnd(e) => <<offset + 1, LineEnd(e)>> \in Lines(file)
         /\ \A l \in Lines(file) : l[2] <= e =>
              (l[2] <= offset \/ (offset < LineEnd(e) /\ l = <<offset + 1, LineEnd(e)>>))
<1> DEFINE n == Len(file)
           c == LineEnd(e)
<1>0. /\ n \in Nat /\ offset \in Nat /\ offset < n /\ e \in Nat /\ offset < e /\ e <= n
      /\ \A i \in (offset + 1)..(e - 1) : file[i] # NL
  BY DEF CfgTypeOK, Turn
<1>1. (file[e] = NL /\ c = e - 1) \/ (file[e] # NL /\ c = e /\ e = n)
  BY DEF LineEnd
<1> HIDE DEF n, c
<1>2. offset = 0 \/ file[offset] = NL
  BY <1>0 DEF AtLine, n
<1>3. ASSUME offset < c PROVE <<offset + 1, c>> \in Lines(file)
  <2>1. <<offset + 1, c>> \in (1..n) \X (0..n) /\ offset + 1 <= c
    BY <1>0, <1>1, <1>3
  <2>2. offset + 1 = 1 \/ file[(offset + 1) - 1] = NL
    BY <1>0, <1>2
  <2>3. c = n \/ file[c + 1] = NL
    BY <1>0, <1>1
  <2>4. \A i \in (offset + 1)..c : file[i] # NL
    <3> SUFFICES ASSUME NEW i \in (offset + 1)..c PROVE file[i] # NL
      OBVIOUS
    <3>1. i \in (offset + 1)..(e - 1) \/ (i = e /\ c = e)
      BY <1>0, <1>1
    <3> QED
      BY <1>0, <1>1, <3>1
  <2> QED
    BY <2>1, <2>2, <2>3, <2>4 DEF Lines, n
<1>4. ASSUME NEW l \in Lines(file), l[2] <= e, offset < l[2]
      PROVE  offset < c /\ l = <<offset + 1, c>>
  <2> DEFINE x == l[1]
             y == l[2]
  <2>1. /\ l = <<x, y>> /\ x \in 1..n /\ y \in 0..n /\ x <= y
        /\ x = 1 \/ file[x - 1] = NL
        /\ y = n \/ file[y + 1] = NL
        /\ \A i \in x..y : file[i] # NL
    BY DEF Lines, n
  <2>2. y <= e /\ offset < y
    BY <1>4
  <2> HIDE DEF x, y
  <2>3. x > offset
    <3>1. ~(x <= offset)
      <4> SUFFICES ASSUME x <= offset PROVE FALSE
        OBVIOUS
      <4>1. offset # 0 /\ offset \in x..y
        BY <1>0, <2>1, <2>2
      <4> QED
        BY <1>2, <2>1, <4>1
    <3> QED
      BY <1>0, <2>1, <3>1
  <2>4. x = offset + 1
    <3> SUFFICES ASSUME x # offset + 1 PROVE FALSE
      OBVIOUS
    <3>1. x - 1 \in (offset + 1)..(e - 1) /\ x # 1
      BY <1>0, <2>1, <2>2, <2>3
    <3> QED
      BY <1>0, <2>1, <3>1
  <2>5. y = c
    <3>1. CASE file[e] = NL
      <4>1. y # e
        <5>1. y \in x..y
          BY <2>1
        <5> QED
          BY <2>1, <3>1, <5>1
      <4>2. ~(y < e - 1)
        <5> SUFFICES ASSUME y < e - 1 PROVE FALSE
          OBVIOUS
        <5>1. y + 1 \in (offset + 1)..(e - 1) /\ y # n
          BY <1>0, <2>1, <2>2
        <5> QED
          BY <1>0, <2>1, <5>1
      <4> QED
        BY <1>0, <1>1, <2>1, <2>2, <3>1, <4>1, <4>2
    <3>2. CASE file[e] # NL
      <4>1. c = e /\ e = n
        BY <1>1, <3>2
      <4>2. ~(y < e)
        <5> SUFFICES ASSUME y < e PROVE FALSE
          OBVIOUS
        <5>1. (y + 1 \in (offset + 1)..(e - 1) \/ y + 1 = e) /\ y # n
          BY <1>0, <2>1, <2>2, <4>1
        <5> QED
          BY <1>0, <2>1, <3>2, <5>1
      <4> QED
        BY <1>0, <2>1, <2>2, <4>1, <4>2
    <3> QED
      BY <3>1, <3>2
  <2> QED
    BY <2>1, <2>2, <2>4, <2>5
<1>5. ASSUME NEW l \in Lines(file), l[2] <= e
      PROVE  l[2] <= offset \/ (offset < c /\ l = <<offset + 1, c>>)
  <2>1. l[2] \in 0..n
    BY DEF Lines, n
  <2>2. l[2] <= offset \/ offset < l[2]
    BY <1>0, <2>1
  <2> QED
    BY <1>4, <1>5, <2>2
<1> QED
  BY <1>3, <1>5 DEF c

\* A part of what fgets has read is a part of its line, and is printed as such.
LEMMA PartsOfLine ==
  ASSUME CfgTypeOK, offset < Len(file), NEW e, Turn(e), NEW p
  PROVE  /\ PartsAt(file, offset, e, p) =>
              /\ offset < LineEnd(e)
              /\ p \in Parts(SubSeq(file, offset + 1, LineEnd(e)))
         /\ p \in Parts(SubSeq(file, offset + 1, LineEnd(e))) =>
              /\ PartsAt(file, offset, e, p)
              /\ Pair(<<offset + 1, LineEnd(e)>>, p) = PairHere(p)
<1> DEFINE c == LineEnd(e)
<1>0. /\ offset \in Nat /\ e \in Nat /\ offset < e /\ e <= Len(file) /\ file \in Seq(CfgChar)
  BY DEF CfgTypeOK, Turn
<1>1. (file[e] = NL /\ c = e - 1) \/ c = e
  BY DEF LineEnd
<1> HIDE DEF c
<1>2. PartsAt(file, offset, e, p) <=> PartsAt(file, offset, c, p)
  BY <1>0, <1>1, PartsBeforeNL
<1>3. c \in Nat /\ offset <= c /\ c <= Len(file)
  BY <1>0, <1>1
<1>4. p \in Parts(SubSeq(file, offset + 1, c)) <=> PartsAt(file, offset, c, p)
  BY <1>0, <1>3, PartsOfSub
<1>5. PartsAt(file, offset, c, p) => offset < c
  BY <1>0, <1>3 DEF PartsAt
<1>6. ASSUME PartsAt(file, offset, c, p) PROVE Pair(<<offset + 1, c>>, p) = PairHere(p)
  <2> DEFINE x == p[1]
             y == p[2]
             z == p[3]
  <2>1. x \in Nat /\ y \in Nat /\ z \in Nat
    BY <1>6 DEF PartsAt
  <2> HIDE DEF x, y, z
  <2>2. /\ (offset + 1) + x - 1 = offset + x /\ (offset + 1) + y = offset + y + 1
        /\ (offset + 1) + z - 1 = offset + z /\ (offset + 1) - 1 = offset
    BY <1>0, <2>1
  <2> QED
    BY <2>2 DEF Pair, PairHere, x, y, z
<1> QED
  BY <1>2, <1>4, <1>5, <1>6 DEF c

LEMMA CfgInvInit == CfgInit => CfgInv
<1> SUFFICES ASSUME CfgInit PROVE CfgInv
  OBVIOUS
<1>1. offset = 0 /\ got = <<>>
  BY DEF CfgInit
<1>2. file \in Seq(CfgChar)
  <2>1. PICK n \in 0..MaxFile : file \in [1..n -> CfgChar]
    BY DEF CfgInit
  <2> QED
    BY <2>1, CfgAssumption, SeqDef
<1>3. CfgTypeOK
  BY <1>1, <1>2 DEF CfgTypeOK
<1>4. Got = {}
  BY <1>1 DEF Got
<1>5. PieceAt(offset)
  <2>1. 0 % (MAX_LINE_LEN - 1) = 0
    BY CfgAssumption
  <2> QED
    BY <1>1, <2>1 DEF PieceAt
<1>6. Reading
  <2>1. ASSUME NEW l \in Lines(file) PROVE ~(l[2] <= offset)
    BY <1>1 DEF Lines
  <2> QED
    BY <1>1, <1>4, <2>1 DEF Reading
<1> QED
  BY <1>3, <1>4, <1>5, <1>6 DEF CfgInv

LEMMA CfgInvStep == CfgInv /\ [CfgNext]_cfgVars => CfgInv'
<1> SUFFICES ASSUME CfgInv, [CfgNext]_cfgVars PROVE CfgInv'
  OBVIOUS
<1>1. CASE UNCHANGED cfgVars
  <2>1. file' = file /\ offset' = offset /\ got' = got
    BY <1>1 DEF cfgVars
  <2>2. CfgTypeOK' /\ Got' = Got /\ (Fits' <=> Fits) /\ \A o : PieceAt(o)' <=> PieceAt(o)
    BY <2>1 DEF CfgInv, CfgTypeOK, Got, Fits, PieceAt
  <2>3. \A l, p : Pair(l, p)' = Pair(l, p)
    BY <2>1 DEF Pair
  <2>4. Fits => Reading'
    BY <2>1, <2>2, <2>3 DEF CfgInv, Reading
  <2>5. (offset < Len(file) => PieceAt(offset))'
    BY <2>1 DEF CfgInv, PieceAt
  <2>6. (\A r \in Got : PieceAt(r.at))'
    BY <2>1, <2>2 DEF CfgInv, PieceAt
  <2> QED
    BY <2>2, <2>4, <2>5, <2>6 DEF CfgInv
<1>2. CASE read_cfg_file
  <2>0. CfgTypeOK /\ offset < Len(file) /\ PieceAt(offset) /\ file' = file
    BY <1>2 DEF CfgInv, read_cfg_file
  <2>1. PICK e \in (offset + 1)..Len(file) :
          fgets = SubSeq(file, offset + 1, e) /\ Len(fgets) = e - offset /\ Turn(e)
    BY <2>0, FgetsIs DEF Turn
  <2>2. offset' = e
    <3>1. offset \in Nat /\ e \in Nat /\ offset' = offset + Len(fgets)
      BY <1>2, <2>0 DEF CfgTypeOK, read_cfg_file
    <3> HIDE DEF read_cfg_file
    <3> QED
      BY <2>1, <3>1
  <2>3. /\ got' \in Seq([name : Seq(CfgChar), value : Seq(CfgChar), at : Nat])
        /\ \/ Got' = Got /\ \A p : ~PartsAt(file, offset, e, p)
           \/ \E p : /\ PartsAt(file, offset, e, p) /\ Got' = Got \cup {PairHere(p)}
                     /\ \A q : PartsAt(file, offset, e, q) => PairHere(q) = PairHere(p)
    BY <1>2, <2>0, <2>1, TurnPrints
  <2>4. CfgTypeOK'
    BY <2>0, <2>2, <2>3 DEF CfgTypeOK
  <2>5. (offset < Len(file) => PieceAt(offset))'
    <3>1. e < Len(file) => PieceAt(e)
      BY <2>0, <2>1, NextPiece
    <3> QED
      BY <2>0, <2>2, <3>1 DEF PieceAt
  <2>6. \A r \in Got' : PieceAt(r.at)
    <3> TAKE r \in Got'
    <3>1. CASE r \in Got
      BY <3>1 DEF CfgInv
    <3>2. CASE \E p : r = PairHere(p)
      <4>1. r.at = offset
        BY <3>2 DEF PairHere
      <4> QED
        BY <2>0, <4>1
    <3> QED
      BY <2>3, <3>1, <3>2
  <2>7. (\A r \in Got : PieceAt(r.at))'
    BY <2>0, <2>6 DEF PieceAt
  <2>8. ASSUME Fits' PROVE Reading'
    <3>0. Fits /\ Reading /\ AtLine
      BY <2>0, <2>8 DEF Fits, CfgInv, Reading, AtLine
    <3>1. file[e] = NL \/ e = Len(file)
      BY <2>0, <2>1, <3>0, WholeLine
    <3> DEFINE here == <<offset + 1, LineEnd(e)>>
    <3>2. /\ offset < LineEnd(e) => here \in Lines(file)
          /\ \A l \in Lines(file) : l[2] <= e =>
               (l[2] <= offset \/ (offset < LineEnd(e) /\ l = here))
      BY <2>0, <2>1, <3>0, <3>1, LineRead
    <3>3. \A p : p \in Parts(SubSeq(file, offset + 1, LineEnd(e))) =>
                   /\ PartsAt(file, offset, e, p) /\ Pair(here, p) = PairHere(p)
      BY <2>0, <2>1, PartsOfLine
    <3>4. \A p : PartsAt(file, offset, e, p) =>
                   offset < LineEnd(e) /\ p \in Parts(SubSeq(file, offset + 1, LineEnd(e)))
      BY <2>0, <2>1, PartsOfLine
    <3>5. Got \subseteq Got'
      BY <2>3
    <3>6. ASSUME NEW l \in Lines(file), NEW p \in Parts(SubSeq(file, l[1], l[2])), l[2] <= e
          PROVE  Pair(l, p) \in Got'
      <4>1. CASE l[2] <= offset
        BY <3>0, <3>5, <4>1 DEF Reading
      <4>2. CASE l = here
        <5>1. p \in Parts(SubSeq(file, offset + 1, LineEnd(e)))
          BY <4>2
        <5>2. PartsAt(file, offset, e, p) /\ Pair(l, p) = PairHere(p)
          BY <3>3, <4>2, <5>1
        <5> QED
          BY <2>3, <5>2
      <4> QED
        BY <3>2, <3>6, <4>1, <4>2
    <3>7. ASSUME NEW r \in Got'
          PROVE  \E l \in Lines(file) : \E p \in Parts(SubSeq(file, l[1], l[2])) : r = Pair(l, p)
      <4>1. CASE r \in Got
        BY <3>0, <4>1 DEF Reading
      <4>2. ASSUME NEW p, PartsAt(file, offset, e, p), r = PairHere(p)
            PROVE  \E l \in Lines(file) : \E q \in Parts(SubSeq(file, l[1], l[2])) : r = Pair(l, q)
        <5>1. here \in Lines(file) /\ p \in Parts(SubSeq(file, offset + 1, LineEnd(e)))
          BY <3>2, <3>4, <4>2
        <5>2. Pair(here, p) = r
          BY <3>3, <4>2, <5>1
        <5>3. here[1] = offset + 1 /\ here[2] = LineEnd(e)
          OBVIOUS
        <5> QED
          BY <5>1, <5>2, <5>3
      <4> QED
        BY <2>3, <4>1, <4>2
    <3>8. \A l, p : Pair(l, p)' = Pair(l, p)
      BY <2>0 DEF Pair
    <3> QED
      BY <2>0, <2>2, <3>1, <3>6, <3>7, <3>8 DEF Reading
  <2> QED
    BY <2>4, <2>5, <2>7, <2>8 DEF CfgInv
<1> QED
  BY <1>1, <1>2 DEF CfgNext

LEMMA CfgInvReads == CfgInv => CfgRead
<1> SUFFICES ASSUME CfgInv PROVE CfgRead
  OBVIOUS
<1>1. PiecesOfLines
  BY DEF CfgInv, PiecesOfLines, PieceAt
<1>2. ASSUME Fits
      PROVE  /\ \A l \in Lines(file) : l[2] <= offset =>
                  {Pair(l, p) : p \in {q \in Parts(SubSeq(file, l[1], l[2])) :
                                         Proper(SubSeq(file, l[1], l[2]), q)}} \subseteq Got
             /\ Got \subseteq UNION {{Pair(l, p) : p \in Parts(SubSeq(file, l[1], l[2]))} :
                                       l \in Lines(file)}
  <2>1. Reading
    BY <1>2 DEF CfgInv
  <2> QED
    BY <2>1 DEF Reading
<1>3. ReadsFormat
  BY <1>2 DEF ReadsFormat
<1> QED
  BY <1>1, <1>3 DEF CfgRead

\* For every file and every size of line, read_cfg_file prints the pairs the README's
\* format wants and reads a long line in pieces of one size (001/read_cfg.c:35).
THEOREM CfgReadAlways == CfgSpec => []CfgRead
<1>1. CfgInit => CfgInv
  BY CfgInvInit
<1>2. CfgInv /\ [CfgNext]_cfgVars => CfgInv'
  BY CfgInvStep
<1>3. CfgInv => CfgRead
  BY CfgInvReads
<1> QED
  BY <1>1, <1>2, <1>3, PTL DEF CfgSpec

-----------------------------------------------------------------------------
(* dump and debug_info of 003                                              *)

\* How many bytes the row has that begins at i.
RowLen(i) == IF Len(ptr) - i < width THEN Len(ptr) - i ELSE width

RowAt(i) ==
  [at |-> i,
   hex |-> [c \in 1..width |-> IF c <= RowLen(i) THEN ptr[i + c] ELSE Gap],
   text |-> [c \in 1..RowLen(i) |-> Shown(ptr[i + c])]]

Shows(i) == SubSeq(ptr, 1, IF i < Len(ptr) THEN i ELSE Len(ptr))

DumpTypeOK ==
  /\ type \in InfoTypes /\ ptr \in Seq(InfoByte) /\ index \in Nat
  /\ rows \in Seq([at : Nat, hex : Seq(Int), text : Seq(Int)])

\* The rows that have been printed are the first of those of ptr.
DumpInv ==
  /\ DumpTypeOK
  /\ index = width * Len(rows)
  /\ \A k \in 1..Len(rows) :
       /\ width * (k - 1) \in Nat /\ width * (k - 1) < Len(ptr)
       /\ rows[k] = RowAt(width * (k - 1))
  /\ type \in {"SSL_DATA_OUT", "SSL_DATA_IN"} => rows = <<>>

LEMMA RowIs ==
  ASSUME DumpTypeOK, NEW i \in Nat, i < Len(ptr)
  PROVE  /\ RowLen(i) \in 1..width /\ i + RowLen(i) <= Len(ptr)
         /\ RowLen(i) = width \/ i + RowLen(i) = Len(ptr)
         /\ RowAt(i) \in [at : Nat, hex : Seq(Int), text : Seq(Int)]
         /\ Len(RowAt(i).text) = RowLen(i) /\ Len(RowAt(i).hex) = width
         /\ Bytes(RowAt(i)) = SubSeq(ptr, i + 1, i + RowLen(i))
<1> DEFINE n == Len(ptr)
           m == RowLen(i)
           hex == [c \in 1..width |-> IF c <= m THEN ptr[i + c] ELSE Gap]
           text == [c \in 1..m |-> Shown(ptr[i + c])]
<1>0. n \in Nat /\ width \in Nat /\ width > 0 /\ ptr \in Seq(InfoByte) /\ InfoByte \subseteq Int
  BY DumpAssumption DEF DumpTypeOK
<1>1. m \in 1..width /\ i + m <= n /\ (m = width \/ i + m = n)
  <2> HIDE DEF n
  <2> QED
    BY <1>0 DEF RowLen, n
<1>2. \A c \in 1..m : ptr[i + c] \in InfoByte
  <2>1. \A c \in 1..m : i + c \in 1..n
    BY <1>0, <1>1
  <2> QED
    BY <1>0, <2>1
<1> HIDE DEF n, m
<1>3. hex \in [1..width -> Int] /\ text \in [1..m -> Int]
  <2>1. \A c \in 1..m : ptr[i + c] \in Int
    BY <1>0, <1>2
  <2>2. \A c \in 1..width : (IF c <= m THEN ptr[i + c] ELSE Gap) \in Int
    BY <1>0, <1>1, <2>1 DEF Gap
  <2>3. \A c \in 1..m : Shown(ptr[i + c]) \in Int
    BY <2>1 DEF Shown
  <2> QED
    BY <2>2, <2>3
<1> HIDE DEF hex, text
<1>4. hex \in Seq(Int) /\ Len(hex) = width /\ text \in Seq(Int) /\ Len(text) = m
  <2>1. width \in Nat /\ m \in Nat
    BY <1>0, <1>1
  <2> QED
    BY <1>3, <2>1
<1>9. \A c \in 1..m : hex[c] = ptr[i + c]
  BY <1>0, <1>1 DEF hex
<1>10. \A c \in 1..m : hex[c] \in Int
  BY <1>0, <1>1, <1>3
<1>5. SubSeq(hex, 1, m) = SubSeq(ptr, i + 1, i + m)
  <2> DEFINE u == SubSeq(hex, 1, m)
             v == SubSeq(ptr, i + 1, i + m)
  <2>1. u \in Seq(Int) /\ Len(u) = m /\ \A c \in 1..m : u[c] = hex[c]
    <3>0. m \in Nat /\ m >= 1
      BY <1>0, <1>1
    <3>2. /\ u \in Seq(Int) /\ Len(u) = IF 1 <= m THEN m - 1 + 1 ELSE 0
          /\ \A c \in 1..(m - 1 + 1) : u[c] = hex[1 + c - 1]
      BY <3>0, <1>10, SubSeqProperties
    <3> HIDE DEF u
    <3> QED
      BY <3>0, <3>2
  <2>2. v \in Seq(Int) /\ Len(v) = m /\ \A c \in 1..m : v[c] = ptr[i + c]
    <3>1. \A c \in (i + 1)..(i + m) : ptr[c] \in Int
      <4>1. \A c \in (i + 1)..(i + m) : c \in 1..n
        BY <1>0, <1>1
      <4>2. \A c \in (i + 1)..(i + m) : ptr[c] \in InfoByte
        BY <1>0, <4>1 DEF n
      <4> QED
        BY <1>0, <4>2
    <3>2. /\ v \in Seq(Int) /\ Len(v) = IF i + 1 <= i + m THEN (i + m) - (i + 1) + 1 ELSE 0
          /\ \A c \in 1..((i + m) - (i + 1) + 1) : v[c] = ptr[(i + 1) + c - 1]
      BY <1>1, <3>1, SubSeqProperties
    <3> HIDE DEF v
    <3> QED
      BY <1>1, <3>2
  <2> HIDE DEF u, v
  <2>4. u = v
    BY <1>9, <2>1, <2>2, SeqEqual
  <2> QED
    BY <2>4 DEF u, v
<1>6. RowAt(i).text = text /\ RowAt(i).hex = hex /\ RowAt(i).at = i
  BY DEF RowAt, m, hex, text
<1>7. RowAt(i) = [at |-> i, hex |-> hex, text |-> text]
  BY DEF RowAt, m, hex, text
<1>8. RowAt(i) \in [at : Nat, hex : Seq(Int), text : Seq(Int)]
  BY <1>4, <1>7
<1> QED
  BY <1>1, <1>4, <1>5, <1>6, <1>8 DEF Bytes, m, n

\* Up to where the first k rows show ptr.
Upto(k) == IF width * k < Len(ptr) THEN width * k ELSE Len(ptr)

LEMMA UptoNext ==
  ASSUME DumpInv, NEW k \in 1..Len(rows)
  PROVE  /\ Upto(0) = 0
         /\ Upto(k - 1) = width * (k - 1)
         /\ Upto(k) = width * (k - 1) + RowLen(width * (k - 1))
         /\ Upto(k - 1) < Upto(k) /\ Upto(k) <= Len(ptr)
<1> DEFINE i == width * (k - 1)
           n == Len(ptr)
<1>0. /\ i \in Nat /\ i < n /\ n \in Nat /\ width \in Nat /\ width > 0
      /\ RowLen(i) \in 1..width /\ i + RowLen(i) <= n /\ (RowLen(i) = width \/ i + RowLen(i) = n)
  <2>1. i \in Nat /\ i < n /\ DumpTypeOK
    BY DEF DumpInv
  <2>2. n \in Nat
    BY <2>1 DEF DumpTypeOK
  <2> HIDE DEF i
  <2> QED
    BY <2>1, <2>2, DumpAssumption, RowIs
<1>1. width * k = i + width
  BY <1>0
<1>2. width * 0 = 0
  BY <1>0
<1> HIDE DEF i, n
<1>3. Upto(0) = 0
  BY <1>0, <1>2 DEF Upto, n
<1>4. Upto(k - 1) = i
  BY <1>0 DEF Upto, i, n
<1>5. Upto(k) = i + RowLen(i)
  BY <1>0, <1>1 DEF Upto, n
<1> QED
  BY <1>0, <1>3, <1>4, <1>5 DEF i, n

LEMMA CellsAre ==
  ASSUME DumpInv
  PROVE  Cells = SubSeq(ptr, 1, Upto(Len(rows)))
<1> DEFINE L == Len(rows)
           step(f) == [k \in 0..L |-> IF k = 0 THEN <<>> ELSE f[k - 1] \o Bytes(rows[k])]
           g == [k \in 0..L |-> SubSeq(ptr, 1, Upto(k))]
           h == CHOOSE f : f = step(f)
<1>0. L \in Nat /\ ptr \in Seq(InfoByte) /\ Len(ptr) \in Nat
  BY DEF DumpInv, DumpTypeOK
<1> HIDE DEF L
<1>1. ASSUME NEW k \in 0..L
      PROVE  g[k] = IF k = 0 THEN <<>> ELSE g[k - 1] \o Bytes(rows[k])
  <2>1. CASE k = 0
    <3>1. Upto(0) = 0
      BY <1>0, DumpAssumption DEF Upto
    <3>2. SubSeq(ptr, 1, 0) = <<>>
      BY <1>0, SubSeqEmpty
    <3> QED
      BY <2>1, <3>1, <3>2
  <2>2. CASE k # 0
    <3> DEFINE i == width * (k - 1)
    <3>1. k \in 1..L /\ k - 1 \in 0..L
      BY <1>0, <2>2
    <3>2. /\ Upto(k - 1) = i /\ Upto(k) = i + RowLen(i) /\ i < i + RowLen(i)
          /\ i + RowLen(i) <= Len(ptr)
      BY <3>1, UptoNext DEF L
    <3>3. DumpTypeOK /\ i \in Nat /\ i < Len(ptr) /\ rows[k] = RowAt(i)
      BY <3>1 DEF DumpInv, L
    <3> HIDE DEF i
    <3>4. Bytes(rows[k]) = SubSeq(ptr, i + 1, i + RowLen(i)) /\ RowLen(i) \in Nat
      BY <3>3, RowIs, DumpAssumption
    <3>5. SubSeq(ptr, 1, i) \o SubSeq(ptr, i + 1, i + RowLen(i)) = SubSeq(ptr, 1, i + RowLen(i))
      <4> DEFINE j == i + RowLen(i)
      <4>1. 1 \in 1..(Len(ptr) + 1) /\ i \in 0..Len(ptr) /\ j \in i..Len(ptr) /\ 1 <= i + 1
        BY <1>0, <3>2, <3>3, <3>4
      <4> HIDE DEF j
      <4>2. SubSeq(ptr, 1, i) \o SubSeq(ptr, i + 1, j) = SubSeq(ptr, 1, j)
        BY <1>0, <3>3, <4>1, ConcatAdjacentSubSeq
      <4> QED
        BY <4>2 DEF j
    <3>6. g[k] = SubSeq(ptr, 1, i + RowLen(i)) /\ g[k - 1] = SubSeq(ptr, 1, i)
      BY <3>1, <3>2
    <3> HIDE DEF g
    <3> QED
      BY <2>2, <3>4, <3>5, <3>6
  <2> QED
    BY <2>1, <2>2
<1>2. g = step(g)
  <2>1. \A k \in 0..L : g[k] = step(g)[k]
    <3> TAKE k \in 0..L
    <3>1. step(g)[k] = IF k = 0 THEN <<>> ELSE g[k - 1] \o Bytes(rows[k])
      OBVIOUS
    <3> HIDE DEF g, step
    <3> QED
      BY <1>1, <3>1
  <2> QED
    BY <2>1
<1>3. h = step(h)
  BY <1>2, Zenon
<1>4. \A k \in 0..L : h[k] = g[k]
  <2> DEFINE T == {k \in 0..L : h[k] # g[k]}
  <2> SUFFICES ASSUME T # {} PROVE FALSE
    OBVIOUS
  <2>0. T \subseteq Nat
    <3> HIDE DEF h, g
    <3> QED
      BY <1>0
  <2>1. PICK k \in T : \A j \in T : k <= j
    <3> HIDE DEF T
    <3> QED
      BY <2>0, Least
  <2>2. k \in 0..L /\ h[k] # g[k]
    OBVIOUS
  <2>3. h[k] = IF k = 0 THEN <<>> ELSE h[k - 1] \o Bytes(rows[k])
    <3> DEFINE s == step(h)
    <3>1. s[k] = IF k = 0 THEN <<>> ELSE h[k - 1] \o Bytes(rows[k])
      BY <2>2
    <3> HIDE DEF h, s
    <3> QED
      BY <1>3, <3>1 DEF s
  <2>4. k # 0 => h[k - 1] = g[k - 1]
    <3> HIDE DEF h, g
    <3> SUFFICES ASSUME k # 0 PROVE h[k - 1] = g[k - 1]
      OBVIOUS
    <3>1. k - 1 \in 0..L /\ ~(k <= k - 1)
      BY <1>0, <2>2
    <3> QED
      BY <2>1, <3>1
  <2>5. g[k] = IF k = 0 THEN <<>> ELSE g[k - 1] \o Bytes(rows[k])
    BY <1>1, <2>2
  <2> HIDE DEF g, h, T
  <2> QED
    BY <2>2, <2>3, <2>4, <2>5
<1>5. Cells = h[L]
  BY DEF Cells, L
<1>6. L \in 0..L
  BY <1>0
<1> HIDE DEF h
<1> QED
  BY <1>4, <1>5, <1>6 DEF L

LEMMA DumpInvInit == DumpInit => DumpInv
<1> SUFFICES ASSUME DumpInit PROVE DumpInv
  OBVIOUS
<1>1. type \in InfoTypes /\ index = 0 /\ rows = <<>>
  BY DEF DumpInit
<1>2. ptr \in Seq(InfoByte)
  <2>1. PICK n \in 0..MaxInfo : ptr \in [1..n -> InfoByte]
    BY DEF DumpInit
  <2> QED
    BY <2>1, DumpAssumption
<1>3. width * 0 = 0
  BY DumpAssumption
<1> QED
  BY <1>1, <1>2, <1>3 DEF DumpInv, DumpTypeOK

LEMMA DumpInvStep == DumpInv /\ [DumpNext]_duVars => DumpInv'
<1> SUFFICES ASSUME DumpInv, [DumpNext]_duVars PROVE DumpInv'
  OBVIOUS
<1>1. CASE UNCHANGED duVars
  BY <1>1 DEF DumpInv, DumpTypeOK, RowAt, RowLen, duVars
<1>2. CASE debug_info
  <2> DEFINE L == Len(rows)
             R == [at : Nat, hex : Seq(Int), text : Seq(Int)]
             r == RowAt(index)
  <2>0. /\ DumpTypeOK /\ index \in Nat /\ index < Len(ptr) /\ L \in Nat /\ rows \in Seq(R)
        /\ index = width * L /\ width \in Nat
    BY <1>2, DumpAssumption DEF DumpInv, DumpTypeOK, debug_info, dump
  <2>1. Row = r
    BY DEF Row, RowAt, RowLen, InRow
  <2>2. type' = type /\ ptr' = ptr /\ rows' = Append(rows, r) /\ index' = index + width
    BY <1>2, <2>1 DEF debug_info, dump
  <2>3. r \in R
    BY <2>0, RowIs
  <2>4. type \notin {"SSL_DATA_OUT", "SSL_DATA_IN"}
    BY <1>2 DEF debug_info, Label
  <2> HIDE DEF r, R
  <2>5. /\ rows' \in Seq(R) /\ Len(rows') = L + 1 /\ rows'[L + 1] = r
        /\ \A k \in 1..L : rows'[k] = rows[k]
    BY <2>0, <2>2, <2>3, AppendProperties
  <2>6. \A k : RowAt(k)' = RowAt(k)
    BY <2>2 DEF RowAt, RowLen
  <2> HIDE DEF L
  <2>7. ASSUME NEW k \in 1..(L + 1)
        PROVE  /\ width * (k - 1) \in Nat /\ width * (k - 1) < Len(ptr)
               /\ rows'[k] = RowAt(width * (k - 1))
    <3>1. CASE k \in 1..L
      BY <2>5, <3>1 DEF DumpInv, L
    <3>2. CASE k = L + 1
      <4>1. width * (k - 1) = index
        BY <2>0, <3>2
      <4> QED
        BY <2>0, <2>5, <3>2, <4>1 DEF r
    <3> QED
      BY <2>0, <3>1, <3>2
  <2>8. index' = width * (L + 1)
    BY <2>0, <2>2
  <2>9. DumpTypeOK'
    <3>1. index' \in Nat
      BY <2>0, <2>2
    <3> QED
      BY <2>0, <2>2, <2>5, <3>1 DEF DumpTypeOK, R
  <2> QED
    BY <2>2, <2>4, <2>5, <2>6, <2>7, <2>8, <2>9 DEF DumpInv
<1> QED
  BY <1>1, <1>2 DEF DumpNext

LEMMA DumpInvComplete == DumpInv => DumpComplete
<1> SUFFICES ASSUME DumpInv PROVE DumpComplete
  OBVIOUS
<1>1. Cells = SubSeq(ptr, 1, IF index < Len(ptr) THEN index ELSE Len(ptr))
  BY CellsAre DEF Upto, DumpInv
<1>2. ASSUME NEW k \in 1..Len(rows)
      PROVE  LET r == rows[k] IN
             /\ r.text # <<>> /\ Len(r.hex) = width
             /\ \A c \in 1..width : r.hex[c] = Gap <=> c > Len(r.text)
             /\ \A c \in 1..Len(r.text) :
                  r.hex[c] = ptr[r.at + c] /\ r.text[c] = Shown(ptr[r.at + c])
  <2> DEFINE i == width * (k - 1)
             m == RowLen(i)
  <2>1. DumpTypeOK /\ i \in Nat /\ i < Len(ptr) /\ rows[k] = RowAt(i)
    BY DEF DumpInv
  <2> HIDE DEF i
  <2>2. /\ m \in 1..width /\ i + m <= Len(ptr)
        /\ Len(RowAt(i).text) = m /\ Len(RowAt(i).hex) = width
    BY <2>1, RowIs
  <2>3. /\ RowAt(i).at = i
        /\ RowAt(i).hex = [c \in 1..width |-> IF c <= m THEN ptr[i + c] ELSE Gap]
        /\ RowAt(i).text = [c \in 1..m |-> Shown(ptr[i + c])]
    BY DEF RowAt
  <2> HIDE DEF m
  <2>4. \A c \in 1..m : ptr[i + c] # Gap
    <3>1. \A c \in 1..m : i + c \in 1..Len(ptr)
      BY <2>1, <2>2, DumpAssumption DEF DumpTypeOK
    <3>2. \A j \in 1..Len(ptr) : ptr[j] \in InfoByte
      BY <2>1 DEF DumpTypeOK
    <3>3. Gap \notin InfoByte
      BY DumpAssumption DEF Gap
    <3> QED
      BY <3>1, <3>2, <3>3
  <2> DEFINE r == rows[k]
  <2>5. /\ Len(r.text) = m /\ Len(r.hex) = width /\ r.at = i
        /\ r.hex = [c \in 1..width |-> IF c <= m THEN ptr[i + c] ELSE Gap]
        /\ r.text = [c \in 1..m |-> Shown(ptr[i + c])]
    BY <2>1, <2>2, <2>3
  <2> HIDE DEF r
  <2>6. r.text # <<>>
    BY <2>2, <2>5
  <2>7. \A c \in 1..width : r.hex[c] = Gap <=> c > Len(r.text)
    BY <2>2, <2>4, <2>5, DumpAssumption
  <2>8. \A c \in 1..m : r.hex[c] = ptr[i + c] /\ r.text[c] = Shown(ptr[i + c])
    BY <2>2, <2>5, DumpAssumption
  <2> QED
    BY <2>5, <2>6, <2>7, <2>8 DEF r
<1> QED
  BY <1>1, <1>2 DEF DumpComplete, DumpInv

\* For every width and every piece of information, dump shows each byte once and in
\* its column, whatever the last row lacks (curl_builder.cpp:131-155).
THEOREM DumpCompleteAlways == DumpSpec => []DumpComplete
<1>1. DumpInit => DumpInv
  BY DumpInvInit
<1>2. DumpInv /\ [DumpNext]_duVars => DumpInv'
  BY DumpInvStep
<1>3. DumpInv => DumpComplete
  BY DumpInvComplete
<1> QED
  BY <1>1, <1>2, <1>3, PTL DEF DumpSpec

-----------------------------------------------------------------------------
(* split and split_with_empty of 007                                       *)

PieceType == [at : Nat, text : Seq(SplitChar \cup {NUL})]

SplitTypeOK ==
  /\ block \in Seq(SplitChar) /\ delim \subseteq SplitChar /\ subdelim \subseteq SplitChar
  /\ mem \in Seq(SplitChar \cup {NUL}) /\ Len(mem) = Len(block) + 1 /\ mem[Len(block) + 1] = NUL
  /\ tokens \in Seq([word : PieceType, subs : Seq(PieceType)])
  /\ pc \in {"outer", "inner", "empty", "end"}

\* The runs of a block B.
RunsOf(B, first, last, chars) ==
  {p \in (first..last) \X (first..last) :
     /\ p[1] <= p[2] /\ \A i \in p[1]..p[2] : B[i] \notin chars
     /\ p[1] = first \/ B[p[1] - 1] \in chars
     /\ p[2] = last \/ B[p[2] + 1] \in chars}

\* What is in the memory m from p to last is as it was.
Untouched(B, m, p, last) == \A i \in p..last : m[i] = B[i]

\* p is the first place that is left to a loop over first to last.
AtCut(B, p, first, last, chars) ==
  /\ p \in first..(last + 1)
  /\ p = first \/ B[p - 1] \in chars \/ p = last + 1

LEMMA FirstIs ==
  ASSUME NEW p \in Nat, NEW n \in Nat, NEW S, S \subseteq p..n, S # {}
  PROVE  First(S, n) \in S /\ \A i \in p..(First(S, n) - 1) : i \notin S
<1>1. PICK i \in S : \A j \in S : i <= j
  <2>1. S \subseteq Nat
    OBVIOUS
  <2> QED
    BY <2>1, Least
<1> DEFINE f == CHOOSE k \in S : \A j \in S : k <= j
<1>2. f \in S /\ \A j \in S : f <= j
  BY <1>1
<1>3. First(S, n) = f
  BY DEF First
<1> HIDE DEF f
<1>4. \A k \in p..(f - 1) : k \notin S
  BY <1>2
<1> QED
  BY <1>2, <1>3, <1>4

\* What strtok_r does in a loop over first to last: it finds the next run, or that
\* there is none.
Finds(p, first, last, chars, r) ==
  \/ /\ r.token = 0 /\ r.saveptr = last + 1
     /\ \A q \in RunsOf(block, first, last, chars) : q[2] < p
  \/ \E b \in first..last :
       /\ r.token \in p..b /\ r.token > 0 /\ r.stop = b + 1
       /\ <<r.token, b>> \in RunsOf(block, first, last, chars)
       /\ AtCut(block, r.saveptr, first, last, chars) /\ b < r.saveptr
       /\ b + 1 < r.saveptr \/ r.saveptr = last + 1
       /\ \A q \in RunsOf(block, first, last, chars) :
            q[2] < r.saveptr <=> (q[2] < p \/ q = <<r.token, b>>)

LEMMA StrtokFinds ==
  ASSUME SplitTypeOK, NEW first \in Nat, first >= 1, NEW last \in Nat, last <= Len(block),
         NEW chars, chars \subseteq SplitChar, NEW p,
         AtCut(block, p, first, last, chars), Untouched(block, mem, p, last), mem[last + 1] = NUL
  PROVE  Finds(p, first, last, chars, strtok_r(p, chars))
<1> DEFINE n == Len(mem)
           start == First({i \in p..Len(mem) : mem[i] \notin chars}, Len(mem))
           stop == Stop(start, chars)
           r == strtok_r(p, chars)
<1>0. /\ n \in Nat /\ last + 1 <= n /\ p \in Nat /\ p >= first /\ p <= last + 1
      /\ \A i \in p..last : mem[i] = block[i] /\ block[i] \in SplitChar
      /\ NUL \notin SplitChar /\ NUL \notin chars
  <2>1. n = Len(block) + 1 /\ Len(block) \in Nat /\ block \in Seq(SplitChar)
    BY DEF SplitTypeOK
  <2>2. p \in first..(last + 1)
    BY DEF AtCut
  <2> HIDE DEF n
  <2>3. \A i \in p..last : i \in 1..Len(block)
    BY <2>1, <2>2
  <2> QED
    BY <2>1, <2>2, <2>3, SplitAssumption DEF Untouched
<1>1. start \in p..(last + 1) /\ mem[start] \notin chars /\ \A i \in p..(start - 1) : mem[i] \in chars
  <2> DEFINE S == {i \in p..n : mem[i] \notin chars}
  <2>1. S \subseteq p..n /\ last + 1 \in S
    BY <1>0
  <2>2. start \in S /\ \A i \in p..(start - 1) : i \notin S
    <3>1. start = First(S, n) /\ S # {}
      BY <2>1
    <3> HIDE DEF S, n, start
    <3> QED
      BY <1>0, <2>1, <3>1, FirstIs
  <2> HIDE DEF start, n
  <2>3. start \in p..n /\ mem[start] \notin chars
    BY <2>2
  <2>4. ~(last + 1 < start)
    <3> SUFFICES ASSUME last + 1 < start PROVE FALSE
      OBVIOUS
    <3>1. last + 1 \in p..(start - 1)
      BY <1>0, <2>3
    <3> QED
      BY <2>1, <2>2, <3>1
  <2>5. \A i \in p..(start - 1) : i \in p..n
    BY <1>0, <2>3
  <2> QED
    BY <1>0, <2>2, <2>3, <2>4, <2>5
<1>2. /\ stop \in start..(last + 1) /\ mem[stop] \in chars \cup {NUL}
      /\ \A i \in start..(stop - 1) : mem[i] \notin chars \cup {NUL}
  <2> DEFINE S == {i \in start..n : mem[i] \in chars \cup {NUL}}
  <2> HIDE DEF start
  <2>1. S \subseteq start..n /\ last + 1 \in S /\ start \in Nat
    BY <1>0, <1>1
  <2>2. stop \in S /\ \A i \in start..(stop - 1) : i \notin S
    <3>1. stop = First(S, n) /\ S # {}
      BY <2>1 DEF Stop
    <3> HIDE DEF S, n, stop
    <3> QED
      BY <1>0, <2>1, <3>1, FirstIs
  <2> HIDE DEF stop, n
  <2>3. stop \in start..n /\ mem[stop] \in chars \cup {NUL}
    BY <2>2
  <2>4. ~(last + 1 < stop)
    <3> SUFFICES ASSUME last + 1 < stop PROVE FALSE
      OBVIOUS
    <3>1. last + 1 \in start..(stop - 1)
      BY <1>0, <1>1, <2>3
    <3> QED
      BY <2>1, <2>2, <3>1
  <2>5. \A i \in start..(stop - 1) : i \in start..n
    BY <1>0, <1>1, <2>3
  <2> QED
    BY <1>0, <1>1, <2>2, <2>3, <2>4, <2>5
<1>3. /\ r.token = (IF mem[start] = NUL THEN 0 ELSE start) /\ r.stop = stop
      /\ r.saveptr = (IF mem[stop] = NUL THEN stop ELSE stop + 1)
  BY DEF strtok_r
<1> SUFFICES Finds(p, first, last, chars, r)
  OBVIOUS
<1> HIDE DEF start, stop, n, r
<1>4. CASE start = last + 1
  <2>1. stop = last + 1 /\ mem[stop] = NUL /\ mem[start] = NUL
    BY <1>0, <1>1, <1>2, <1>4
  <2>2. ASSUME NEW q \in RunsOf(block, first, last, chars) PROVE q[2] < p
    <3>1. q[1] \in first..last /\ q[2] \in first..last /\ q[1] <= q[2] /\ block[q[2]] \notin chars
      BY DEF RunsOf
    <3>2. ~(p <= q[2])
      <4> SUFFICES ASSUME p <= q[2] PROVE FALSE
        OBVIOUS
      <4>1. q[2] \in p..(start - 1) /\ q[2] \in p..last
        BY <1>0, <1>4, <3>1
      <4> QED
        BY <1>0, <1>1, <3>1, <4>1
    <3> QED
      BY <1>0, <3>1, <3>2
  <2> QED
    BY <1>3, <2>1, <2>2 DEF Finds
<1>5. CASE start # last + 1
  <2> DEFINE b == stop - 1
             s == r.saveptr
  <2>1. start \in p..last /\ mem[start] = block[start] /\ mem[start] # NUL
    BY <1>0, <1>1, <1>5
  <2>2. stop # start
    BY <1>1, <1>2, <2>1
  <2>3. b \in start..last /\ b \in Nat /\ stop = b + 1 /\ start \in Nat /\ start > 0
    BY <1>0, <1>1, <1>2, <2>1, <2>2
  <2> HIDE DEF b
  <2>4. \A i \in start..b : block[i] \notin chars
    <3>1. \A i \in start..b : i \in p..last /\ i \in start..(stop - 1)
      BY <1>0, <2>1, <2>3
    <3> QED
      BY <1>0, <1>2, <3>1
  <2>5. \A i \in p..(start - 1) : block[i] \in chars
    <3>1. \A i \in p..(start - 1) : i \in p..last
      BY <1>0, <2>1
    <3> QED
      BY <1>0, <1>1, <3>1
  <2>6. \/ b = last /\ s = b + 1
        \/ b < last /\ s = b + 2 /\ block[b + 1] \in chars
    <3>1. CASE b = last
      <4>1. mem[stop] = NUL
        BY <2>3, <3>1
      <4> QED
        BY <1>3, <2>3, <3>1, <4>1
    <3>2. CASE b # last
      <4>1. b + 1 \in p..last /\ b < last
        BY <1>0, <2>1, <2>3, <3>2
      <4>2. mem[stop] = block[b + 1] /\ mem[stop] # NUL
        BY <1>0, <2>3, <4>1
      <4>3. s = b + 2
        BY <1>3, <2>3, <4>2
      <4> QED
        BY <1>2, <4>1, <4>2, <4>3
    <3> QED
      BY <3>1, <3>2
  <2> HIDE DEF s
  <2>7. start = first \/ block[start - 1] \in chars
    <3>1. CASE start = p
      BY <1>0, <2>1, <3>1 DEF AtCut
    <3>2. CASE start # p
      <4>1. start - 1 \in p..(start - 1)
        BY <1>0, <2>1, <3>2
      <4> QED
        BY <2>5, <4>1
    <3> QED
      BY <3>1, <3>2
  <2>8. <<start, b>> \in RunsOf(block, first, last, chars)
    <3>1. start \in first..last /\ b \in first..last
      BY <1>0, <2>1, <2>3
    <3> QED
      BY <2>3, <2>4, <2>6, <2>7, <3>1 DEF RunsOf
  <2>9. AtCut(block, s, first, last, chars) /\ b < s
    <3>1. s \in first..(last + 1) /\ b < s /\ (s = last + 1 \/ s - 1 = b + 1)
      BY <1>0, <2>1, <2>3, <2>6
    <3> QED
      BY <2>3, <2>6, <3>1 DEF AtCut
  <2>10. ASSUME NEW q \in RunsOf(block, first, last, chars), q[2] < s, p <= q[2]
         PROVE  q = <<start, b>>
    <3> DEFINE x == q[1]
               y == q[2]
    <3>1. /\ q = <<x, y>> /\ x \in first..last /\ y \in first..last /\ x <= y
          /\ \A i \in x..y : block[i] \notin chars
          /\ x = first \/ block[x - 1] \in chars
          /\ y = last \/ block[y + 1] \in chars
      BY DEF RunsOf
    <3>2. y < s /\ p <= y
      BY <2>10
    <3> HIDE DEF x, y
    <3>3. y \in start..b
      <4>1. y \notin p..(start - 1)
        <5>1. y \in x..y
          BY <3>1
        <5> QED
          BY <2>5, <3>1, <5>1
      <4>2. y # b + 1 \/ b = last
        <5>1. y \in x..y
          BY <3>1
        <5> QED
          BY <2>6, <3>1, <5>1
      <4> QED
        BY <1>0, <2>1, <2>3, <2>6, <3>1, <3>2, <4>1, <4>2
    <3>4. y = b
      <4> SUFFICES ASSUME y # b PROVE FALSE
        OBVIOUS
      <4>1. y + 1 \in start..b /\ y # last
        BY <2>1, <2>3, <3>3
      <4> QED
        BY <2>4, <3>1, <4>1
    <3>5. ~(start < x)
      <4> SUFFICES ASSUME start < x PROVE FALSE
        OBVIOUS
      <4>1. x - 1 \in start..b /\ x # first
        BY <1>0, <2>1, <2>3, <3>1, <3>4
      <4> QED
        BY <2>4, <3>1, <4>1
    <3>6. ~(x < start)
      <4> SUFFICES ASSUME x < start PROVE FALSE
        OBVIOUS
      <4>1. start - 1 \in x..y /\ start # first
        BY <1>0, <2>1, <2>3, <3>1, <3>3
      <4> QED
        BY <2>7, <3>1, <4>1
    <3> QED
      BY <2>3, <3>1, <3>4, <3>5, <3>6
  <2>11. ASSUME NEW q \in RunsOf(block, first, last, chars)
         PROVE  q[2] < s <=> (q[2] < p \/ q = <<start, b>>)
    <3>1. q[2] \in first..last
      BY DEF RunsOf
    <3>2. q[2] < p => q[2] < s
      BY <1>0, <2>1, <2>3, <2>9, <2>6, <3>1
    <3>3. q = <<start, b>> => q[2] < s
      BY <2>9
    <3>4. q[2] < p \/ p <= q[2]
      BY <1>0, <3>1
    <3> QED
      BY <2>10, <3>2, <3>3, <3>4
  <2>12. r.token = start /\ r.stop = b + 1 /\ r.saveptr = s
    BY <1>3, <2>1, <2>3 DEF s
  <2>13. b \in first..last /\ start \in p..b /\ (b + 1 < s \/ s = last + 1)
    BY <1>0, <2>1, <2>3, <2>6
  <2> QED
    BY <2>3, <2>8, <2>9, <2>11, <2>12, <2>13 DEF Finds
<1> QED
  BY <1>4, <1>5

\* w, a sequence of pieces, are the runs of B that end before p, in order.
CutTo(B, w, first, last, chars, p) ==
  /\ {<<w[k].at, LastOf(w[k])>> : k \in 1..Len(w)} = {q \in RunsOf(B, first, last, chars) : q[2] < p}
  /\ \A j, k \in 1..Len(w) : j < k => w[j].at < w[k].at
  /\ \A k \in 1..Len(w) : w[k].text = SubSeq(B, w[k].at, LastOf(w[k]))

\* A loop over first to last has printed w, and p is its saveptr.
Loop(B, m, w, first, last, chars, p) ==
  /\ AtCut(B, p, first, last, chars) /\ Untouched(B, m, p, last) /\ m[last + 1] = NUL
  /\ CutTo(B, w, first, last, chars, p)

WordsOf(ts) == [k \in 1..Len(ts) |-> ts[k].word]

\* The inner loop is done with t.
Done(B, t, sub) ==
  IF sub = {} THEN t.subs = <<>>
  ELSE CutTo(B, t.subs, t.word.at, LastOf(t.word), sub, LastOf(t.word) + 1)

InnerAt(B, m, t, sub, p1, p2) ==
  /\ sub # {}
  /\ t.word.at \in 1..Len(B) /\ LastOf(t.word) \in t.word.at..Len(B) /\ LastOf(t.word) < p1
  /\ Loop(B, m, t.subs, t.word.at, LastOf(t.word), sub, p2)

\* The pieces w are B up to p, which stands behind a delimiter, or all of B.
Joined(B, w, d, p) ==
  /\ w = <<>> => p = 1
  /\ w # <<>> => w[1].at = 1 /\ p = LastOf(w[Len(w)]) + 2 /\ p > 1
  /\ \A k \in 1..Len(w) :
       /\ w[k].text = SubSeq(B, w[k].at, LastOf(w[k]))
       /\ \A i \in w[k].at..LastOf(w[k]) : B[i] \notin d
       /\ k < Len(w) => w[k + 1].at = LastOf(w[k]) + 2 /\ B[LastOf(w[k]) + 1] \in d

SplitInv ==
  /\ SplitTypeOK
  /\ pc \in {"outer", "inner"} =>
       /\ str_shd = 1
       /\ Loop(block, mem, WordsOf(tokens), 1, Len(block), delim, saveptr1)
       /\ \A k \in 1..Len(tokens) :
            (pc = "outer" \/ k < Len(tokens)) => Done(block, tokens[k], subdelim)
  /\ pc = "inner" =>
       /\ tokens # <<>>
       /\ InnerAt(block, mem, tokens[Len(tokens)], subdelim, saveptr1, saveptr2)
  /\ pc = "empty" =>
       /\ str_shd \in 1..(Len(block) + 1) /\ Untouched(block, mem, str_shd, Len(block))
       /\ Joined(block, WordsOf(tokens), delim, str_shd)
       /\ str_shd > 1 => block[str_shd - 1] \in delim
  /\ pc = "end" =>
       \/ /\ str_shd = 1
          /\ CutTo(block, WordsOf(tokens), 1, Len(block), delim, Len(block) + 1)
          /\ \A k \in 1..Len(tokens) : Done(block, tokens[k], subdelim)
       \/ /\ str_shd = 0 /\ tokens # <<>>
          /\ Joined(block, WordsOf(tokens), delim, Len(block) + 2)

TokenType == [word : PieceType, subs : Seq(PieceType)]

LEMMA WordsAre ==
  ASSUME NEW ts \in Seq(TokenType)
  PROVE  /\ WordsOf(ts) \in Seq(PieceType) /\ Len(WordsOf(ts)) = Len(ts)
         /\ \A k \in 1..Len(ts) : WordsOf(ts)[k] = ts[k].word
<1>1. Len(ts) \in Nat /\ \A k \in 1..Len(ts) : ts[k].word \in PieceType
  <2>1. \A k \in 1..Len(ts) : ts[k] \in TokenType
    OBVIOUS
  <2>2. \A t \in TokenType : t.word \in PieceType
    BY DEF TokenType
  <2> QED
    BY <2>1, <2>2
<1>2. WordsOf(ts) \in [1..Len(ts) -> PieceType]
  BY <1>1 DEF WordsOf
<1> DEFINE w == WordsOf(ts)
<1>3. \A k \in 1..Len(ts) : w[k] = ts[k].word
  BY DEF WordsOf
<1> HIDE DEF w
<1>4. w \in Seq(PieceType) /\ Len(w) = Len(ts)
  BY <1>1, <1>2 DEF w
<1> QED
  BY <1>3, <1>4 DEF w

LEMMA WordsAppend ==
  ASSUME NEW ts \in Seq(TokenType), NEW t \in TokenType
  PROVE  WordsOf(Append(ts, t)) = Append(WordsOf(ts), t.word)
<1> DEFINE u == Append(ts, t)
           v == WordsOf(u)
           w == WordsOf(ts)
           x == Append(w, t.word)
           n == Len(ts)
<1>1. /\ u \in Seq(TokenType) /\ Len(u) = n + 1 /\ u[n + 1] = t /\ \A k \in 1..n : u[k] = ts[k]
      /\ n \in Nat
  BY AppendProperties
<1>2. t.word \in PieceType
  BY DEF TokenType
<1>3. w \in Seq(PieceType) /\ Len(w) = n /\ \A k \in 1..n : w[k] = ts[k].word
  BY WordsAre
<1> HIDE DEF u, w, n
<1>4. v \in Seq(PieceType) /\ Len(v) = n + 1 /\ \A k \in 1..(n + 1) : v[k] = u[k].word
  BY <1>1, WordsAre
<1>5. /\ x \in Seq(PieceType) /\ Len(x) = n + 1 /\ x[n + 1] = t.word
      /\ \A k \in 1..n : x[k] = w[k]
  BY <1>2, <1>3, AppendProperties
<1> HIDE DEF v, x
<1>6. \A k \in 1..(n + 1) : v[k] = x[k]
  <2> TAKE k \in 1..(n + 1)
  <2>1. k \in 1..n \/ k = n + 1
    BY <1>1
  <2> QED
    BY <1>1, <1>3, <1>4, <1>5, <2>1
<1>7. v = x
  BY <1>4, <1>5, <1>6, SeqEqual
<1> QED
  BY <1>7 DEF v, x, u, w

\* The piece from a to b, which may be empty.
LEMMA PieceIs ==
  ASSUME SplitTypeOK, NEW a \in Nat, NEW b \in Nat, a >= 1, a <= b + 1, b <= Len(block),
         Untouched(block, mem, a, b)
  PROVE  /\ Piece(a, b + 1) = [at |-> a, text |-> SubSeq(block, a, b)]
         /\ Piece(a, b + 1) \in PieceType
         /\ Piece(a, b + 1).at = a /\ LastOf(Piece(a, b + 1)) = b
<1> DEFINE u == SubSeq(mem, a, b)
           v == SubSeq(block, a, b)
           len == IF a <= b THEN b - a + 1 ELSE 0
           X == SplitChar \cup {NUL}
<1>0. mem \in Seq(X) /\ block \in Seq(SplitChar) /\ Len(mem) = Len(block) + 1 /\ Len(block) \in Nat
  BY DEF SplitTypeOK
<1>1. u \in Seq(X) /\ Len(u) = len /\ \A i \in 1..(b - a + 1) : u[i] = mem[a + i - 1]
  <2>1. \A i \in a..b : i \in 1..Len(mem)
    BY <1>0
  <2>2. \A i \in a..b : mem[i] \in X
    <3> HIDE DEF X
    <3> QED
      BY <1>0, <2>1
  <2> HIDE DEF X
  <2> QED
    BY <2>2, SubSeqProperties
<1>2. v \in Seq(X) /\ Len(v) = len /\ \A i \in 1..(b - a + 1) : v[i] = block[a + i - 1]
  <2>1. \A i \in a..b : i \in 1..Len(block)
    BY <1>0
  <2>2. \A i \in a..b : block[i] \in X
    BY <1>0, <2>1
  <2> HIDE DEF X
  <2> QED
    BY <2>2, SubSeqProperties
<1>3. len = b - a + 1 /\ len \in Nat
  OBVIOUS
<1> HIDE DEF u, v, len, X
<1>4. \A i \in 1..len : u[i] = v[i]
  <2>1. \A i \in 1..len : a + i - 1 \in a..b
    BY <1>3
  <2> QED
    BY <1>1, <1>2, <1>3, <2>1 DEF Untouched
<1>5. u = v
  BY <1>1, <1>2, <1>4, SeqEqual
<1>6. Piece(a, b + 1) = [at |-> a, text |-> u]
  <2>1. (b + 1) - 1 = b
    OBVIOUS
  <2> QED
    BY <2>1 DEF Piece, u
<1>7. Piece(a, b + 1).at = a /\ Piece(a, b + 1).text = u
  BY <1>6
<1>8. LastOf(Piece(a, b + 1)) = b
  <2>1. LastOf(Piece(a, b + 1)) = a + len - 1
    BY <1>1, <1>7 DEF LastOf
  <2> QED
    BY <1>3, <2>1
<1>9. Piece(a, b + 1) \in PieceType
  BY <1>1, <1>6 DEF PieceType, X
<1> QED
  BY <1>5, <1>6, <1>7, <1>8, <1>9 DEF v

LEMMA CutAppend ==
  ASSUME NEW B, NEW w \in Seq(PieceType), NEW first \in Nat, NEW last \in Nat, NEW chars, NEW p \in Nat,
         CutTo(B, w, first, last, chars, p),
         NEW x \in PieceType, NEW s, LastOf(x) \in Nat, x.text = SubSeq(B, x.at, LastOf(x)),
         <<x.at, LastOf(x)>> \in RunsOf(B, first, last, chars), p <= x.at,
         \A q \in RunsOf(B, first, last, chars) :
           q[2] < s <=> (q[2] < p \/ q = <<x.at, LastOf(x)>>)
  PROVE  CutTo(B, Append(w, x), first, last, chars, s)
<1> DEFINE v == Append(w, x)
           n == Len(w)
           R == RunsOf(B, first, last, chars)
<1>1. v \in Seq(PieceType) /\ Len(v) = n + 1 /\ v[n + 1] = x /\ (\A k \in 1..n : v[k] = w[k]) /\ n \in Nat
  BY AppendProperties
<1> HIDE DEF v, n
<1>2. /\ \A k \in 1..n : <<w[k].at, LastOf(w[k])>> \in R /\ LastOf(w[k]) < p
      /\ \A q \in R : q[2] < p => \E k \in 1..n : q = <<w[k].at, LastOf(w[k])>>
  BY DEF CutTo, n
<1>3. {<<v[k].at, LastOf(v[k])>> : k \in 1..Len(v)} = {q \in R : q[2] < s}
  <2>1. ASSUME NEW k \in 1..(n + 1) PROVE <<v[k].at, LastOf(v[k])>> \in {q \in R : q[2] < s}
    <3>1. CASE k \in 1..n
      BY <1>1, <1>2, <3>1
    <3>2. CASE k = n + 1
      BY <1>1, <3>2
    <3> QED
      BY <1>1, <3>1, <3>2
  <2>2. ASSUME NEW q \in R, q[2] < s PROVE \E k \in 1..(n + 1) : q = <<v[k].at, LastOf(v[k])>>
    <3>1. CASE q = <<x.at, LastOf(x)>>
      <4>1. n + 1 \in 1..(n + 1)
        BY <1>1
      <4> QED
        BY <1>1, <3>1, <4>1
    <3>2. CASE q[2] < p
      <4>1. PICK k \in 1..n : q = <<w[k].at, LastOf(w[k])>>
        BY <1>2, <3>2
      <4>2. k \in 1..(n + 1)
        BY <1>1
      <4> QED
        BY <1>1, <4>1, <4>2
    <3> QED
      BY <2>2, <3>1, <3>2
  <2> HIDE DEF R
  <2> QED
    BY <1>1, <2>1, <2>2
<1>4. ASSUME NEW j \in 1..Len(v), NEW k \in 1..Len(v), j < k PROVE v[j].at < v[k].at
  <2>1. j \in 1..n
    BY <1>1, <1>4
  <2>2. CASE k \in 1..n
    BY <1>1, <1>4, <2>1, <2>2 DEF CutTo, n
  <2>3. CASE k = n + 1
    <3>1. <<w[j].at, LastOf(w[j])>> \in R /\ LastOf(w[j]) < p
      BY <1>2, <2>1
    <3>2. w[j].at \in first..last /\ LastOf(w[j]) \in first..last /\ w[j].at <= LastOf(w[j])
      BY <3>1 DEF RunsOf
    <3>3. x.at \in Nat
      BY DEF PieceType
    <3> QED
      BY <1>1, <2>1, <2>3, <3>1, <3>2, <3>3
  <2> QED
    BY <1>1, <2>2, <2>3
<1>5. ASSUME NEW k \in 1..Len(v) PROVE v[k].text = SubSeq(B, v[k].at, LastOf(v[k]))
  <2>1. CASE k \in 1..n
    BY <1>1, <2>1 DEF CutTo, n
  <2>2. CASE k = n + 1
    BY <1>1, <2>2
  <2> QED
    BY <1>1, <2>1, <2>2
<1> QED
  BY <1>3, <1>4, <1>5 DEF CutTo, v

LEMMA SplitInvInit == SplitInit => SplitInv
<1> SUFFICES ASSUME SplitInit PROVE SplitInv
  OBVIOUS
<1> DEFINE n == Len(block)
<1>1. /\ mem = Append(block, NUL) /\ delim \subseteq SplitChar /\ subdelim \subseteq SplitChar
      /\ pc \in {"outer", "empty"} /\ saveptr1 = 1 /\ str_shd = 1 /\ tokens = <<>>
  <2>1. PICK c \in Calls : delim = c[1] /\ subdelim = c[2]
    BY DEF SplitInit
  <2>2. c \in (SUBSET SplitChar) \X (SUBSET SplitChar)
    BY SplitAssumption
  <2> QED
    BY <2>1, <2>2 DEF SplitInit
<1>2. block \in Seq(SplitChar) /\ n \in Nat
  <2>1. PICK k \in 0..MaxBlock : block \in [1..k -> SplitChar]
    BY DEF SplitInit
  <2>2. block \in Seq(SplitChar)
    BY <2>1, SplitAssumption
  <2> QED
    BY <2>2
<1>3. /\ mem \in Seq(SplitChar \cup {NUL}) /\ Len(mem) = n + 1 /\ mem[n + 1] = NUL
      /\ \A i \in 1..n : mem[i] = block[i]
  <2>1. block \in Seq(SplitChar \cup {NUL})
    BY <1>2
  <2> QED
    BY <1>1, <2>1, AppendProperties
<1>4. SplitTypeOK
  BY <1>1, <1>2, <1>3 DEF SplitTypeOK
<1> HIDE DEF n
<1>5. WordsOf(tokens) = <<>> /\ Len(<<>>) = 0 /\ Len(tokens) = 0
  <2>1. tokens \in Seq(TokenType)
    BY <1>1
  <2>2. WordsOf(tokens) \in Seq(PieceType) /\ Len(WordsOf(tokens)) = 0
    BY <1>1, <2>1, WordsAre
  <2> QED
    BY <1>1, <2>2
<1>6. AtCut(block, 1, 1, n, delim) /\ Untouched(block, mem, 1, n)
  BY <1>2, <1>3 DEF AtCut, Untouched
<1>7. CutTo(block, <<>>, 1, n, delim, 1)
  <2>1. \A q \in RunsOf(block, 1, n, delim) : ~(q[2] < 1)
    BY <1>2 DEF RunsOf
  <2> QED
    BY <1>5, <2>1 DEF CutTo
<1>8. Joined(block, <<>>, delim, 1)
  BY <1>5 DEF Joined
<1> QED
  BY <1>1, <1>2, <1>3, <1>4, <1>5, <1>6, <1>7, <1>8 DEF SplitInv, Loop, n

Struck(m, s) == [m EXCEPT ![s] = NUL]

LEMMA CutWhole ==
  ASSUME NEW B, NEW w, NEW first \in Nat, NEW last \in Nat, NEW chars, NEW p,
         CutTo(B, w, first, last, chars, p), \A q \in RunsOf(B, first, last, chars) : q[2] < p
  PROVE  CutTo(B, w, first, last, chars, last + 1)
<1>1. \A q \in RunsOf(B, first, last, chars) : q[2] < last + 1
  BY DEF RunsOf
<1>2. {q \in RunsOf(B, first, last, chars) : q[2] < p} =
      {q \in RunsOf(B, first, last, chars) : q[2] < last + 1}
  BY <1>1
<1> QED
  BY <1>2 DEF CutTo

\* A '\0' more in memory.
LEMMA MemCut ==
  ASSUME SplitTypeOK, NEW s \in 1..(Len(block) + 1), NEW m, m = Struck(mem, s)
  PROVE  /\ m \in Seq(SplitChar \cup {NUL}) /\ Len(m) = Len(block) + 1 /\ m[Len(block) + 1] = NUL
         /\ \A i \in 1..(Len(block) + 1) : m[i] = IF i = s THEN NUL ELSE mem[i]
<1> DEFINE X == SplitChar \cup {NUL}
           n == Len(block) + 1
<1>1. mem \in Seq(X) /\ Len(mem) = n /\ n \in Nat /\ NUL \in X /\ mem[n] = NUL /\ n \in 1..n
  BY DEF SplitTypeOK
<1> HIDE DEF X, n
<1>2. m \in Seq(X) /\ Len(m) = n /\ \A i \in 1..n : m[i] = IF i = s THEN NUL ELSE mem[i]
  BY <1>1, ExceptSeq DEF n, Struck
<1> QED
  BY <1>1, <1>2 DEF X, n

\* A loop over first to last goes on where a '\0' is put that lies before p or
\* behind the rest of the loop.
LEMMA LoopKept ==
  ASSUME SplitTypeOK, NEW s \in 1..(Len(block) + 1), NEW m, m = Struck(mem, s),
         NEW w, NEW first \in Nat, NEW last \in Nat, first >= 1, last <= Len(block), NEW chars, NEW p,
         Loop(block, mem, w, first, last, chars, p), s < p \/ last < s
  PROVE  Loop(block, m, w, first, last, chars, p)
<1>1. /\ \A i \in 1..(Len(block) + 1) : m[i] = IF i = s THEN NUL ELSE mem[i]
      /\ Len(block) \in Nat
  BY MemCut DEF SplitTypeOK
<1>2. p \in first..(last + 1)
  BY DEF Loop, AtCut
<1>3. m[last + 1] = NUL
  BY <1>1 DEF Loop
<1>4. Untouched(block, m, p, last)
  <2>1. \A i \in p..last : i \in 1..(Len(block) + 1) /\ i # s
    BY <1>1, <1>2
  <2> QED
    BY <1>1, <2>1 DEF Loop, Untouched
<1> QED
  BY <1>3, <1>4 DEF Loop

\* What a loop has after another turn that finds a run.
LEMMA LoopNext ==
  ASSUME SplitTypeOK, NEW w \in Seq(PieceType), NEW first \in Nat, NEW last \in Nat, first >= 1,
         last <= Len(block), NEW chars, NEW p, Loop(block, mem, w, first, last, chars, p),
         NEW r, Finds(p, first, last, chars, r), r.token # 0,
         NEW m, m = Struck(mem, r.stop)
  PROVE  /\ r.stop \in (first + 1)..(last + 1) /\ r.stop <= r.saveptr
         /\ r.token \in first..(r.stop - 1) /\ p <= r.token /\ Untouched(block, mem, r.token, r.stop - 1)
         /\ Piece(r.token, r.stop) \in PieceType
         /\ Piece(r.token, r.stop).at = r.token /\ LastOf(Piece(r.token, r.stop)) = r.stop - 1
         /\ Loop(block, m, Append(w, Piece(r.token, r.stop)), first, last, chars, r.saveptr)
<1> DEFINE a == r.token
           s == r.saveptr
<1>1. PICK b \in first..last :
        /\ a \in p..b /\ a > 0 /\ r.stop = b + 1
        /\ <<a, b>> \in RunsOf(block, first, last, chars)
        /\ AtCut(block, s, first, last, chars) /\ b < s
        /\ b + 1 < s \/ s = last + 1
        /\ \A q \in RunsOf(block, first, last, chars) : q[2] < s <=> (q[2] < p \/ q = <<a, b>>)
  BY DEF Finds
<1> HIDE DEF a, s
<1>2. /\ p \in Nat /\ p >= first /\ Len(block) \in Nat /\ a \in Nat /\ b \in Nat
      /\ s \in first..(last + 1)
  BY <1>1 DEF Loop, AtCut, SplitTypeOK
<1>3. Untouched(block, mem, a, b)
  <2>1. \A i \in a..b : i \in p..last
    BY <1>1, <1>2
  <2> QED
    BY <2>1 DEF Loop, Untouched
<1> DEFINE x == Piece(a, b + 1)
<1>4. /\ x = [at |-> a, text |-> SubSeq(block, a, b)] /\ x \in PieceType
      /\ x.at = a /\ LastOf(x) = b
  <2>1. a >= 1 /\ a <= b + 1 /\ b <= Len(block)
    BY <1>1, <1>2
  <2> QED
    BY <1>2, <1>3, <2>1, PieceIs
<1>5. x.text = SubSeq(block, a, b)
  BY <1>4
<1> HIDE DEF x
<1>6. CutTo(block, Append(w, x), first, last, chars, s)
  <2>1. p <= x.at /\ p \in Nat
    BY <1>1, <1>2, <1>4
  <2>2. CutTo(block, w, first, last, chars, p)
    BY DEF Loop
  <2> QED
    BY <1>1, <1>2, <1>4, <1>5, <2>1, <2>2, CutAppend
<1>7. b + 1 \in 1..(Len(block) + 1)
  BY <1>1, <1>2
<1>8. \A i \in 1..(Len(block) + 1) : m[i] = IF i = b + 1 THEN NUL ELSE mem[i]
  BY <1>1, <1>7, MemCut
<1>9. m[last + 1] = NUL
  BY <1>2, <1>8 DEF Loop
<1>10. Untouched(block, m, s, last)
  <2>1. \A i \in s..last : i \in 1..(Len(block) + 1) /\ i # b + 1 /\ i \in p..last
    BY <1>1, <1>2
  <2> QED
    BY <1>8, <2>1 DEF Loop, Untouched
<1>11. Loop(block, m, Append(w, x), first, last, chars, s)
  BY <1>1, <1>6, <1>9, <1>10 DEF Loop
<1>12. /\ r.stop \in (first + 1)..(last + 1) /\ r.stop <= s /\ a \in first..(r.stop - 1)
       /\ r.stop - 1 = b /\ p <= a
  BY <1>1, <1>2
<1>13. x = Piece(a, r.stop)
  BY <1>1 DEF x
<1> QED
  BY <1>3, <1>4, <1>11, <1>12, <1>13 DEF a, s

LEMMA OuterStep ==
  ASSUME SplitInv, Outer
  PROVE  SplitInv'
<1> DEFINE n == Len(block)
           r == strtok_r(saveptr1, delim)
           w == WordsOf(tokens)
<1>0. /\ SplitTypeOK /\ pc = "outer" /\ str_shd = 1 /\ block \in Seq(SplitChar) /\ n \in Nat
      /\ delim \subseteq SplitChar /\ tokens \in Seq(TokenType)
      /\ Loop(block, mem, w, 1, n, delim, saveptr1)
      /\ \A k \in 1..Len(tokens) : Done(block, tokens[k], subdelim)
  BY DEF Outer, OuterFrom, SplitInv, SplitTypeOK, TokenType
<1>1. UNCHANGED <<block, delim, subdelim, str_shd>>
  BY DEF Outer, OuterFrom
<1>2. Finds(saveptr1, 1, n, delim, r)
  <2> HIDE DEF n, w, r
  <2>1. AtCut(block, saveptr1, 1, n, delim) /\ Untouched(block, mem, saveptr1, n) /\ mem[n + 1] = NUL
    BY <1>0 DEF Loop
  <2>2. n <= Len(block) /\ 1 \in Nat /\ 1 >= 1
    BY <1>0 DEF n
  <2> QED
    BY <1>0, <2>1, <2>2, StrtokFinds DEF r
<1>3. /\ w \in Seq(PieceType) /\ Len(w) = Len(tokens)
  BY <1>0, WordsAre
<1> HIDE DEF n, w
<1>4. CASE r.token = 0
  <2>1. pc' = "end" /\ UNCHANGED <<mem, saveptr1, saveptr2, tokens>>
    BY <1>4 DEF Outer, OuterFrom
  <2>2. \A q \in RunsOf(block, 1, n, delim) : q[2] < saveptr1
    <3> HIDE DEF r
    <3> QED
      BY <1>2, <1>4 DEF Finds
  <2>3. CutTo(block, w, 1, n, delim, n + 1)
    BY <1>0, <2>2, CutWhole DEF Loop
  <2>4. SplitTypeOK'
    BY <1>0, <1>1, <2>1 DEF SplitTypeOK
  <2> HIDE DEF r
  <2> QED
    BY <1>0, <1>1, <2>1, <2>3, <2>4 DEF SplitInv, w, n
<1>5. CASE r.token # 0
  <2> DEFINE x == Piece(r.token, r.stop)
             t == [word |-> x, subs |-> <<>>]
  <2>1. /\ mem' = Struck(mem, r.stop) /\ saveptr1' = r.saveptr
        /\ tokens' = Append(tokens, t)
        /\ \/ subdelim = {} /\ UNCHANGED <<saveptr2, pc>>
           \/ subdelim # {} /\ saveptr2' = r.token /\ pc' = "inner"
    BY <1>5 DEF Outer, OuterFrom, Struck
  <2> HIDE DEF r
  <2>2. /\ r.stop \in 2..(n + 1) /\ r.stop <= r.saveptr
        /\ r.token \in 1..(r.stop - 1) /\ Untouched(block, mem, r.token, r.stop - 1)
        /\ x \in PieceType /\ x.at = r.token /\ LastOf(x) = r.stop - 1
        /\ Loop(block, mem', Append(w, x), 1, n, delim, r.saveptr)
    <3>1. n <= Len(block) /\ 1 \in Nat /\ 1 >= 1 /\ 1 + 1 = 2
      BY <1>0 DEF n
    <3> DEFINE m == mem'
    <3>2. m = Struck(mem, r.stop)
      BY <2>1
    <3> HIDE DEF m, x, t
    <3>3. /\ r.stop \in (1 + 1)..(n + 1) /\ r.stop <= r.saveptr
          /\ r.token \in 1..(r.stop - 1) /\ Untouched(block, mem, r.token, r.stop - 1)
          /\ Piece(r.token, r.stop) \in PieceType /\ Piece(r.token, r.stop).at = r.token
          /\ LastOf(Piece(r.token, r.stop)) = r.stop - 1
          /\ Loop(block, m, Append(w, Piece(r.token, r.stop)), 1, n, delim, r.saveptr)
      BY <1>0, <1>2, <1>3, <1>5, <3>1, <3>2, LoopNext
    <3> QED
      BY <3>1, <3>3 DEF m, x
  <2>3. /\ mem' \in Seq(SplitChar \cup {NUL}) /\ Len(mem') = n + 1 /\ mem'[n + 1] = NUL
        /\ \A i \in 1..(n + 1) : mem'[i] = IF i = r.stop THEN NUL ELSE mem[i]
    <3> DEFINE m == mem'
    <3>1. r.stop \in 1..(Len(block) + 1)
      BY <1>0, <2>2 DEF n
    <3>2. m = Struck(mem, r.stop)
      BY <2>1
    <3> HIDE DEF m, x, t
    <3>3. /\ m \in Seq(SplitChar \cup {NUL}) /\ Len(m) = n + 1 /\ m[n + 1] = NUL
          /\ \A i \in 1..(n + 1) : m[i] = IF i = r.stop THEN NUL ELSE mem[i]
      BY <1>0, <3>1, <3>2, MemCut DEF n
    <3> QED
      BY <3>3 DEF m
  <2> HIDE DEF x
  <2>4. t \in TokenType /\ t.word = x /\ t.subs = <<>>
    BY <2>2 DEF TokenType
  <2> HIDE DEF t
  <2>5. /\ tokens' \in Seq(TokenType) /\ Len(tokens') = Len(tokens) + 1
        /\ tokens'[Len(tokens) + 1] = t /\ tokens' # <<>>
        /\ \A k \in 1..Len(tokens) : tokens'[k] = tokens[k]
    BY <1>0, <2>1, <2>4, AppendProperties
  <2>6. WordsOf(tokens') = Append(w, x)
    BY <1>0, <2>1, <2>4, WordsAppend DEF w
  <2>7. SplitTypeOK'
    BY <1>0, <1>1, <2>1, <2>3, <2>5 DEF SplitTypeOK, TokenType, n
  <2>8. \A k \in 1..Len(tokens') : k < Len(tokens') => Done(block, tokens'[k], subdelim)
    <3> TAKE k \in 1..Len(tokens')
    <3> HAVE k < Len(tokens')
    <3>1. Len(tokens) \in Nat
      BY <1>0
    <3>2. k \in 1..Len(tokens)
      BY <2>5, <3>1
    <3> QED
      BY <1>0, <2>5, <3>2
  <2>9. CASE subdelim = {}
    <3>1. Done(block, t, subdelim)
      BY <2>4, <2>9 DEF Done
    <3>2. \A k \in 1..Len(tokens') : Done(block, tokens'[k], subdelim)
      <4> TAKE k \in 1..Len(tokens')
      <4>1. Len(tokens) \in Nat
        BY <1>0
      <4>2. k < Len(tokens') \/ k = Len(tokens) + 1
        BY <2>5, <4>1
      <4> QED
        BY <2>5, <2>8, <3>1, <4>2
    <3>3. pc' = pc
      BY <2>1, <2>9
    <3> QED
      BY <1>0, <1>1, <2>1, <2>2, <2>6, <2>7, <3>2, <3>3 DEF SplitInv, n
  <2>10. CASE subdelim # {}
    <3> DEFINE a == r.token
               b == r.stop - 1
    <3>1. saveptr2' = a /\ pc' = "inner"
      BY <2>1, <2>10
    <3>2. a \in 1..n /\ b \in a..n /\ b < r.saveptr /\ a \in Nat /\ b \in Nat /\ r.stop = b + 1
      <4>1. r.saveptr \in 1..(n + 1)
        BY <2>2 DEF Loop, AtCut
      <4> QED
        BY <1>0, <2>2, <4>1
    <3> HIDE DEF a, b
    <3>3. AtCut(block, a, a, b, subdelim)
      BY <3>2 DEF AtCut
    <3>4. Untouched(block, mem', a, b)
      <4>1. \A i \in a..b : i \in 1..(n + 1) /\ i # r.stop
        BY <1>0, <3>2
      <4>2. Untouched(block, mem, a, b)
        BY <2>2 DEF a, b
      <4> QED
        BY <2>3, <4>1, <4>2 DEF Untouched
    <3>5. mem'[b + 1] = NUL
      <4>1. r.stop \in 1..(n + 1)
        BY <1>0, <2>2
      <4> QED
        BY <2>3, <3>2, <4>1
    <3>6. CutTo(block, <<>>, a, b, subdelim, a)
      <4>1. \A q \in RunsOf(block, a, b, subdelim) : ~(q[2] < a)
        BY <3>2 DEF RunsOf
      <4>2. Len(<<>>) = 0
        OBVIOUS
      <4> QED
        BY <4>1, <4>2 DEF CutTo
    <3>7. Loop(block, mem', t.subs, t.word.at, LastOf(t.word), subdelim, a)
      <4>1. t.word.at = a /\ LastOf(t.word) = b
        BY <2>2, <2>4 DEF a, b
      <4> QED
        BY <2>4, <3>3, <3>4, <3>5, <3>6, <4>1 DEF Loop
    <3>8. InnerAt(block, mem', t, subdelim, r.saveptr, a)
      <4>1. t.word.at = a /\ LastOf(t.word) = b
        BY <2>2, <2>4 DEF a, b
      <4> QED
        BY <2>10, <3>2, <3>7, <4>1 DEF InnerAt, n
    <3>9. tokens'[Len(tokens')] = t
      BY <2>5
    <3> QED
      BY <1>0, <1>1, <2>1, <2>2, <2>5, <2>6, <2>7, <2>8, <3>1, <3>8, <3>9 DEF SplitInv, n
  <2> QED
    BY <2>9, <2>10
<1> QED
  BY <1>4, <1>5

LEMMA InnerStep ==
  ASSUME SplitInv, Inner
  PROVE  SplitInv'
<1> DEFINE n == Len(block)
           L == Len(tokens)
           t == tokens[L]
           a == t.word.at
           b == LastOf(t.word)
           r == strtok_r(saveptr2, subdelim)
<1>0. /\ SplitTypeOK /\ pc = "inner" /\ str_shd = 1 /\ block \in Seq(SplitChar) /\ n \in Nat
      /\ subdelim \subseteq SplitChar /\ tokens \in Seq(TokenType) /\ tokens # <<>>
      /\ Loop(block, mem, WordsOf(tokens), 1, n, delim, saveptr1)
      /\ \A k \in 1..L : k < L => Done(block, tokens[k], subdelim)
      /\ InnerAt(block, mem, t, subdelim, saveptr1, saveptr2)
  BY DEF Inner, SplitInv, SplitTypeOK, TokenType
<1>1. UNCHANGED <<block, delim, subdelim, saveptr1, str_shd>> /\ saveptr2' = r.saveptr
  BY DEF Inner
<1>2. L \in Nat /\ L > 0 /\ L \in 1..L /\ t \in TokenType
  <2>1. L \in Nat /\ L > 0
    BY <1>0
  <2> QED
    BY <1>0, <2>1
<1>3. /\ subdelim # {} /\ a \in 1..n /\ b \in a..n /\ b < saveptr1
      /\ Loop(block, mem, t.subs, a, b, subdelim, saveptr2)
  BY <1>0 DEF InnerAt
<1>4. t.word \in PieceType /\ t.subs \in Seq(PieceType)
  <2> HIDE DEF t
  <2> QED
    BY <1>2 DEF TokenType
<1>5. Finds(saveptr2, a, b, subdelim, r)
  <2> HIDE DEF n, a, b, r, t
  <2>1. /\ AtCut(block, saveptr2, a, b, subdelim) /\ Untouched(block, mem, saveptr2, b)
        /\ mem[b + 1] = NUL
    BY <1>3 DEF Loop
  <2>2. a \in Nat /\ a >= 1 /\ b \in Nat /\ b <= Len(block)
    BY <1>0, <1>3 DEF n
  <2> QED
    BY <1>0, <2>1, <2>2, StrtokFinds DEF r
<1>6. CASE r.token = 0
  <2>1. pc' = "outer" /\ UNCHANGED <<mem, tokens>>
    BY <1>6 DEF Inner
  <2> HIDE DEF n, L, t, a, b, r
  <2>2. \A q \in RunsOf(block, a, b, subdelim) : q[2] < saveptr2
    BY <1>5, <1>6 DEF Finds
  <2>3. CutTo(block, t.subs, a, b, subdelim, b + 1)
    <3>1. a \in Nat /\ b \in Nat
      BY <1>0, <1>3
    <3> QED
      BY <1>3, <2>2, <3>1, CutWhole DEF Loop
  <2>4. Done(block, t, subdelim)
    BY <1>3, <2>3 DEF Done, a, b
  <2>5. \A k \in 1..L : Done(block, tokens[k], subdelim)
    <3> TAKE k \in 1..L
    <3>1. k < L \/ k = L
      BY <1>2
    <3> QED
      BY <1>0, <2>4, <3>1 DEF t
  <2>6. SplitTypeOK'
    BY <1>0, <1>1, <2>1 DEF SplitTypeOK
  <2> QED
    BY <1>0, <1>1, <2>1, <2>5, <2>6 DEF SplitInv, n, L
<1>7. CASE r.token # 0
  <2> DEFINE x == Piece(r.token, r.stop)
             v == Append(t.subs, x)
             u == [t EXCEPT !.subs = v]
             m == mem'
             ts == tokens'
  <2>1. m = Struck(mem, r.stop) /\ ts = [tokens EXCEPT ![L] = u] /\ pc' = pc
    BY <1>7 DEF Inner, Struck
  <2> HIDE DEF n, L, t, a, b, r, x, m, ts
  <2>2. /\ r.stop \in (a + 1)..(b + 1) /\ x \in PieceType
        /\ Loop(block, m, Append(t.subs, x), a, b, subdelim, r.saveptr)
    <3>1. a \in Nat /\ a >= 1 /\ b \in Nat /\ b <= Len(block)
      BY <1>0, <1>3 DEF n
    <3> QED
      BY <1>0, <1>3, <1>4, <1>5, <1>7, <2>1, <3>1, LoopNext DEF x
  <2>3. r.stop \in 1..(n + 1)
    BY <1>0, <1>3, <2>2
  <2>4. /\ m \in Seq(SplitChar \cup {NUL}) /\ Len(m) = n + 1 /\ m[n + 1] = NUL
    <3>1. r.stop \in 1..(Len(block) + 1)
      BY <2>3 DEF n
    <3> QED
      BY <1>0, <2>1, <3>1, MemCut DEF n
  <2>5. u \in TokenType /\ u.word = t.word /\ u.subs = Append(t.subs, x)
    <3>1. v \in Seq(PieceType)
      BY <1>4, <2>2, AppendProperties
    <3> HIDE DEF v
    <3>2. u \in TokenType /\ u.word = t.word /\ u.subs = v
      BY <1>2, <3>1 DEF TokenType
    <3> QED
      BY <3>2 DEF v
  <2> HIDE DEF u
  <2>6. /\ ts \in Seq(TokenType) /\ Len(ts) = L /\ ts[L] = u
        /\ \A k \in 1..L : k < L => ts[k] = tokens[k]
    <3>1. ts \in Seq(TokenType) /\ Len(ts) = Len(tokens) /\ \A k \in 1..L : ts[k] = IF k = L THEN u ELSE tokens[k]
      BY <1>0, <1>2, <2>1, <2>5, ExceptSeq DEF L
    <3> QED
      BY <1>2, <3>1 DEF L
  <2>7. WordsOf(ts) = WordsOf(tokens)
    <3>1. /\ WordsOf(ts) \in Seq(PieceType) /\ Len(WordsOf(ts)) = L
          /\ \A k \in 1..L : WordsOf(ts)[k] = ts[k].word
      BY <2>6, WordsAre
    <3>2. /\ WordsOf(tokens) \in Seq(PieceType) /\ Len(WordsOf(tokens)) = L
          /\ \A k \in 1..L : WordsOf(tokens)[k] = tokens[k].word
      BY <1>0, WordsAre DEF L
    <3>3. \A k \in 1..L : ts[k].word = tokens[k].word
      <4> TAKE k \in 1..L
      <4>1. k < L \/ k = L
        BY <1>2
      <4> QED
        BY <2>5, <2>6, <4>1 DEF t
    <3> QED
      BY <3>1, <3>2, <3>3, SeqEqual
  <2>8. Loop(block, m, WordsOf(tokens), 1, n, delim, saveptr1)
    <3>1. r.stop < saveptr1 \/ n < r.stop
      <4>1. saveptr1 \in 1..(n + 1)
        BY <1>0 DEF Loop, AtCut
      <4>2. saveptr1 # b + 1 \/ n < saveptr1
        <5> SUFFICES ASSUME saveptr1 = b + 1, ~(n < saveptr1) PROVE FALSE
          OBVIOUS
        <5>1. saveptr1 \in saveptr1..n /\ saveptr1 \in 1..n
          BY <1>0, <4>1
        <5>2. mem[saveptr1] = block[saveptr1] /\ mem[saveptr1] = NUL
          BY <1>0, <1>3, <5>1 DEF Loop, Untouched
        <5>3. block[saveptr1] \in SplitChar
          BY <1>0, <5>1 DEF n
        <5> QED
          BY <5>2, <5>3, SplitAssumption
      <4> QED
        BY <1>0, <1>3, <2>2, <4>1, <4>2
    <3>2. 1 \in Nat /\ 1 >= 1 /\ n <= Len(block) /\ r.stop \in 1..(Len(block) + 1)
      BY <1>0, <2>3 DEF n
    <3> QED
      BY <1>0, <2>1, <3>1, <3>2, LoopKept
  <2>9. SplitTypeOK'
    BY <1>0, <1>1, <2>1, <2>4, <2>6 DEF SplitTypeOK, TokenType, m, ts, n
  <2>10. InnerAt(block, m, u, subdelim, saveptr1, r.saveptr)
    BY <1>3, <2>2, <2>5 DEF InnerAt, a, b, n
  <2>11. \A k \in 1..L : k < L => Done(block, ts[k], subdelim)
    BY <1>0, <2>6
  <2>12. ts # <<>>
    BY <1>2, <2>6
  <2> QED
    BY <1>0, <1>1, <2>1, <2>6, <2>7, <2>8, <2>9, <2>10, <2>11, <2>12 DEF SplitInv, m, ts, n
<1> QED
  BY <1>6, <1>7

LEMMA EmptyStep ==
  ASSUME SplitInv, split_with_empty
  PROVE  SplitInv'
<1> DEFINE n == Len(block)
           p == str_shd
           w == WordsOf(tokens)
           stop == Stop(str_shd, delim)
           b == stop - 1
           x == Piece(str_shd, stop)
           t == [word |-> x, subs |-> <<>>]
           m == mem'
           ts == tokens'
<1>0. /\ SplitTypeOK /\ pc = "empty" /\ block \in Seq(SplitChar) /\ n \in Nat
      /\ delim \subseteq SplitChar /\ tokens \in Seq(TokenType)
      /\ Len(mem) = n + 1 /\ mem[n + 1] = NUL
      /\ p \in 1..(n + 1) /\ Untouched(block, mem, p, n)
      /\ Joined(block, w, delim, p) /\ (p > 1 => block[p - 1] \in delim)
  BY DEF split_with_empty, SplitInv, SplitTypeOK, TokenType
<1>1. /\ UNCHANGED <<block, delim, subdelim, saveptr1, saveptr2>>
      /\ ts = Append(tokens, t) /\ m = Struck(mem, stop)
      /\ \/ mem[stop] = NUL /\ str_shd' = 0 /\ pc' = "end"
         \/ mem[stop] # NUL /\ str_shd' = stop + 1 /\ UNCHANGED pc
  BY DEF split_with_empty, Struck
<1> HIDE DEF m, ts
<1>2. /\ stop \in p..(n + 1) /\ mem[stop] \in delim \cup {NUL}
      /\ \A i \in p..(stop - 1) : mem[i] \notin delim \cup {NUL}
  <2> DEFINE S == {i \in p..Len(mem) : mem[i] \in delim \cup {NUL}}
             k == Len(mem)
  <2>1. S \subseteq p..k /\ n + 1 \in S /\ p \in Nat /\ k \in Nat /\ k = n + 1
    BY <1>0
  <2>2. stop \in S /\ \A i \in p..(stop - 1) : i \notin S
    <3>1. stop = First(S, k) /\ S # {}
      BY <2>1 DEF Stop
    <3> HIDE DEF S, n, stop, p, k
    <3> QED
      BY <2>1, <3>1, FirstIs
  <2> HIDE DEF stop, n, p
  <2>3. \A i \in p..(stop - 1) : i \in p..Len(mem)
    BY <2>1, <2>2
  <2> QED
    BY <2>1, <2>2, <2>3
<1> HIDE DEF stop, n, p
<1>3. /\ b \in Nat /\ p \in Nat /\ p >= 1 /\ p <= b + 1 /\ b <= n /\ stop = b + 1
  BY <1>0, <1>2
<1> HIDE DEF b
<1>4. Untouched(block, mem, p, b)
  <2>1. \A i \in p..b : i \in p..n
    BY <1>0, <1>3
  <2> QED
    BY <1>0, <2>1 DEF Untouched
<1>5. x = [at |-> p, text |-> SubSeq(block, p, b)] /\ x \in PieceType /\ x.at = p /\ LastOf(x) = b
  <2>1. Piece(str_shd, stop) = Piece(p, b + 1)
    BY <1>3 DEF p
  <2> HIDE DEF x
  <2>2. b <= Len(block)
    BY <1>3 DEF n
  <2> QED
    BY <1>0, <1>3, <1>4, <2>1, <2>2, PieceIs DEF x
<1> HIDE DEF x
<1>6. x.text = SubSeq(block, p, b)
  BY <1>5
<1>7. t \in TokenType /\ t.word = x /\ t.subs = <<>>
  BY <1>5 DEF TokenType
<1> HIDE DEF t
<1>8. /\ ts \in Seq(TokenType) /\ ts # <<>>
  BY <1>0, <1>1, <1>7, AppendProperties
<1> DEFINE v == WordsOf(ts)
           L == Len(w)
<1>9. /\ w \in Seq(PieceType) /\ L \in Nat
      /\ Len(v) = L + 1 /\ v[L + 1] = x /\ \A k \in 1..L : v[k] = w[k]
  <2>1. w \in Seq(PieceType)
    BY <1>0, WordsAre
  <2>2. v = Append(w, x)
    BY <1>0, <1>1, <1>7, WordsAppend
  <2> HIDE DEF v, w
  <2> QED
    BY <1>5, <2>1, <2>2, AppendProperties
<1> HIDE DEF v, w
<1>10. w # <<>> => L > 0
  BY <1>9
<1> HIDE DEF L
<1>11. \A i \in p..b : block[i] \notin delim
  <2>1. \A i \in p..b : i \in p..(stop - 1)
    BY <1>3
  <2> QED
    BY <1>2, <1>4, <2>1 DEF Untouched
<1>12. Joined(block, v, delim, b + 2)
  <2>1. v # <<>>
    BY <1>9
  <2>2. v[1].at = 1
    <3>1. CASE L = 0
      <4>1. w = <<>>
        BY <1>10, <3>1
      <4> QED
        BY <1>0, <1>5, <1>9, <3>1, <4>1 DEF Joined
    <3>2. CASE L # 0
      <4>1. w # <<>> /\ 1 \in 1..L
        BY <1>9, <3>2 DEF L
      <4> QED
        BY <1>0, <1>9, <4>1 DEF Joined
    <3> QED
      BY <3>1, <3>2
  <2>3. b + 2 = LastOf(v[Len(v)]) + 2 /\ b + 2 > 1
    BY <1>3, <1>5, <1>9
  <2>4. ASSUME NEW k \in 1..Len(v)
        PROVE  /\ v[k].text = SubSeq(block, v[k].at, LastOf(v[k]))
               /\ \A i \in v[k].at..LastOf(v[k]) : block[i] \notin delim
               /\ k < Len(v) => v[k + 1].at = LastOf(v[k]) + 2 /\ block[LastOf(v[k]) + 1] \in delim
    <3>1. CASE k = L + 1
      BY <1>5, <1>6, <1>9, <1>11, <3>1
    <3>2. CASE k = L /\ L # 0
      <4>0. k \in 1..L /\ w # <<>> /\ v[k] = w[k] /\ v[k + 1] = x /\ Len(w) = L
        BY <1>9, <3>2 DEF L
      <4>1. p = LastOf(w[L]) + 2 /\ p > 1
        BY <1>0, <4>0 DEF Joined
      <4>2. LastOf(w[L]) \in Int
        <5>1. w[L] \in PieceType
          BY <1>9, <3>2, <4>0
        <5>2. w[L].at \in Nat /\ Len(w[L].text) \in Nat
          BY <5>1 DEF PieceType
        <5> QED
          BY <5>2 DEF LastOf
      <4>3. LastOf(w[L]) + 1 = p - 1
        BY <4>1, <4>2
      <4>4. block[LastOf(w[L]) + 1] \in delim
        BY <1>0, <4>1, <4>3
      <4>5. /\ w[k].text = SubSeq(block, w[k].at, LastOf(w[k]))
            /\ \A i \in w[k].at..LastOf(w[k]) : block[i] \notin delim
        BY <1>0, <4>0 DEF Joined
      <4> QED
        BY <1>5, <3>2, <4>0, <4>1, <4>4, <4>5
    <3>3. CASE k \in 1..L /\ k < L
      <4>1. k + 1 \in 1..L /\ v[k] = w[k] /\ v[k + 1] = w[k + 1]
        BY <1>9, <3>3
      <4> QED
        BY <1>0, <3>3, <4>1 DEF Joined, L
    <3> QED
      BY <1>9, <3>1, <3>2, <3>3
  <2> QED
    BY <2>1, <2>2, <2>3, <2>4 DEF Joined
<1>13. /\ m \in Seq(SplitChar \cup {NUL}) /\ Len(m) = n + 1 /\ m[n + 1] = NUL
       /\ \A i \in 1..(n + 1) : m[i] = IF i = stop THEN NUL ELSE mem[i]
  <2>1. stop \in 1..(Len(block) + 1)
    BY <1>0, <1>2 DEF n
  <2>2. SplitTypeOK /\ m = Struck(mem, stop)
    BY <1>0, <1>1
  <2> QED
    BY <2>1, <2>2, MemCut DEF n
<1>14. CASE mem[stop] = NUL
  <2>1. str_shd' = 0 /\ pc' = "end"
    BY <1>1, <1>14
  <2>2. b = n
    <3> SUFFICES ASSUME b # n PROVE FALSE
      OBVIOUS
    <3>1. stop \in p..n /\ stop \in 1..n
      BY <1>0, <1>2, <1>3
    <3>2. mem[stop] = block[stop] /\ block[stop] \in SplitChar
      BY <1>0, <3>1 DEF Untouched, n
    <3> QED
      BY <1>14, <3>2, SplitAssumption
  <2>3. SplitTypeOK'
    BY <1>0, <1>1, <1>8, <1>13, <2>1 DEF SplitTypeOK, TokenType, m, ts, n
  <2>4. tokens' # <<>> /\ Joined(block, WordsOf(tokens'), delim, Len(block) + 2)
    BY <1>8, <1>12, <2>2 DEF v, ts, n
  <2> QED
    BY <1>1, <2>1, <2>3, <2>4 DEF SplitInv
<1>15. CASE mem[stop] # NUL
  <2>1. str_shd' = b + 2 /\ pc' = "empty"
    BY <1>0, <1>1, <1>3, <1>15
  <2>2. stop \in 1..n /\ stop \in p..n /\ b + 2 \in 1..(n + 1)
    <3>1. stop # n + 1
      BY <1>0, <1>15
    <3> QED
      BY <1>0, <1>2, <1>3, <3>1
  <2>3. block[b + 1] \in delim
    BY <1>0, <1>2, <1>3, <1>15, <2>2 DEF Untouched
  <2>4. Untouched(block, m, b + 2, n)
    <3>1. \A i \in (b + 2)..n : i \in p..n /\ i \in 1..(n + 1) /\ i # stop
      BY <1>0, <1>3
    <3> QED
      BY <1>0, <1>13, <3>1 DEF Untouched
  <2>5. SplitTypeOK'
    BY <1>0, <1>1, <1>8, <1>13, <2>1 DEF SplitTypeOK, TokenType, m, ts, n
  <2>6. (b + 2) - 1 = b + 1
    BY <1>3
  <2>7. Joined(block, WordsOf(tokens'), delim, str_shd')
    BY <1>12, <2>1 DEF v, ts
  <2>8. str_shd' \in 1..(Len(block) + 1) /\ Untouched(block, mem', str_shd', Len(block))
    BY <2>1, <2>2, <2>4 DEF m, n
  <2>9. block[str_shd' - 1] \in delim
    BY <2>1, <2>3, <2>6
  <2> QED
    BY <1>1, <2>1, <2>5, <2>7, <2>8, <2>9 DEF SplitInv
<1> QED
  BY <1>14, <1>15

LEMMA SplitInvStep == SplitInv /\ [SplitNext]_stVars => SplitInv'
<1> SUFFICES ASSUME SplitInv, [SplitNext]_stVars PROVE SplitInv'
  OBVIOUS
<1>1. CASE UNCHANGED stVars
  BY <1>1 DEF SplitInv, SplitTypeOK, stVars
<1>2. CASE Outer
  BY <1>2, OuterStep
<1>3. CASE Inner
  BY <1>3, InnerStep
<1>4. CASE split_with_empty
  BY <1>4, EmptyStep
<1> QED
  BY <1>1, <1>2, <1>3, <1>4 DEF SplitNext, split

LEMMA CutIs ==
  ASSUME NEW w, NEW first \in Nat, NEW last \in Nat, NEW chars,
         CutTo(block, w, first, last, chars, last + 1)
  PROVE  Cut(w, first, last, chars)
<1>1. RunsOf(block, first, last, chars) = Runs(first, last, chars)
  BY DEF RunsOf, Runs
<1>2. \A q \in RunsOf(block, first, last, chars) : q[2] < last + 1
  BY DEF RunsOf
<1>3. {q \in RunsOf(block, first, last, chars) : q[2] < last + 1} = Runs(first, last, chars)
  BY <1>1, <1>2
<1> QED
  BY <1>3 DEF CutTo, Cut

LEMMA SplitInvSplits == SplitInv => Splits
<1> SUFFICES ASSUME SplitInv PROVE Splits
  OBVIOUS
<1> DEFINE n == Len(block)
<1>0. SplitTypeOK /\ tokens \in Seq(TokenType) /\ n \in Nat
  BY DEF SplitInv, SplitTypeOK, TokenType
<1>1. Words = WordsOf(tokens)
  BY DEF Words, WordsOf
<1>2. /\ Words \in Seq(PieceType) /\ Len(Words) = Len(tokens) /\ Len(tokens) \in Nat
      /\ \A k \in 1..Len(tokens) : Words[k] = tokens[k].word
  BY <1>0, <1>1, WordsAre
<1>3. \A k \in 1..Len(Words) : LastOf(Words[k]) \in Int /\ Words[k].at \in Nat
  <2> TAKE k \in 1..Len(Words)
  <2>1. Words[k] \in PieceType
    BY <1>2
  <2>2. Words[k].at \in Nat /\ Len(Words[k].text) \in Nat
    BY <2>1 DEF PieceType
  <2> QED
    BY <2>2 DEF LastOf
<1>4. ASSUME pc = "end", str_shd # 0
      PROVE  /\ Cut(Words, 1, Len(block), delim)
             /\ \A k \in 1..Len(tokens) :
                  IF subdelim = {} THEN tokens[k].subs = <<>>
                  ELSE Cut(tokens[k].subs, tokens[k].word.at, LastOf(tokens[k].word), subdelim)
  <2>1. /\ CutTo(block, Words, 1, n, delim, n + 1)
        /\ \A k \in 1..Len(tokens) : Done(block, tokens[k], subdelim)
    BY <1>1, <1>4 DEF SplitInv
  <2> HIDE DEF n
  <2>2. Cut(Words, 1, n, delim)
    BY <1>0, <2>1, CutIs
  <2>3. ASSUME NEW k \in 1..Len(tokens), subdelim # {}
        PROVE  Cut(tokens[k].subs, tokens[k].word.at, LastOf(tokens[k].word), subdelim)
    <3> DEFINE a == tokens[k].word.at
               b == LastOf(tokens[k].word)
    <3>1. CutTo(block, tokens[k].subs, a, b, subdelim, b + 1)
      BY <2>1, <2>3 DEF Done
    <3>2. a \in Nat /\ b \in Nat
      <4>1. k \in 1..Len(Words) /\ Words[k] = tokens[k].word
        BY <1>2
      <4>2. <<Words[k].at, LastOf(Words[k])>> \in {<<Words[j].at, LastOf(Words[j])>> : j \in 1..Len(Words)}
        BY <4>1
      <4>3. <<Words[k].at, LastOf(Words[k])>> \in RunsOf(block, 1, n, delim)
        BY <2>1, <4>2 DEF CutTo
      <4>4. Words[k].at \in 1..n /\ LastOf(Words[k]) \in 1..n
        BY <4>3 DEF RunsOf
      <4> QED
        BY <1>0, <4>1, <4>4
    <3> HIDE DEF a, b
    <3>3. Cut(tokens[k].subs, a, b, subdelim)
      BY <3>1, <3>2, CutIs
    <3> QED
      BY <3>3 DEF a, b
  <2>4. ASSUME NEW k \in 1..Len(tokens), subdelim = {} PROVE tokens[k].subs = <<>>
    BY <2>1, <2>4 DEF Done
  <2> QED
    BY <2>2, <2>3, <2>4 DEF n
<1>5. SplitTokens
  BY <1>4 DEF SplitTokens
<1>6. ASSUME str_shd = 0
      PROVE  Words # <<>> /\ Joined(block, Words, delim, n + 2)
  <2>1. pc = "end"
    BY <1>0, <1>6 DEF SplitInv, SplitTypeOK
  <2>2. tokens # <<>> /\ Joined(block, Words, delim, n + 2)
    BY <1>1, <1>6, <2>1 DEF SplitInv
  <2>3. Words # <<>>
    BY <1>0, <1>2, <2>2
  <2> QED
    BY <2>2, <2>3
<1>7. PiecesJoin
  <2> SUFFICES ASSUME str_shd = 0
               PROVE  /\ Words # <<>> /\ Words[1].at = 1 /\ LastOf(Words[Len(Words)]) = n
                      /\ \A k \in 1..Len(Words) :
                           /\ Words[k].text = SubSeq(block, Words[k].at, LastOf(Words[k]))
                           /\ \A i \in Words[k].at..LastOf(Words[k]) : block[i] \notin delim
                           /\ k < Len(Words) =>
                                /\ Words[k + 1].at = LastOf(Words[k]) + 2
                                /\ block[LastOf(Words[k]) + 1] \in delim
    BY DEF PiecesJoin
  <2>1. Words # <<>> /\ Joined(block, Words, delim, n + 2)
    BY <1>6
  <2>2. LastOf(Words[Len(Words)]) = n
    <3>1. n + 2 = LastOf(Words[Len(Words)]) + 2
      BY <2>1 DEF Joined
    <3>2. Len(Words) \in 1..Len(Words)
      BY <1>2, <2>1
    <3> DEFINE z == LastOf(Words[Len(Words)])
    <3>3. z \in Int /\ n + 2 = z + 2
      BY <1>3, <3>1, <3>2
    <3> HIDE DEF z, n
    <3>4. z = n
      BY <1>0, <3>3
    <3> QED
      BY <3>4 DEF z
  <2> QED
    BY <2>1, <2>2 DEF Joined
<1> QED
  BY <1>5, <1>7 DEF Splits

\* For every string and whatever lies behind its block, the loops of split find the
\* tokens and subtokens, although both write to the same memory, and the pieces of
\* split_with_empty join to the string (007/main.c:39-55, 70-75).
THEOREM SplitsAlways == SplitSpec => []Splits
<1>1. SplitInit => SplitInv
  BY SplitInvInit
<1>2. SplitInv /\ [SplitNext]_stVars => SplitInv'
  BY SplitInvStep
<1>3. SplitInv => Splits
  BY SplitInvSplits
<1> QED
  BY <1>1, <1>2, <1>3, PTL DEF SplitSpec
=============================================================================
