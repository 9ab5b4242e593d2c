------------------------------- MODULE ReadCfg -------------------------------
(***************************************************************************)
(* read_cfg_file of 001/read_cfg.c: fgets and one sscanf with the format   *)
(* "%[^ #=\t\n]%*[= \t]%[^ #=\t\n]".  A file is a sequence of characters;  *)
(* tabulators, which both sets treat like blanks, are left out.            *)
(***************************************************************************)
EXTENDS Integers, Sequences

CONSTANTS
  MAX_LINE_LEN,  \* the sizes of line, name and value
  CfgChar,  \* the characters of a file
  MaxFile   \* bound: the length of a file

ASSUME CfgAssumption == MAX_LINE_LEN \in Nat /\ MAX_LINE_LEN > 1 /\ MaxFile \in Nat

VARIABLES
  file,    \* what is in the file
  offset,  \* how much of it has been read
  got      \* the pairs that were printed

cfgVars == <<file, offset, got>>

CfgInit ==
  /\ file \in UNION {[1..n -> CfgChar] : n \in 0..MaxFile}
  /\ offset = 0 /\ got = <<>>

NL == "\n"
NotInName == {" ", "#", "=", NL}
Between == {"=", " "}

\* The first position from i on, or the one after s, whose character is not in C.
Past(s, i, C) ==
  LET stop == {j \in i..Len(s) : s[j] \notin C}
  IN  IF stop = {} THEN Len(s) + 1 ELSE CHOOSE j \in stop : \A k \in stop : j <= k

\* What sscanf stores when it returns 2, with the place of the name in the file;
\* nothing when the line is skipped.
sscanf(line) ==
  LET a == Past(line, 1, CfgChar \ NotInName)
      b == Past(line, a, Between)
      c == Past(line, b, CfgChar \ NotInName)
  IN  IF a > 1 /\ b > a /\ c > b
        THEN <<[name |-> SubSeq(line, 1, a - 1), value |-> SubSeq(line, b, c - 1), at |-> offset]>>
        ELSE <<>>

Smaller(a, b) == IF a < b THEN a ELSE b

\* The next n characters of the file, or fewer, up to a newline.
Line(n) ==
  LET newline == Past(file, offset + 1, CfgChar \ {NL})
  IN  SubSeq(file, offset + 1, Smaller(Smaller(newline, offset + n), Len(file)))

\* Mutant: fgets is given one character less than line has.
FgetsShort == Line(MAX_LINE_LEN - 2)

\* fgets: what fits in line with a '\0'.
fgets == Line(MAX_LINE_LEN - 1)

\* One turn of the loop of read_cfg_file.
read_cfg_file ==
  /\ offset < Len(file)
  /\ got' = got \o sscanf(fgets)
  /\ offset' = offset + Len(fgets)
  /\ UNCHANGED file

CfgNext == read_cfg_file

CfgSpec == CfgInit /\ [][CfgNext]_cfgVars

-----------------------------------------------------------------------------
(* The format of 001/README.md                                             *)

\* The lines of a file as <<first, last>>, without their newlines.
Lines(text) ==
  {l \in (1..Len(text)) \X (0..Len(text)) :
     /\ l[1] <= l[2]
     /\ l[1] = 1 \/ text[l[1] - 1] = NL
     /\ l[2] = Len(text) \/ text[l[2] + 1] = NL
     /\ \A i \in l[1]..l[2] : text[i] # NL}

Word(s) == s # <<>> /\ \A i \in 1..Len(s) : s[i] \notin NotInName

\* A name at the start of the line, signs, a value, and nothing or one of the
\* characters that end a value: the place where each of the parts ends.
Parts(s) ==
  {p \in (1..Len(s)) \X (1..Len(s)) \X (1..Len(s)) :
     /\ p[1] < p[2] /\ p[2] < p[3]
     /\ Word(SubSeq(s, 1, p[1])) /\ Word(SubSeq(s, p[2] + 1, p[3]))
     /\ \A i \in (p[1] + 1)..p[2] : s[i] \in Between
     /\ p[3] < Len(s) => s[p[3] + 1] \in NotInName}

\* Of the signs exactly one is a "=".
Proper(s, p) == \E i \in (p[1] + 1)..p[2] : \A j \in (p[1] + 1)..p[2] : s[j] = "=" <=> j = i

\* Every line of the file fits in line with its newline.
Fits == \A l \in Lines(file) : l[2] - l[1] + 2 < MAX_LINE_LEN

Got == {got[i] : i \in 1..Len(got)}

Pair(l, p) ==
  [name |-> SubSeq(file, l[1], l[1] + p[1] - 1),
   value |-> SubSeq(file, l[1] + p[2], l[1] + p[3] - 1), at |-> l[1] - 1]

\* A line as the README wants it is read, with the name and the value it gives,
\* wherever blanks and comments stand; the lines the README calls wrong are
\* ignored, but those whose only fault is that they have no "=", or several,
\* between name and value are read as well.
ReadsFormat ==
  Fits =>
    LET pairs(l) == {Pair(l, p) : p \in Parts(SubSeq(file, l[1], l[2]))}
        proper(l) ==
          LET s == SubSeq(file, l[1], l[2]) IN {Pair(l, p) : p \in {q \in Parts(s) : Proper(s, q)}}
    IN  /\ \A l \in Lines(file) : l[2] <= offset => proper(l) \subseteq Got
        /\ Got \subseteq UNION {pairs(l) : l \in Lines(file)}

\* A line that does not fit is read in pieces, each of which is taken for a line
\* (read_cfg.c:35): a name may begin anywhere in a long comment, but only where
\* a piece begins, a multiple of MAX_LINE_LEN - 1 after the start of its line.
PiecesOfLines ==
  \A r \in Got :
    \E i \in 0..r.at :
      /\ i = 0 \/ file[i] = NL
      /\ \A j \in (i + 1)..r.at : file[j] # NL
      /\ (r.at - i) % (MAX_LINE_LEN - 1) = 0

CfgRead == ReadsFormat /\ PiecesOfLines
=============================================================================
