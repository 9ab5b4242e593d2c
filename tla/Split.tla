-------------------------------- MODULE Split --------------------------------
(***************************************************************************)
(* split and split_with_empty of 007/main.c.  Both copy a string without   *)
(* its '\0' into a block of exactly its length (lines 32, 64), so that     *)
(* strtok_r and strsep read on into what lies behind the block, up to the  *)
(* first '\0' in memory: "block" is all of that.  Positions count from 1,  *)
(* 0 is NULL.                                                              *)
(***************************************************************************)
EXTENDS Integers, Sequences

CONSTANTS
  SplitChar,  \* characters
  NUL,        \* '\0'
  Calls,      \* the delimiters and subdelimiters split is called with; {}: NULL
  MaxBlock    \* bound: characters before the first '\0'

ASSUME SplitAssumption ==
  /\ NUL \notin SplitChar /\ MaxBlock \in Nat
  /\ Calls \subseteq (SUBSET SplitChar) \X (SUBSET SplitChar)

VARIABLES
  block,     \* the characters before the call
  delim, subdelim,
  mem,       \* the characters now, and the '\0'
  saveptr1, saveptr2,
  str_shd,   \* of split_with_empty
  tokens,    \* what has been printed, with its places; subtokens with their token
  pc         \* the loop that runs: "outer", "inner", "empty", or "end"

stVars == <<block, delim, subdelim, mem, saveptr1, saveptr2, str_shd, tokens, pc>>

SplitInit ==
  /\ block \in UNION {[1..n -> SplitChar] : n \in 0..MaxBlock}
  /\ mem = Append(block, NUL)
  /\ \E c \in Calls : delim = c[1] /\ subdelim = c[2]
  /\ pc \in {"outer", "empty"}
  /\ saveptr1 = 1 /\ saveptr2 = 0 /\ str_shd = 1 /\ tokens = <<>>

\* The least element of a set of numbers, or n if there is none.
First(S, n) == IF S = {} THEN n ELSE CHOOSE i \in S : \A j \in S : i <= j

\* The next character from p on that is a delimiter or '\0'.
Stop(p, chars) == First({i \in p..Len(mem) : mem[i] \in chars \cup {NUL}}, Len(mem))

\* strtok_r: what it returns, where the token stops, and *saveptr; the character
\* there becomes a '\0'.
strtok_r(p, chars) ==
  LET start == First({i \in p..Len(mem) : mem[i] \notin chars}, Len(mem))
      stop == Stop(start, chars)
  IN  [token |-> IF mem[start] = NUL THEN 0 ELSE start, stop |-> stop,
       saveptr |-> IF mem[stop] = NUL THEN stop ELSE stop + 1]

Piece(first, stop) == [at |-> first, text |-> SubSeq(mem, first, stop - 1)]

\* A turn of the outer loop of split, which goes on at p.
OuterFrom(p) ==
  /\ pc = "outer"
  /\ LET r == strtok_r(p, delim) IN
     \/ r.token = 0 /\ pc' = "end" /\ UNCHANGED <<mem, saveptr1, saveptr2, tokens>>
     \/ /\ r.token # 0
        /\ mem' = [mem EXCEPT ![r.stop] = NUL] /\ saveptr1' = r.saveptr
        /\ tokens' = Append(tokens, [word |-> Piece(r.token, r.stop), subs |-> <<>>])
        /\ \/ subdelim = {} /\ UNCHANGED <<saveptr2, pc>>
           \/ subdelim # {} /\ saveptr2' = r.token /\ pc' = "inner"
  /\ UNCHANGED <<block, delim, subdelim, str_shd>>

\* Mutant: both loops have one saveptr, as with strtok.
OuterShared == OuterFrom(IF saveptr2 = 0 THEN saveptr1 ELSE saveptr2)

Outer == OuterFrom(saveptr1)

\* A turn of the inner loop of split.
Inner ==
  /\ pc = "inner"
  /\ LET r == strtok_r(saveptr2, subdelim) IN
     /\ saveptr2' = r.saveptr
     /\ \/ r.token = 0 /\ pc' = "outer" /\ UNCHANGED <<mem, tokens>>
        \/ /\ r.token # 0
           /\ mem' = [mem EXCEPT ![r.stop] = NUL]
           /\ tokens' = [tokens EXCEPT ![Len(tokens)].subs = Append(@, Piece(r.token, r.stop))]
           /\ UNCHANGED pc
  /\ UNCHANGED <<block, delim, subdelim, saveptr1, str_shd>>

split == Outer \/ Inner

\* A turn of the loop of split_with_empty: strsep returns what precedes the next
\* delimiter and sets str_shd to NULL after the last piece.
split_with_empty ==
  /\ pc = "empty"
  /\ LET stop == Stop(str_shd, delim) IN
     /\ tokens' = Append(tokens, [word |-> Piece(str_shd, stop), subs |-> <<>>])
     /\ mem' = [mem EXCEPT ![stop] = NUL]
     /\ \/ mem[stop] = NUL /\ str_shd' = 0 /\ pc' = "end"
        \/ mem[stop] # NUL /\ str_shd' = stop + 1 /\ UNCHANGED pc
  /\ UNCHANGED <<block, delim, subdelim, saveptr1, saveptr2>>

SplitNext == split \/ split_with_empty

SplitSpec == SplitInit /\ [][SplitNext]_stVars

-----------------------------------------------------------------------------
(* What is expected of them                                                *)

\* The longest parts of block from first to last without a character of chars.
Runs(first, last, chars) ==
  {p \in (first..last) \X (first..last) :
     /\ p[1] <= p[2] /\ \A i \in p[1]..p[2] : block[i] \notin chars
     /\ p[1] = first \/ block[p[1] - 1] \in chars
     /\ p[2] = last \/ block[p[2] + 1] \in chars}

LastOf(w) == w.at + Len(w.text) - 1

\* w, a sequence of pieces, are the runs, in order, with what block has there.
Cut(w, first, last, chars) ==
  /\ {<<w[k].at, LastOf(w[k])>> : k \in 1..Len(w)} = Runs(first, last, chars)
  /\ \A j, k \in 1..Len(w) : j < k => w[j].at < w[k].at
  /\ \A k \in 1..Len(w) : w[k].text = SubSeq(block, w[k].at, LastOf(w[k]))

Words == [k \in 1..Len(tokens) |-> tokens[k].word]

\* The tokens of split are the runs between delimiters and its subtokens the runs
\* within each of them, although both loops cut the same memory and one call of
\* strtok_r comes between two of the other loop.  The string that is split goes
\* on with what lies behind the block (main.c:32 leaves no room for a '\0').
SplitTokens ==
  pc = "end" /\ str_shd # 0 =>
    /\ Cut(Words, 1, Len(block), delim)
    /\ \A k \in 1..Len(tokens) :
         LET t == tokens[k] IN
         IF subdelim = {} THEN t.subs = <<>>
         ELSE Cut(t.subs, t.word.at, LastOf(t.word), subdelim)

\* The pieces of split_with_empty, with one delimiter between two of them, are the
\* string, and none of them contains one: empty pieces are there ("strsep可处理空",
\* README.md: strsep handles empty ones).
PiecesJoin ==
  str_shd = 0 =>
    /\ Words # <<>> /\ Words[1].at = 1 /\ LastOf(Words[Len(Words)]) = Len(block)
    /\ \A k \in 1..Len(Words) :
         /\ Words[k].text = SubSeq(block, Words[k].at, LastOf(Words[k]))
         /\ \A i \in Words[k].at..LastOf(Words[k]) : block[i] \notin delim
         /\ k < Len(Words) =>
              /\ Words[k + 1].at = LastOf(Words[k]) + 2
              /\ block[LastOf(Words[k]) + 1] \in delim

Splits == SplitTokens /\ PiecesJoin
=============================================================================
