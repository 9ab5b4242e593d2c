------------------------------- MODULE PicData -------------------------------
(***************************************************************************)
(* The two functions of 006 that are handed data by a library: read_packet *)
(* of pic_op.c, which libav calls for the next bytes of a picture in       *)
(* memory, and filterpictype of main.c, which scandir calls for each name. *)
(***************************************************************************)
EXTENDS Integers, Sequences, SequencesExt

CONSTANTS
  Byte, Letter,  \* of pictures and of names
  MaxData,  \* bound: the size of a picture
  MaxBuf,   \* bound: the size of a buffer of libav
  MaxName   \* bound: the length of a name

ASSUME PicDataAssumption == MaxData \in Nat /\ MaxBuf \in Nat /\ MaxName \in Nat

VARIABLES
  data,      \* a picture in memory
  bd,        \* what is left of it, the ptr and size of struct buffer_data
  received,  \* what libav has got
  ret,       \* what read_packet has returned last
  d_name     \* the name scandir asks about

pdVars == <<data, bd, received, ret, d_name>>

PdInit ==
  /\ data \in UNION {[1..n -> Byte] : n \in 0..MaxData}
  /\ bd = data /\ received = <<>> /\ ret = 0
  /\ d_name = <<>>

-----------------------------------------------------------------------------
(* read_packet                                                             *)

AVERROR_EOF == -1

\* A call with a buffer of buf_size bytes.
read_packet(buf_size) ==
  LET n == IF buf_size > Len(bd) THEN Len(bd) ELSE buf_size IN
  /\ \/ n = 0 /\ ret' = AVERROR_EOF /\ UNCHANGED <<bd, received>>
     \/ /\ n > 0 /\ ret' = n
        /\ received' = received \o SubSeq(bd, 1, n)
        /\ bd' = SubSeq(bd, n + 1, Len(bd))
  /\ UNCHANGED <<data, d_name>>

-----------------------------------------------------------------------------
(* filterpictype                                                           *)

Jpg == <<".", "j", "p", "g">>
Jpeg == <<".", "j", "p", "e", "g">>

\* strncmp with what begins Len(s) characters before the end of the name; that
\* may be before the name, where the rest of the entry is.
EndsWith(before, s) ==
  LET memory == before \o d_name
  IN  SubSeq(memory, Len(memory) - Len(s) + 1, Len(memory)) = s

\* Mutant: one distance from the end for both suffixes.
FilterFour(before) ==
  LET memory == before \o d_name
  IN  IF SubSeq(memory, Len(memory) - 3, Len(memory)) \in {Jpg, Jpeg} THEN 1 ELSE 0

filterpictype(before) ==
  IF EndsWith(before, Jpg) \/ EndsWith(before, Jpeg) THEN 1 ELSE 0

\* Another name, one character longer.
NextName ==
  /\ Len(d_name) < MaxName /\ \E c \in Letter : d_name' = Append(d_name, c)
  /\ UNCHANGED <<data, bd, received, ret>>

\* A call of libav (external).
Reads == \E buf_size \in 1..MaxBuf : read_packet(buf_size)

PdNext == NextName \/ Reads

PdSpec == PdInit /\ [][PdNext]_pdVars

-----------------------------------------------------------------------------
(* Properties                                                              *)

\* libav receives the data once and in order, whatever the sizes of its buffers,
\* and the end of the file exactly when it asks for more (pic_op.c:36, 43).
ReceivesData ==
  /\ received \o bd = data
  /\ ret = AVERROR_EOF => received = data
  /\ ret # AVERROR_EOF /\ received # <<>> => ret \in 1..Len(received)

\* In a struct dirent the type stands just before the name, which is never the
\* code of a letter or a dot; before it are a length and an offset, any bytes.
Befores == {<<a, b, c, "type">> : a, b, c \in Letter}

\* A name is let through exactly if it ends in one of the suffixes, those too
\* that are shorter than a suffix, for which len - 4 and len - 5 (main.c:17) lie
\* before the name.
FiltersPictures ==
  d_name # <<>> =>
    \A before \in Befores :
      filterpictype(before) = 1 <=> IsSuffix(Jpg, d_name) \/ IsSuffix(Jpeg, d_name)

PicturesRead == ReceivesData /\ FiltersPictures
=============================================================================
