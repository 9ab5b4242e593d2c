--------------------------------- MODULE Dump ---------------------------------
(***************************************************************************)
(* debug_info and dump of 003/curl_builder.cpp: what libcurl tells about a *)
(* transfer, as rows of hexadecimal cells with the characters beside them. *)
(***************************************************************************)
EXTENDS Integers, Sequences

CONSTANTS
  width,     \* bytes in a row, 0x10 in the code
  InfoByte,  \* the bytes of a transfer
  MaxInfo    \* bound: the size of a piece of information

ASSUME DumpAssumption == width \in Nat \ {0} /\ InfoByte \subseteq 0..255 /\ MaxInfo \in Nat

InfoTypes == {"TEXT", "HEADER_OUT", "DATA_OUT", "HEADER_IN", "DATA_IN", "SSL_DATA_OUT", "SSL_DATA_IN"}

VARIABLES
  type, ptr,  \* a piece of information of libcurl
  index,      \* the i of dump
  rows        \* what has been printed

duVars == <<type, ptr, index, rows>>

DumpInit ==
  /\ type \in InfoTypes /\ ptr \in UNION {[1..n -> InfoByte] : n \in 0..MaxInfo}
  /\ index = 0 /\ rows = <<>>

\* A cell of three blanks.
Gap == -1

\* The character shown for a byte, its own number or that of ".".
Shown(b) == IF b >= 32 /\ b < 128 THEN b ELSE 46

\* Bytes in the row at index.
InRow == IF Len(ptr) - index < width THEN Len(ptr) - index ELSE width

\* Mutant: the cells behind the end are left out.
RowShort ==
  [at |-> index, hex |-> [c \in 1..InRow |-> ptr[index + c]],
   text |-> [c \in 1..InRow |-> Shown(ptr[index + c])]]

Row ==
  [at |-> index,
   hex |-> [c \in 1..width |-> IF c <= InRow THEN ptr[index + c] ELSE Gap],
   text |-> [c \in 1..InRow |-> Shown(ptr[index + c])]]

\* One turn of the loop of dump.
dump ==
  /\ index < Len(ptr)
  /\ rows' = Append(rows, Row) /\ index' = index + width
  /\ UNCHANGED <<type, ptr>>

\* text, which says what is dumped; TEXT falls through to HEADER_OUT.
Label ==
  CASE type \in {"TEXT", "HEADER_OUT"} -> "=> Send header"
    [] type = "DATA_OUT" -> "=> Send data"
    [] type = "HEADER_IN" -> "<= Recv header"
    [] type = "DATA_IN" -> "<= Recv data"
    [] OTHER -> "none"

\* Nothing is dumped for the types that the switch does not have.
debug_info == Label # "none" /\ dump

DumpNext == debug_info

DumpSpec == DumpInit /\ [][DumpNext]_duVars

-----------------------------------------------------------------------------
(* Properties                                                              *)

\* The bytes in the first cells of a row, as many as it has characters.
Bytes(r) == SubSeq(r.hex, 1, Len(r.text))

\* The bytes in the cells of all rows, one row after the other.
Cells ==
  LET all[k \in 0..Len(rows)] == IF k = 0 THEN <<>> ELSE all[k - 1] \o Bytes(rows[k])
  IN  all[Len(rows)]

\* The cells of all rows are the data up to index, no byte missing or twice where
\* rows meet.  In each row the cells and the characters stand for the same bytes,
\* none is empty before the end of the data, and since no row lacks a cell the
\* characters stand in one column (curl_builder.cpp:144, 152).  Encrypted data is
\* never shown.
DumpComplete ==
  /\ Cells = SubSeq(ptr, 1, IF index < Len(ptr) THEN index ELSE Len(ptr))
  /\ type \in {"SSL_DATA_OUT", "SSL_DATA_IN"} => rows = <<>>
  /\ \A k \in 1..Len(rows) :
       LET r == rows[k] IN
       /\ r.text # <<>> /\ Len(r.hex) = width
       /\ \A c \in 1..width : r.hex[c] = Gap <=> c > Len(r.text)
       /\ \A c \in 1..Len(r.text) : r.hex[c] = ptr[r.at + c] /\ r.text[c] = Shown(ptr[r.at + c])
=============================================================================
