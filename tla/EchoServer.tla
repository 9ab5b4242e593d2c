----------------------------- MODULE EchoServer -----------------------------
(***************************************************************************)
(* 009/main.cpp, a libuv server that greets each client with a home page   *)
(* and echoes what it sends.  One action is one callback of the event      *)
(* loop, or one write the loop does for a client; the clients are          *)
(* interleaved with it.                                                    *)
(*                                                                         *)
(* A byte is the pair of who produced it and its number: <<c, k>> is the   *)
(* k-th byte client c sends, <<Server, i>> the i-th of the home page.      *)
(***************************************************************************)
EXTENDS Integers, Sequences, SequencesExt

CONSTANTS
  Client,
  Server,
  HomeLen,   \* length of home_page
  MaxBytes,  \* bound: bytes a client sends
  Nul,       \* the numbers among them whose byte is '\0'
  Chunk,     \* what one read returns at most, suggested_size
  MaxEmpty,  \* bound: reads that return nothing (nread = 0)
  Faults     \* {"malloc"} or {}

ASSUME EchoAssumption ==
  /\ Server \notin Client
  /\ HomeLen \in Nat \ {0} /\ MaxBytes \in Nat /\ Nul \subseteq 1..MaxBytes
  /\ Chunk \in Nat \ {0} /\ MaxEmpty \in Nat
  /\ Faults \subseteq {"malloc"}

VARIABLES
  conn,      \* per client: "none", "backlog", "open"
  hung_up,   \* per client: "no", "fin" (it sends no more) or "reset"
  sent,      \* per client: bytes it has sent
  taken,     \* per client: bytes the server has read
  received,  \* per client: what it has received
  heap,      \* the buffers malloc returned for writing; none is ever freed
  write_buf, \* the global uv_buf_t: the number of a buffer
  queue,     \* per client: the writes libuv has accepted, as buffer and position
  ended,     \* writes that are complete and whose on_write has not run
  empty,     \* reads that returned nothing
  crashed

vars == <<conn, hung_up, sent, taken, received, heap, write_buf, queue, ended,
          empty, crashed>>

Zero == <<Server, 0>>
home_page == [i \in 1..HomeLen |-> <<Server, i>>]
Byte == (Client \X (1..MaxBytes)) \cup ({Server} \X (0..HomeLen))

\* Bytes i to j of client c.
Sent(c, i, j) == [n \in 1..(j - i + 1) |-> <<c, i + n - 1>>]

Write == [buf : Nat, pos : Nat]

TypeOK ==
  /\ conn \in [Client -> {"none", "backlog", "open"}]
  /\ hung_up \in [Client -> {"no", "fin", "reset"}]
  /\ sent \in [Client -> 0..MaxBytes] /\ taken \in [Client -> 0..MaxBytes]
  /\ received \in [Client -> Seq(Byte)]
  /\ heap \in Seq(Seq(Byte))
  /\ write_buf \in 0..Len(heap)
  /\ queue \in [Client -> Seq(Write)]
  /\ ended \in Nat /\ empty \in 0..MaxEmpty
  /\ crashed \in BOOLEAN

Init ==
  /\ conn = [c \in Client |-> "none"]
  /\ hung_up = [c \in Client |-> "no"]
  /\ sent = [c \in Client |-> 0] /\ taken = [c \in Client |-> 0]
  /\ received = [c \in Client |-> <<>>]
  /\ heap = <<>> /\ write_buf = 0
  /\ queue = [c \in Client |-> <<>>]
  /\ ended = 0 /\ empty = 0
  /\ crashed = FALSE

clients == <<conn, hung_up, sent>>

-----------------------------------------------------------------------------
(* libuv                                                                   *)

\* strncpy(write_buf.base, data, len): it stops at a '\0' and pads with zeros.
Strncpy(data) ==
  [i \in 1..Len(data) |->
     IF \E j \in 1..i : data[j][2] \in Nul /\ data[j][1] # Server THEN Zero
     ELSE data[i]]

\* write_buf is set to a new buffer holding data, and uv_write queues it for c.
\* uv_write copies the uv_buf_t, so that write_buf may change afterwards.
Reply(c, data) ==
  /\ heap' = Append(heap, Strncpy(data))
  /\ write_buf' = Len(heap')
  /\ queue' = [queue EXCEPT ![c] = Append(@, [buf |-> write_buf', pos |-> 0])]

\* The loop writes n bytes of the first buffer queued for c, as many as the
\* kernel takes.  Writing to a client that reset the connection raises SIGPIPE.
Flush(c) ==
  /\ ~crashed /\ queue[c] # <<>>
  /\ LET w == Head(queue[c])
         left == Len(heap[w.buf]) - w.pos IN
     \/ /\ hung_up[c] # "reset"
        /\ \E n \in (IF left = 0 THEN {0} ELSE 1..left) :
             /\ received' = [received EXCEPT ![c] =
                               @ \o SubSeq(heap[w.buf], w.pos + 1, w.pos + n)]
             /\ queue' = [queue EXCEPT ![c] =
                            IF n = left THEN Tail(@)
                            ELSE [@ EXCEPT ![1].pos = w.pos + n]]
             /\ ended' = IF n = left THEN ended + 1 ELSE ended
        /\ UNCHANGED crashed
     \/ hung_up[c] = "reset" /\ crashed' = TRUE
        /\ UNCHANGED <<received, queue, ended>>
  /\ UNCHANGED <<clients, taken, heap, write_buf, empty>>

-----------------------------------------------------------------------------
(* The callbacks                                                           *)

OutOfMemory ==
  /\ "malloc" \in Faults /\ crashed' = TRUE
  /\ UNCHANGED <<heap, write_buf, queue>>

\* The client's socket is accepted, the home page sent, reading started.
on_new_connection(c) ==
  /\ ~crashed /\ conn[c] = "backlog"
  /\ conn' = [conn EXCEPT ![c] = "open"]
  /\ \/ Reply(c, home_page) /\ UNCHANGED crashed
     \/ OutOfMemory
  /\ UNCHANGED <<hung_up, sent, taken, received, ended, empty>>

\* Mutant: what is read while an earlier write is pending is not echoed.
ProcessDropsBusy(c) ==
  /\ ~crashed /\ conn[c] = "open" /\ hung_up[c] # "reset"
  /\ \E n \in 1..Chunk :
       /\ taken[c] + n <= sent[c]
       /\ taken' = [taken EXCEPT ![c] = @ + n]
       /\ IF queue[c] = <<>> THEN Reply(c, Sent(c, taken[c] + 1, taken[c] + n))
          ELSE UNCHANGED <<heap, write_buf, queue>>
  /\ UNCHANGED <<clients, received, ended, empty, crashed>>

\* nread > 0: what was read is echoed.
process_request(c) ==
  /\ ~crashed /\ conn[c] = "open" /\ hung_up[c] # "reset"
  /\ \E n \in 1..Chunk :
       /\ taken[c] + n <= sent[c]
       /\ taken' = [taken EXCEPT ![c] = @ + n]
       /\ \/ Reply(c, Sent(c, taken[c] + 1, taken[c] + n)) /\ UNCHANGED crashed
          \/ OutOfMemory
  /\ UNCHANGED <<clients, received, ended, empty>>

\* nread = 0, which libuv reports when a read finds no data, as the one after a
\* full buffer may: an empty buffer is queued.
ReadNothing(c) ==
  /\ ~crashed /\ conn[c] = "open" /\ empty < MaxEmpty
  /\ hung_up[c] = "no" /\ taken[c] = sent[c] /\ taken[c] >= Chunk
  /\ empty' = empty + 1
  /\ \/ Reply(c, <<>>) /\ UNCHANGED crashed
     \/ OutOfMemory
  /\ UNCHANGED <<clients, taken, received, ended>>

\* nread < 0, at the end of a client's data or after a reset: malloc(nread)
\* fails and strncpy writes to NULL.
ReadError(c) ==
  /\ ~crashed /\ conn[c] = "open"
  /\ hung_up[c] = "reset" \/ (hung_up[c] = "fin" /\ taken[c] = sent[c])
  /\ crashed' = TRUE
  /\ UNCHANGED <<clients, taken, received, heap, write_buf, queue, ended, empty>>

\* Mutant: on_write frees the buffer of write_buf, which is the last one made.
OnWriteFrees ==
  /\ ~crashed /\ ended > 0
  /\ ended' = ended - 1
  /\ heap' = [heap EXCEPT ![write_buf] = [i \in 1..Len(@) |-> Zero]]
  /\ UNCHANGED <<clients, taken, received, write_buf, queue, empty, crashed>>

\* The request is freed; the buffer is not.
on_write ==
  /\ ~crashed /\ ended > 0
  /\ ended' = ended - 1
  /\ UNCHANGED <<clients, taken, received, heap, write_buf, queue, empty, crashed>>

Loop ==
  \/ \E c \in Client :
       on_new_connection(c) \/ process_request(c) \/ ReadError(c) \/ Flush(c)
  \/ on_write

-----------------------------------------------------------------------------
(* The clients                                                             *)

Connect(c) ==
  /\ conn[c] = "none" /\ ~crashed
  /\ conn' = [conn EXCEPT ![c] = "backlog"]
  /\ UNCHANGED <<hung_up, sent, taken, received, heap, write_buf, queue, ended,
                 empty, crashed>>

Send(c) ==
  /\ conn[c] # "none" /\ hung_up[c] = "no" /\ sent[c] < MaxBytes /\ ~crashed
  /\ sent' = [sent EXCEPT ![c] = @ + 1]
  /\ UNCHANGED <<conn, hung_up, taken, received, heap, write_buf, queue, ended,
                 empty, crashed>>

HangUp(c) ==
  /\ conn[c] # "none" /\ hung_up[c] = "no" /\ ~crashed
  /\ hung_up' \in {[hung_up EXCEPT ![c] = h] : h \in {"fin", "reset"}}
  /\ UNCHANGED <<conn, sent, taken, received, heap, write_buf, queue, ended,
                 empty, crashed>>

Next ==
  \/ Loop
  \/ \E c \in Client : ReadNothing(c) \/ Connect(c) \/ Send(c) \/ HangUp(c)

Spec == Init /\ [][Next]_vars

\* The loop serves each client and each callback in its turn; clients owe nothing.
FairSpec ==
  /\ Spec
  /\ WF_vars(on_write)
  /\ \A c \in Client :
       WF_vars(on_new_connection(c)) /\ WF_vars(process_request(c)) /\ WF_vars(Flush(c))

-----------------------------------------------------------------------------
(* Properties                                                              *)

\* The echo of what c sent: a '\0' turns the rest of the bytes that were read
\* with it into zeros.
EchoOf(c, s) ==
  \A i \in 1..Len(s) :
    s[i] = <<c, i>> \/ (s[i] = Zero /\ \E j \in 1..i : j \in Nul)

\* A client receives the home page and then its own bytes, in their order, and
\* never those of another client, although the callbacks of all clients share
\* write_buf and writes are completed later and piecemeal.
EchoesOwn ==
  /\ TypeOK
  /\ \A c \in Client :
       IF Len(received[c]) <= HomeLen THEN IsPrefix(received[c], home_page)
       ELSE /\ IsPrefix(home_page, received[c])
            /\ EchoOf(c, SubSeq(received[c], HomeLen + 1, Len(received[c])))

\* Every byte a client sent comes back, unless it resets the connection or the
\* server crashes, which a client does to all others when it hangs up.
Echoed ==
  \A c \in Client, n \in 1..MaxBytes :
    (conn[c] # "none" /\ sent[c] = n)
      ~> (Len(received[c]) >= HomeLen + n \/ crashed \/ hung_up[c] = "reset")
=============================================================================
