-------------------------- MODULE EchoServerProofs --------------------------
(***************************************************************************)
(* Proofs about the echo server 009/main.cpp, for any number of clients,   *)
(* any sizes of the page, of reads and of partial writes.                  *)
(***************************************************************************)
EXTENDS EchoServer, SequenceTheorems, TLAPS

-----------------------------------------------------------------------------
(* The inductive invariant                                                 *)

\* Byte b may be the p-th that client c receives.
Fits(c, p, b) ==
  IF p <= HomeLen THEN b = <<Server, p>>
  ELSE \/ b = <<c, p - HomeLen>>
       \/ b = Zero /\ \E j \in 1..(p - HomeLen) : j \in Nul

\* The bytes c has been, or will be, sent for what the server read from it.
Total(c) == IF conn[c] = "open" THEN HomeLen + taken[c] ELSE 0

\* The writes q of a client that has received r bytes of total, laid end to end:
\* the i-th, in a buffer of hp, starts after byte at[i] of what c receives.
Laid(c, at, q, hp, r, total) ==
  /\ at[Len(q) + 1] = total
  /\ q = <<>> => r = at[1]
  /\ q # <<>> => r = at[1] + q[1].pos /\ q[1].pos <= Len(hp[q[1].buf])
  /\ \A i \in 1..Len(q) :
       /\ q[i].buf \in 1..Len(hp)
       /\ i > 1 => q[i].pos = 0
       /\ at[i + 1] = at[i] + Len(hp[q[i].buf])
       /\ \A k \in 1..Len(hp[q[i].buf]) : Fits(c, at[i] + k, hp[q[i].buf][k])

Flows(c) ==
  \E at \in [1..(Len(queue[c]) + 1) -> 0..(HomeLen + MaxBytes)] :
    Laid(c, at, queue[c], heap, Len(received[c]), Total(c))

FlowInv ==
  /\ \A c \in Client :
       /\ \A p \in 1..Len(received[c]) : Fits(c, p, received[c][p])
       /\ conn[c] # "open" => taken[c] = 0
  /\ ~crashed => \A c \in Client : Flows(c)

EchoInv == TypeOK /\ FlowInv

-----------------------------------------------------------------------------
(* Proofs                                                                  *)

\* The constants, without the sets they are members of.
LEMMA Constants ==
  /\ HomeLen \in Nat /\ HomeLen > 0 /\ MaxBytes \in Nat /\ Chunk \in Nat /\ Chunk > 0
  /\ MaxEmpty \in Nat /\ Server \notin Client
BY EchoAssumption

\* strncpy keeps the length, and copies a byte or writes a zero after a '\0'.
LEMMA StrncpyFacts ==
  ASSUME NEW data \in Seq(Byte)
  PROVE  /\ Strncpy(data) \in Seq(Byte) /\ Len(Strncpy(data)) = Len(data)
         /\ \A i \in 1..Len(data) :
              \/ Strncpy(data)[i] = data[i]
              \/ /\ Strncpy(data)[i] = Zero
                 /\ \E j \in 1..i : data[j][2] \in Nul /\ data[j][1] # Server
<1> DEFINE copy == Strncpy(data)
<1>1. Len(data) \in Nat
  BY LenProperties
<1>2. Zero \in Byte
  BY Constants DEF Zero, Byte
<1>3. copy = [i \in 1..Len(data) |->
                IF \E j \in 1..i : data[j][2] \in Nul /\ data[j][1] # Server THEN Zero
                ELSE data[i]]
  BY DEF Strncpy
<1>4. \A i \in 1..Len(data) : data[i] \in Byte
  BY ElementOfSeq
<1>5. copy \in [1..Len(data) -> Byte]
  BY <1>2, <1>3, <1>4
<1>6. copy \in Seq(Byte) /\ Len(copy) = Len(data)
  BY <1>1, <1>5, SeqDef, LenProperties
<1> QED
  BY <1>3, <1>6

\* A new write of data goes behind those that are queued.
LEMMA LaidReply ==
  ASSUME NEW c, NEW q \in Seq(Write), NEW hp \in Seq(Seq(Byte)), NEW data \in Seq(Byte),
         NEW r \in Nat, NEW total \in Nat, NEW bound \in Nat, total + Len(data) <= bound,
         NEW at \in [1..(Len(q) + 1) -> 0..bound], Laid(c, at, q, hp, r, total),
         \A k \in 1..Len(data) : Fits(c, total + k, data[k])
  PROVE  LET q2 == Append(q, [buf |-> Len(hp) + 1, pos |-> 0]) IN
         \E at2 \in [1..(Len(q2) + 1) -> 0..bound] :
           Laid(c, at2, q2, Append(hp, data), r, total + Len(data))
<1> DEFINE w == [buf |-> Len(hp) + 1, pos |-> 0]
           q2 == Append(q, w)
           hp2 == Append(hp, data)
           n == Len(q)
           h == Len(hp)
           l == Len(data)
           at2 == [i \in 1..(n + 2) |-> IF i <= n + 1 THEN at[i] ELSE total + l]
<1>1. n \in Nat /\ h \in Nat /\ l \in Nat
  BY LenProperties
<1>2. w \in Write
  BY <1>1 DEF Write
<1>3. /\ Len(q2) = n + 1 /\ q2[n + 1] = w
      /\ \A i \in 1..n : q2[i] = q[i]
      /\ q2 # <<>>
  BY <1>2, AppendProperties
<1>4. /\ Len(hp2) = h + 1 /\ hp2[h + 1] = data
      /\ \A i \in 1..h : hp2[i] = hp[i]
  BY AppendProperties
<1>5. w.buf = h + 1 /\ w.pos = 0
  OBVIOUS
<1>6. /\ at[n + 1] = total
      /\ q = <<>> => r = at[1]
      /\ q # <<>> => r = at[1] + q[1].pos /\ q[1].pos <= Len(hp[q[1].buf])
      /\ \A i \in 1..n :
           /\ q[i].buf \in 1..h
           /\ i > 1 => q[i].pos = 0
           /\ at[i + 1] = at[i] + Len(hp[q[i].buf])
           /\ \A k \in 1..Len(hp[q[i].buf]) : Fits(c, at[i] + k, hp[q[i].buf][k])
  BY DEF Laid
<1>7. q # <<>> <=> n # 0
  BY EmptySeq, LenProperties
<1>8. at \in [1..(n + 1) -> 0..bound]
  OBVIOUS
<1> HIDE DEF w, q2, hp2, n, h, l
<1>9. at2 \in [1..(n + 2) -> 0..bound]
  <2>1. total + l \in 0..bound
    BY <1>1 DEF l
  <2>2. ASSUME NEW i \in 1..(n + 2), i <= n + 1 PROVE at[i] \in 0..bound
    <3>1. i \in 1..(n + 1)
      BY <1>1, <2>2
    <3> QED
      BY <1>8, <3>1
  <2> QED
    BY <2>1, <2>2
<1>10. /\ \A i \in 1..(n + 1) : at2[i] = at[i]
       /\ at2[n + 2] = total + l
  BY <1>1
<1> HIDE DEF at2
<1>11. ASSUME NEW i \in 1..(n + 1)
       PROVE  /\ q2[i].buf \in 1..(h + 1)
              /\ i > 1 => q2[i].pos = 0
              /\ at2[i + 1] = at2[i] + Len(hp2[q2[i].buf])
              /\ \A k \in 1..Len(hp2[q2[i].buf]) :
                   Fits(c, at2[i] + k, hp2[q2[i].buf][k])
  <2>1. CASE i \in 1..n
    <3>1. q2[i] = q[i] /\ q[i].buf \in 1..h /\ hp2[q[i].buf] = hp[q[i].buf]
      BY <1>3, <1>4, <1>6, <2>1
    <3>2. at2[i] = at[i] /\ at2[i + 1] = at[i + 1]
      BY <1>1, <1>10, <2>1
    <3>3. q2[i].buf \in 1..(h + 1)
      BY <1>1, <3>1
    <3> QED
      BY <1>6, <2>1, <3>1, <3>2, <3>3
  <2>2. CASE i = n + 1
    <3>1. q2[i] = w /\ hp2[q2[i].buf] = data
      BY <1>3, <1>4, <1>5, <2>2
    <3>2. at2[i] = total
      BY <1>6, <1>10, <2>2
    <3>3. at2[i + 1] = total + l
      BY <1>1, <1>10, <2>2
    <3>4. q2[i].buf \in 1..(h + 1) /\ q2[i].pos = 0
      BY <1>1, <1>5, <3>1
    <3> QED
      BY <3>1, <3>2, <3>3, <3>4 DEF l
  <2> QED
    BY <1>1, <2>1, <2>2
<1>12. r = at2[1] + q2[1].pos /\ q2[1].pos <= Len(hp2[q2[1].buf])
  <2>1. CASE n = 0
    <3>1. q2[1] = w /\ at2[1] = r /\ r \in Nat
      BY <1>1, <1>3, <1>6, <1>7, <1>10, <2>1
    <3>2. hp2[w.buf] = data /\ w.pos = 0
      BY <1>4, <1>5
    <3> QED
      BY <1>1, <3>1, <3>2 DEF l
  <2>2. CASE n # 0
    <3>1. 1 \in 1..n /\ 1 \in 1..(n + 1)
      BY <1>1, <2>2
    <3>2. q2[1] = q[1] /\ at2[1] = at[1] /\ q[1].buf \in 1..h
      BY <1>3, <1>6, <1>10, <3>1
    <3>3. hp2[q2[1].buf] = hp[q[1].buf]
      BY <1>4, <3>2
    <3> QED
      BY <1>6, <1>7, <2>2, <3>2, <3>3
  <2> QED
    BY <2>1, <2>2
<1>13. Laid(c, at2, q2, hp2, r, total + l)
  BY <1>1, <1>3, <1>4, <1>10, <1>11, <1>12 DEF Laid
<1>14. 1..(n + 2) = 1..(Len(q2) + 1)
  BY <1>1, <1>3
<1> QED
  BY <1>9, <1>13, <1>14 DEF q2, hp2, w, l

\* A buffer that is made for one client does not move the writes of another.
LEMMA LaidOther ==
  ASSUME NEW c, NEW q \in Seq(Write), NEW hp \in Seq(Seq(Byte)), NEW data \in Seq(Byte),
         NEW r, NEW total, NEW at, Laid(c, at, q, hp, r, total)
  PROVE  Laid(c, at, q, Append(hp, data), r, total)
<1> DEFINE hp2 == Append(hp, data)
<1>1. Len(hp) \in Nat /\ Len(q) \in Nat
  BY LenProperties
<1>2. Len(hp2) = Len(hp) + 1 /\ \A i \in 1..Len(hp) : hp2[i] = hp[i]
  BY AppendProperties
<1> HIDE DEF hp2
<1>3. \A i \in 1..Len(q) : q[i].buf \in 1..Len(hp) /\ q[i].buf \in 1..Len(hp2)
  BY <1>1, <1>2 DEF Laid
<1>4. \A i \in 1..Len(q) : hp2[q[i].buf] = hp[q[i].buf]
  BY <1>2, <1>3
<1>5. q # <<>> => hp2[q[1].buf] = hp[q[1].buf]
  <2>1. q # <<>> => 1 \in 1..Len(q)
    BY <1>1, EmptySeq, LenProperties
  <2> QED
    BY <1>4, <2>1
<1>6. Laid(c, at, q, hp2, r, total)
  BY <1>3, <1>4, <1>5 DEF Laid
<1> QED
  BY <1>6 DEF hp2

\* The loop has written n bytes of the first write, but not all of them.
LEMMA LaidPart ==
  ASSUME NEW c, NEW q \in Seq(Write), q # <<>>, NEW hp,
         NEW r \in Nat, NEW total, NEW at, Laid(c, at, q, hp, r, total),
         NEW n \in Nat, q[1].pos + n <= Len(hp[q[1].buf]), at[1] \in Nat
  PROVE  Laid(c, at, [q EXCEPT ![1].pos = q[1].pos + n], hp, r + n, total)
<1> DEFINE q2 == [q EXCEPT ![1].pos = q[1].pos + n]
<1>1. Len(q) \in Nat /\ Len(q) # 0 /\ 1 \in 1..Len(q) /\ q \in [1..Len(q) -> Write]
  BY EmptySeq, LenProperties
<1>2. q[1] \in Write
  BY <1>1
<1>3. /\ q2 \in [1..Len(q) -> Write] /\ q2[1].buf = q[1].buf /\ q2[1].pos = q[1].pos + n
      /\ \A i \in 1..Len(q) : i > 1 => q2[i] = q[i]
  BY <1>1, <1>2 DEF Write
<1>4. q2 \in Seq(Write) /\ Len(q2) = Len(q) /\ q2 # <<>>
  BY <1>1, <1>3, SeqDef, LenProperties, EmptySeq
<1> HIDE DEF q2
<1>5. \A i \in 1..Len(q) : q2[i].buf = q[i].buf /\ (i > 1 => q2[i].pos = q[i].pos)
  BY <1>1, <1>3
<1>6. r = at[1] + q[1].pos
  BY DEF Laid
<1>7. r + n = at[1] + q2[1].pos
  BY <1>2, <1>3, <1>6 DEF Write
<1>8. Laid(c, at, q2, hp, r + n, total)
  BY <1>3, <1>4, <1>5, <1>7 DEF Laid
<1> QED
  BY <1>8 DEF q2

\* The loop has written the first write to its end.
LEMMA LaidDone ==
  ASSUME NEW c, NEW q \in Seq(Write), q # <<>>, NEW hp \in Seq(Seq(Byte)),
         NEW r \in Nat, NEW total, NEW bound \in Nat,
         NEW at \in [1..(Len(q) + 1) -> 0..bound], Laid(c, at, q, hp, r, total),
         NEW n \in Nat, Len(hp[q[1].buf]) = q[1].pos + n
  PROVE  \E at2 \in [1..(Len(Tail(q)) + 1) -> 0..bound] :
           Laid(c, at2, Tail(q), hp, r + n, total)
<1> DEFINE m == Len(q)
           q2 == Tail(q)
           at2 == [i \in 1..m |-> at[i + 1]]
<1>1. m \in Nat /\ m # 0 /\ 1 \in 1..m
  BY EmptySeq, LenProperties
<1>2. Len(q2) = m - 1 /\ \A i \in 1..(m - 1) : q2[i] = q[i + 1]
  BY HeadTailProperties
<1>3. q2 \in Seq(Write)
  BY HeadTailProperties
<1>4. q2 = <<>> <=> m = 1
  <2>1. q2 = <<>> <=> Len(q2) = 0
    BY <1>3, EmptySeq, LenProperties
  <2> QED
    BY <1>1, <1>2, <2>1
<1>5. q[1] \in Write
  BY <1>1, ElementOfSeq
<1>6. /\ at[m + 1] = total /\ r = at[1] + q[1].pos
      /\ \A i \in 1..m :
           /\ q[i].buf \in 1..Len(hp)
           /\ i > 1 => q[i].pos = 0
           /\ at[i + 1] = at[i] + Len(hp[q[i].buf])
           /\ \A k \in 1..Len(hp[q[i].buf]) : Fits(c, at[i] + k, hp[q[i].buf][k])
  BY DEF Laid
<1>7. at \in [1..(m + 1) -> 0..bound]
  OBVIOUS
<1> HIDE DEF m, q2
<1>8. at[1] \in Nat /\ \A i \in 1..m : at[i + 1] \in 0..bound
  <2>1. 1 \in 1..(m + 1) /\ \A i \in 1..m : i + 1 \in 1..(m + 1)
    BY <1>1
  <2>2. \A i \in 1..(m + 1) : at[i] \in 0..bound
    BY <1>7
  <2>3. at[1] \in 0..bound
    BY <2>1, <2>2
  <2> QED
    BY <2>1, <2>2, <2>3
<1>9. at2 \in [1..m -> 0..bound] /\ \A i \in 1..m : at2[i] = at[i + 1]
  BY <1>8
<1> HIDE DEF at2
<1>10. at2[1] = r + n
  <2>1. at2[1] = at[1] + (q[1].pos + n)
    BY <1>1, <1>6, <1>9
  <2> QED
    BY <1>5, <1>6, <1>8, <2>1 DEF Write
<1>11. q2 # <<>> => q2[1].pos = 0 /\ Len(hp[q2[1].buf]) \in Nat
  <2> SUFFICES ASSUME m # 1 PROVE q2[1].pos = 0 /\ Len(hp[q2[1].buf]) \in Nat
    BY <1>4
  <2>1. 1 \in 1..(m - 1) /\ 2 \in 1..m
    BY <1>1
  <2>2. q2[1] = q[2] /\ q[2].pos = 0 /\ q[2].buf \in 1..Len(hp)
    BY <1>2, <1>6, <2>1
  <2>3. hp[q[2].buf] \in Seq(Byte)
    BY <2>2, ElementOfSeq
  <2> QED
    BY <2>2, <2>3, LenProperties
<1>12. ASSUME NEW i \in 1..(m - 1)
       PROVE  /\ q2[i].buf \in 1..Len(hp) /\ q2[i].pos = 0
              /\ at2[i + 1] = at2[i] + Len(hp[q2[i].buf])
              /\ \A k \in 1..Len(hp[q2[i].buf]) : Fits(c, at2[i] + k, hp[q2[i].buf][k])
  <2>1. i + 1 \in 1..m /\ i + 1 > 1 /\ i \in 1..m
    BY <1>1
  <2>2. q2[i] = q[i + 1] /\ at2[i] = at[i + 1] /\ at2[i + 1] = at[(i + 1) + 1]
    BY <1>2, <1>9, <2>1
  <2> QED
    BY <1>6, <2>1, <2>2
<1>13. Len(q2) + 1 = m /\ at2[m] = total
  <2>1. m \in 1..m
    BY <1>1
  <2> QED
    BY <1>1, <1>2, <1>6, <1>9, <2>1
<1>14. q2 = <<>> => r + n = at2[1]
  BY <1>10
<1>15. q2 # <<>> => r + n = at2[1] + q2[1].pos /\ q2[1].pos <= Len(hp[q2[1].buf])
  <2>1. r + n \in Int
    OBVIOUS
  <2> QED
    BY <1>10, <1>11, <2>1
<1>16. Laid(c, at2, q2, hp, r + n, total)
  BY <1>2, <1>12, <1>13, <1>14, <1>15 DEF Laid
<1>17. at2 \in [1..(Len(q2) + 1) -> 0..bound]
  BY <1>9, <1>13
<1> QED
  BY <1>16, <1>17 DEF q2

\* What has been sent fits: the echo of the bytes after the i-th of client c.
LEMMA EchoFits ==
  ASSUME NEW c \in Client, NEW i \in Nat, NEW j \in Nat, i <= j, j <= MaxBytes
  PROVE  LET data == Sent(c, i + 1, j) IN
         /\ data \in Seq(Byte) /\ Len(data) = j - i
         /\ \A k \in 1..(j - i) : Fits(c, HomeLen + i + k, Strncpy(data)[k])
<1> DEFINE data == Sent(c, i + 1, j)
<1>1. data = [n \in 1..(j - i) |-> <<c, i + n>>]
  <2>1. j - (i + 1) + 1 = j - i /\ \A n \in 1..(j - i) : (i + 1) + n - 1 = i + n
    OBVIOUS
  <2> QED
    BY <2>1 DEF Sent
<1> HIDE DEF data
<1>2. j - i \in Nat /\ \A n \in 1..(j - i) : i + n \in 1..MaxBytes
  BY Constants
<1>3. data \in [1..(j - i) -> Byte]
  BY <1>1, <1>2 DEF Byte
<1>4. data \in Seq(Byte) /\ Len(data) = j - i
  BY <1>2, <1>3, SeqDef, LenProperties
<1>5. ASSUME NEW k \in 1..(j - i) PROVE Fits(c, HomeLen + i + k, Strncpy(data)[k])
  <2>1. HomeLen + i + k > HomeLen /\ (HomeLen + i + k) - HomeLen = i + k
    BY Constants
  <2>2. CASE Strncpy(data)[k] = data[k]
    BY <1>1, <2>1, <2>2, Constants DEF Fits
  <2>3. CASE Strncpy(data)[k] = Zero /\ \E n \in 1..k : data[n][2] \in Nul
    <3>1. PICK n \in 1..k : data[n][2] \in Nul
      BY <2>3
    <3>2. n \in 1..(j - i) /\ i + n \in 1..(i + k)
      BY <1>2
    <3>3. data[n][2] = i + n
      BY <1>1, <3>2
    <3> QED
      BY <2>1, <2>3, <3>1, <3>2, <3>3, Constants DEF Fits
  <2> QED
    BY <1>4, <2>2, <2>3, StrncpyFacts
<1> QED
  BY <1>4, <1>5 DEF data

\* The home page fits a client that has been sent nothing.
LEMMA PageFits ==
  ASSUME NEW c \in Client
  PROVE  /\ home_page \in Seq(Byte) /\ Len(home_page) = HomeLen
         /\ \A k \in 1..HomeLen : Fits(c, k, Strncpy(home_page)[k])
<1>1. home_page \in [1..HomeLen -> Byte]
  BY Constants DEF home_page, Byte
<1>2. home_page \in Seq(Byte) /\ Len(home_page) = HomeLen
  BY <1>1, Constants, SeqDef, LenProperties
<1>3. ASSUME NEW k \in 1..HomeLen PROVE Strncpy(home_page)[k] = <<Server, k>>
  <2>1. \A j \in 1..k : j \in 1..HomeLen
    BY Constants
  <2>2. \A j \in 1..k : home_page[j][1] = Server
    BY <2>1 DEF home_page
  <2>3. Strncpy(home_page)[k] = home_page[k]
    BY <1>2, <2>2, StrncpyFacts
  <2> QED
    BY <2>3 DEF home_page
<1> QED
  BY <1>2, <1>3, Constants DEF Fits

\* The shape of what Reply does to the heap and the queue of c.
LEMMA ReplyFacts ==
  ASSUME TypeOK, NEW c \in Client, NEW data \in Seq(Byte), Reply(c, data)
  PROVE  /\ heap' = Append(heap, Strncpy(data)) /\ heap' \in Seq(Seq(Byte))
         /\ write_buf' \in 0..Len(heap')
         /\ queue' = [queue EXCEPT ![c] = Append(@, [buf |-> Len(heap) + 1, pos |-> 0])]
         /\ queue' \in [Client -> Seq(Write)]
<1>1. Strncpy(data) \in Seq(Byte)
  BY StrncpyFacts
<1>2. /\ heap' = Append(heap, Strncpy(data)) /\ heap' \in Seq(Seq(Byte))
      /\ Len(heap') = Len(heap) + 1
  BY <1>1, AppendProperties DEF TypeOK, Reply
<1>3. Len(heap) \in Nat
  BY LenProperties DEF TypeOK
<1>4. write_buf' = Len(heap) + 1
  BY <1>2 DEF Reply
<1>5. [buf |-> Len(heap) + 1, pos |-> 0] \in Write
  BY <1>3 DEF Write
<1>6. queue' = [queue EXCEPT ![c] = Append(@, [buf |-> Len(heap) + 1, pos |-> 0])]
  BY <1>4 DEF Reply
<1>7. Append(queue[c], [buf |-> Len(heap) + 1, pos |-> 0]) \in Seq(Write)
  BY <1>5, AppendProperties DEF TypeOK
<1>8. queue' \in [Client -> Seq(Write)]
  BY <1>6, <1>7 DEF TypeOK
<1> QED
  BY <1>2, <1>3, <1>4, <1>6, <1>8

\* A reply to c extends what c is sent, and leaves the writes of the others alone.
LEMMA ReplyFlows ==
  ASSUME TypeOK, \A d \in Client : Flows(d), NEW c \in Client, NEW data \in Seq(Byte),
         Reply(c, data), received' = received,
         Total(c)' = Total(c) + Len(data), Total(c) \in Nat,
         Total(c) + Len(data) <= HomeLen + MaxBytes,
         \A d \in Client \ {c} : Total(d)' = Total(d),
         \A k \in 1..Len(data) : Fits(c, Total(c) + k, Strncpy(data)[k])
  PROVE  \A d \in Client : Flows(d)'
<1> DEFINE bound == HomeLen + MaxBytes
           copy == Strncpy(data)
<1>1. bound \in Nat
  BY Constants
<1>2. copy \in Seq(Byte) /\ Len(copy) = Len(data)
  BY StrncpyFacts
<1>3. heap \in Seq(Seq(Byte)) /\ queue \in [Client -> Seq(Write)]
      /\ \A d \in Client : Len(received[d]) \in Nat
  BY LenProperties DEF TypeOK
<1>4. /\ heap' = Append(heap, copy)
      /\ queue' = [queue EXCEPT ![c] = Append(@, [buf |-> Len(heap) + 1, pos |-> 0])]
  BY ReplyFacts
<1>5. Flows(c)'
  <2>1. PICK at \in [1..(Len(queue[c]) + 1) -> 0..bound] :
          Laid(c, at, queue[c], heap, Len(received[c]), Total(c))
    BY DEF Flows
  <2>2. queue'[c] = Append(queue[c], [buf |-> Len(heap) + 1, pos |-> 0])
    BY <1>3, <1>4
  <2>3. \A k \in 1..Len(copy) : Fits(c, Total(c) + k, copy[k])
    BY <1>2
  <2>4. queue[c] \in Seq(Write) /\ Len(received[c]) \in Nat
        /\ Total(c) + Len(copy) <= bound
    BY <1>2, <1>3
  <2> HIDE DEF copy, bound
  <2>5. \E at2 \in [1..(Len(queue'[c]) + 1) -> 0..bound] :
          Laid(c, at2, queue'[c], heap', Len(received[c]), Total(c) + Len(copy))
    BY <1>1, <1>2, <1>3, <1>4, <2>1, <2>2, <2>3, <2>4, LaidReply
  <2> QED
    BY <1>2, <2>5 DEF Flows, bound
<1>6. ASSUME NEW d \in Client \ {c} PROVE Flows(d)'
  <2>1. PICK at \in [1..(Len(queue[d]) + 1) -> 0..bound] :
          Laid(d, at, queue[d], heap, Len(received[d]), Total(d))
    BY DEF Flows
  <2>2. queue'[d] = queue[d]
    BY <1>3, <1>4
  <2>3. Laid(d, at, queue[d], heap', Len(received[d]), Total(d))
    BY <1>2, <1>3, <1>4, <2>1, LaidOther
  <2> QED
    BY <2>1, <2>2, <2>3 DEF Flows
<1> QED
  BY <1>5, <1>6

\* The first write of c, and what is left of it.
LEMMA HeadFacts ==
  ASSUME TypeOK, NEW c \in Client, Flows(c), queue[c] # <<>>
  PROVE  /\ Head(queue[c]) = queue[c][1] /\ queue[c][1] \in Write
         /\ queue[c][1].buf \in 1..Len(heap) /\ heap[queue[c][1].buf] \in Seq(Byte)
         /\ Len(heap[queue[c][1].buf]) \in Nat
         /\ queue[c][1].pos <= Len(heap[queue[c][1].buf])
<1> DEFINE q == queue[c]
<1>1. q \in Seq(Write) /\ heap \in Seq(Seq(Byte))
  BY DEF TypeOK
<1>2. Len(q) \in Nat /\ 1 \in 1..Len(q)
  BY <1>1, EmptySeq, LenProperties
<1>3. q[1] \in Write /\ Head(q) = q[1]
  BY <1>1, <1>2, ElementOfSeq, HeadTailProperties
<1>4. PICK at : Laid(c, at, q, heap, Len(received[c]), Total(c))
  BY DEF Flows
<1>5. q[1].buf \in 1..Len(heap) /\ q[1].pos <= Len(heap[q[1].buf])
  BY <1>2, <1>4 DEF Laid
<1>6. heap[q[1].buf] \in Seq(Byte)
  BY <1>1, <1>5, ElementOfSeq
<1> QED
  BY <1>3, <1>5, <1>6, LenProperties

\* What the loop appends to what c has received.
LEMMA PieceFacts ==
  ASSUME NEW s \in Seq(Byte), NEW pos \in Nat, NEW n \in Nat, pos + n <= Len(s)
  PROVE  /\ SubSeq(s, pos + 1, pos + n) \in Seq(Byte)
         /\ Len(SubSeq(s, pos + 1, pos + n)) = n
         /\ \A k \in 1..n : SubSeq(s, pos + 1, pos + n)[k] = s[pos + k]
<1> DEFINE piece == SubSeq(s, pos + 1, pos + n)
<1>1. Len(s) \in Nat
  BY LenProperties
<1>2. \A i \in (pos + 1)..(pos + n) : s[i] \in Byte
  BY <1>1, ElementOfSeq
<1>3. /\ piece \in Seq(Byte)
      /\ Len(piece) = IF pos + 1 <= pos + n THEN pos + n - (pos + 1) + 1 ELSE 0
      /\ \A i \in 1..Len(piece) : piece[i] = s[pos + 1 + i - 1]
  BY <1>2, SubSeqProperties
<1> HIDE DEF piece
<1>4. Len(piece) = n
  BY <1>3
<1>5. \A k \in 1..n : pos + 1 + k - 1 = pos + k
  OBVIOUS
<1> QED
  BY <1>3, <1>4, <1>5 DEF piece

\* What c receives with a piece of the buffer that starts after byte a fits.
LEMMA PieceFits ==
  ASSUME NEW c, NEW rc \in Seq(Byte), NEW s \in Seq(Byte),
         NEW a \in Nat, NEW pos \in Nat, NEW n \in Nat, pos + n <= Len(s),
         Len(rc) = a + pos, \A p \in 1..Len(rc) : Fits(c, p, rc[p]),
         \A k \in 1..Len(s) : Fits(c, a + k, s[k])
  PROVE  LET all == rc \o SubSeq(s, pos + 1, pos + n) IN
         /\ all \in Seq(Byte) /\ Len(all) = Len(rc) + n
         /\ \A p \in 1..Len(all) : Fits(c, p, all[p])
<1> DEFINE piece == SubSeq(s, pos + 1, pos + n)
           all == rc \o piece
           r == Len(rc)
<1>1. Len(s) \in Nat /\ r \in Nat
  BY LenProperties
<1>2. piece \in Seq(Byte) /\ Len(piece) = n /\ \A k \in 1..n : piece[k] = s[pos + k]
  BY PieceFacts
<1> HIDE DEF piece
<1>3. /\ all \in Seq(Byte) /\ Len(all) = r + Len(piece)
      /\ \A p \in 1..(r + Len(piece)) : all[p] = IF p <= r THEN rc[p] ELSE piece[p - r]
  BY <1>2, ConcatProperties
<1>4. Len(all) = r + n
  BY <1>2, <1>3
<1> HIDE DEF all, r
<1>5. ASSUME NEW p \in 1..(r + n) PROVE Fits(c, p, all[p])
  <2>1. all[p] = IF p <= r THEN rc[p] ELSE piece[p - r]
    BY <1>2, <1>3
  <2>2. CASE p <= r
    <3>1. p \in 1..r
      BY <1>1, <2>2
    <3> QED
      BY <2>1, <2>2, <3>1 DEF r
  <2>3. CASE ~(p <= r)
    <3>1. r = a + pos
      BY DEF r
    <3>2. /\ p - r \in 1..n /\ pos + (p - r) \in 1..Len(s)
          /\ a + (pos + (p - r)) = p
      BY <1>1, <2>3, <3>1
    <3>3. all[p] = s[pos + (p - r)]
      BY <1>2, <2>1, <2>3, <3>2
    <3>4. Fits(c, a + (pos + (p - r)), s[pos + (p - r)])
      BY <3>2
    <3> QED
      BY <3>2, <3>3, <3>4
  <2> QED
    BY <2>2, <2>3
<1> QED
  BY <1>3, <1>4, <1>5 DEF all, piece, r

\* One write of the loop: what c has received and what is left for it.
LEMMA FlushStep ==
  ASSUME TypeOK, FlowInv, NEW c \in Client, Flush(c)
  PROVE  /\ received' \in [Client -> Seq(Byte)] /\ queue' \in [Client -> Seq(Write)]
         /\ ended' \in Nat /\ crashed' \in BOOLEAN
         /\ \A d \in Client \ {c} : received'[d] = received[d] /\ queue'[d] = queue[d]
         /\ ~crashed' => Flows(c)'
         /\ \A p \in 1..Len(received'[c]) : Fits(c, p, received'[c][p])
<1> DEFINE q == queue[c]
           s == heap[q[1].buf]
           w == q[1]
           left == Len(s) - w.pos
           r == Len(received[c])
           bound == HomeLen + MaxBytes
<1>1. /\ ~crashed /\ q # <<>> /\ Flows(c)
      /\ UNCHANGED <<conn, taken, heap>>
      /\ \A p \in 1..r : Fits(c, p, received[c][p])
  BY DEF Flush, FlowInv, clients
<1>2. /\ Head(q) = w /\ w \in Write /\ w.buf \in 1..Len(heap)
      /\ s \in Seq(Byte) /\ Len(s) \in Nat /\ w.pos <= Len(s)
  BY <1>1, HeadFacts
<1>3. w.pos \in Nat
  BY <1>2 DEF Write
<1>4. /\ received \in [Client -> Seq(Byte)] /\ queue \in [Client -> Seq(Write)]
      /\ heap \in Seq(Seq(Byte)) /\ ended \in Nat /\ crashed \in BOOLEAN
      /\ q \in Seq(Write) /\ received[c] \in Seq(Byte) /\ r \in Nat
  BY LenProperties DEF TypeOK
<1>5. left \in Nat
  BY <1>2, <1>3
<1>6. CASE crashed' = TRUE /\ UNCHANGED <<received, queue, ended>>
  BY <1>1, <1>4, <1>6
<1>7. ASSUME NEW n \in (IF left = 0 THEN {0} ELSE 1..left),
             received' = [received EXCEPT ![c] = @ \o SubSeq(s, w.pos + 1, w.pos + n)],
             queue' = [queue EXCEPT ![c] = IF n = left THEN Tail(@)
                                           ELSE [@ EXCEPT ![1].pos = w.pos + n]],
             ended' = IF n = left THEN ended + 1 ELSE ended,
             UNCHANGED crashed
      PROVE  /\ received' \in [Client -> Seq(Byte)] /\ queue' \in [Client -> Seq(Write)]
             /\ ended' \in Nat /\ crashed' \in BOOLEAN
             /\ \A d \in Client \ {c} : received'[d] = received[d] /\ queue'[d] = queue[d]
             /\ ~crashed' => Flows(c)'
             /\ \A p \in 1..Len(received'[c]) : Fits(c, p, received'[c][p])
  <2> DEFINE piece == SubSeq(s, w.pos + 1, w.pos + n)
             rest == IF n = left THEN Tail(q) ELSE [q EXCEPT ![1].pos = w.pos + n]
  <2>1. n \in Nat /\ w.pos + n <= Len(s) /\ (n = left => Len(s) = w.pos + n)
    <3>1. n \in Nat /\ n <= left
      BY <1>5
    <3>2. Len(s) \in Nat /\ w.pos \in Nat
      BY <1>2, <1>3
    <3> HIDE DEF s, w
    <3> QED
      BY <3>1, <3>2
  <2>2. /\ received'[c] = received[c] \o piece /\ queue'[c] = rest
        /\ \A d \in Client \ {c} : received'[d] = received[d] /\ queue'[d] = queue[d]
    BY <1>4, <1>7
  <2>3. rest \in Seq(Write)
    <3>1. Tail(q) \in Seq(Write)
      BY <1>1, <1>4, HeadTailProperties
    <3>2. [q EXCEPT ![1].pos = w.pos + n] \in Seq(Write)
      <4>1. Len(q) \in Nat /\ 1 \in 1..Len(q) /\ q \in [1..Len(q) -> Write]
        BY <1>1, <1>4, EmptySeq, LenProperties
      <4>2. [w EXCEPT !.pos = w.pos + n] \in Write
        BY <1>2, <1>3, <2>1 DEF Write
      <4>3. [q EXCEPT ![1].pos = w.pos + n] \in [1..Len(q) -> Write]
        BY <4>1, <4>2
      <4> QED
        BY <4>1, <4>3, SeqDef
    <3> QED
      BY <3>1, <3>2
  <2>4. PICK at \in [1..(Len(q) + 1) -> 0..bound] : Laid(c, at, q, heap, r, Total(c))
    BY <1>1 DEF Flows
  <2>5. /\ r = at[1] + w.pos /\ at[1] \in Nat
        /\ \A k \in 1..Len(s) : Fits(c, at[1] + k, s[k])
    <3>1. Len(q) \in Nat /\ 1 \in 1..Len(q) /\ 1 \in 1..(Len(q) + 1)
      BY <1>1, <1>4, EmptySeq, LenProperties
    <3>2. at[1] \in 0..bound
      BY <3>1
    <3> QED
      BY <1>1, <2>4, <3>1, <3>2 DEF Laid
  <2>6. /\ received'[c] \in Seq(Byte) /\ Len(received'[c]) = r + n
        /\ \A p \in 1..Len(received'[c]) : Fits(c, p, received'[c][p])
    <3> DEFINE rc == received[c]
               start == at[1]
               pos == w.pos
               all == rc \o SubSeq(s, pos + 1, pos + n)
    <3>1. /\ rc \in Seq(Byte) /\ s \in Seq(Byte) /\ start \in Nat /\ pos \in Nat
          /\ n \in Nat /\ pos + n <= Len(s) /\ Len(rc) = start + pos
          /\ \A p \in 1..Len(rc) : Fits(c, p, rc[p])
          /\ \A k \in 1..Len(s) : Fits(c, start + k, s[k])
      BY <1>1, <1>2, <1>3, <1>4, <2>1, <2>5
    <3>2. received'[c] = all
      BY <2>2
    <3> HIDE DEF s, rc, start, pos
    <3>3. /\ all \in Seq(Byte) /\ Len(all) = Len(rc) + n
          /\ \A p \in 1..Len(all) : Fits(c, p, all[p])
      BY <3>1, PieceFits
    <3> QED
      BY <3>2, <3>3 DEF rc
  <2>7. bound \in Nat
    BY Constants
  <2>8. Total(c)' = Total(c)
    BY <1>1 DEF Total
  <2> HIDE DEF piece, rest, bound
  <2>9. \E at2 \in [1..(Len(rest) + 1) -> 0..bound] :
          Laid(c, at2, rest, heap, r + n, Total(c))
    <3>1. CASE n = left
      BY <1>1, <1>4, <2>1, <2>4, <2>7, <3>1, LaidDone DEF rest
    <3>2. CASE n # left
      <4>1. rest = [q EXCEPT ![1].pos = w.pos + n]
        BY <3>2 DEF rest
      <4>2. Laid(c, at, rest, heap, r + n, Total(c))
        BY <1>1, <1>4, <2>1, <2>4, <2>5, <4>1, LaidPart
      <4>3. Len(rest) = Len(q)
        BY <4>1
      <4> QED
        BY <2>4, <4>2, <4>3
    <3> QED
      BY <3>1, <3>2
  <2>10. Flows(c)'
    <3>1. Len(received'[c]) = r + n /\ queue'[c] = rest /\ heap' = heap
      BY <1>1, <2>2, <2>6
    <3> QED
      BY <2>8, <2>9, <3>1 DEF Flows, bound
  <2>11. received' \in [Client -> Seq(Byte)] /\ queue' \in [Client -> Seq(Write)]
    BY <1>4, <1>7, <2>2, <2>6, <2>3
  <2>12. ended' \in Nat
    BY <1>4, <1>7
  <2>13. crashed' \in BOOLEAN
    BY <1>4, <1>7
  <2> QED
    BY <2>2, <2>6, <2>10, <2>11, <2>12, <2>13
<1> QED
  BY <1>2, <1>6, <1>7 DEF Flush

\* A client whose queue, bytes received and total do not change goes on.
LEMMA FlowsKept ==
  ASSUME NEW d \in Client, Flows(d), heap' = heap, queue'[d] = queue[d],
         received'[d] = received[d], Total(d)' = Total(d)
  PROVE  Flows(d)'
BY DEF Flows

\* A callback that queues a reply, or fails to.
LEMMA CallbackStep ==
  ASSUME TypeOK, FlowInv, NEW c \in Client, NEW data \in Seq(Byte), ~crashed,
         (Reply(c, data) /\ UNCHANGED crashed) \/ OutOfMemory, received' = received,
         Total(c)' = Total(c) + Len(data), Total(c) \in Nat,
         Total(c) + Len(data) <= HomeLen + MaxBytes,
         \A d \in Client \ {c} : Total(d)' = Total(d),
         \A k \in 1..Len(data) : Fits(c, Total(c) + k, Strncpy(data)[k])
  PROVE  /\ heap' \in Seq(Seq(Byte)) /\ write_buf' \in 0..Len(heap')
         /\ queue' \in [Client -> Seq(Write)] /\ crashed' \in BOOLEAN
         /\ ~crashed' => \A d \in Client : Flows(d)'
<1>1. CASE Reply(c, data) /\ UNCHANGED crashed
  <2>1. \A d \in Client : Flows(d)
    BY DEF FlowInv
  <2>2. \A d \in Client : Flows(d)'
    BY <1>1, <2>1, ReplyFlows
  <2> QED
    BY <1>1, <2>2, ReplyFacts DEF TypeOK
<1>2. CASE OutOfMemory
  BY <1>2 DEF OutOfMemory, TypeOK
<1> QED
  BY <1>1, <1>2

\* Each step preserves types and flows.
LEMMA EchoNext ==
  ASSUME TypeOK, FlowInv, Next
  PROVE  TypeOK' /\ FlowInv'
<1>1. /\ conn \in [Client -> {"none", "backlog", "open"}]
      /\ hung_up \in [Client -> {"no", "fin", "reset"}]
      /\ sent \in [Client -> 0..MaxBytes] /\ taken \in [Client -> 0..MaxBytes]
      /\ received \in [Client -> Seq(Byte)] /\ queue \in [Client -> Seq(Write)]
      /\ heap \in Seq(Seq(Byte)) /\ write_buf \in 0..Len(heap)
      /\ ended \in Nat /\ empty \in 0..MaxEmpty /\ crashed \in BOOLEAN
  BY DEF TypeOK
<1>2. /\ \A d \in Client : conn[d] # "open" => taken[d] = 0
      /\ \A d \in Client : \A p \in 1..Len(received[d]) : Fits(d, p, received[d][p])
      /\ ~crashed => \A d \in Client : Flows(d)
  BY DEF FlowInv
<1>3. ASSUME NEW c \in Client, on_new_connection(c)
      PROVE  TypeOK' /\ FlowInv'
  <2>1. /\ ~crashed /\ conn[c] = "backlog" /\ conn' = [conn EXCEPT ![c] = "open"]
        /\ UNCHANGED <<hung_up, sent, taken, received, ended, empty>>
        /\ (Reply(c, home_page) /\ UNCHANGED crashed) \/ OutOfMemory
    BY <1>3 DEF on_new_connection
  <2>2. taken[c] = 0 /\ Total(c) = 0 /\ Total(c)' = HomeLen
    BY <1>1, <1>2, <2>1, Constants DEF Total
  <2>3. \A d \in Client \ {c} : Total(d)' = Total(d)
    BY <1>1, <2>1 DEF Total
  <2>4. /\ home_page \in Seq(Byte) /\ Len(home_page) = HomeLen
        /\ \A k \in 1..HomeLen : Fits(c, k, Strncpy(home_page)[k])
    BY PageFits
  <2>5. /\ Total(c)' = Total(c) + Len(home_page) /\ Total(c) \in Nat
        /\ Total(c) + Len(home_page) <= HomeLen + MaxBytes
        /\ \A k \in 1..Len(home_page) : Fits(c, Total(c) + k, Strncpy(home_page)[k])
    BY <2>2, <2>4, Constants
  <2>6. /\ heap' \in Seq(Seq(Byte)) /\ write_buf' \in 0..Len(heap')
        /\ queue' \in [Client -> Seq(Write)] /\ crashed' \in BOOLEAN
        /\ ~crashed' => \A d \in Client : Flows(d)'
    BY <2>1, <2>3, <2>4, <2>5, CallbackStep
  <2>7. conn' \in [Client -> {"none", "backlog", "open"}]
        /\ \A d \in Client : conn'[d] # "open" => taken'[d] = 0
    BY <1>1, <1>2, <2>1
  <2> QED
    BY <1>1, <1>2, <2>1, <2>6, <2>7 DEF TypeOK, FlowInv
<1>4. ASSUME NEW c \in Client, process_request(c)
      PROVE  TypeOK' /\ FlowInv'
  <2>1. PICK n \in 1..Chunk :
          /\ taken[c] + n <= sent[c]
          /\ taken' = [taken EXCEPT ![c] = @ + n]
          /\ \/ Reply(c, Sent(c, taken[c] + 1, taken[c] + n)) /\ UNCHANGED crashed
             \/ OutOfMemory
    BY <1>4 DEF process_request
  <2>2. /\ ~crashed /\ conn[c] = "open"
        /\ UNCHANGED <<conn, hung_up, sent, received, ended, empty>>
    BY <1>4 DEF process_request, clients
  <2> DEFINE data == Sent(c, taken[c] + 1, taken[c] + n)
  <2>3. /\ taken[c] \in Nat /\ n \in Nat /\ taken[c] + n \in Nat
        /\ taken[c] + n <= MaxBytes /\ taken[c] <= taken[c] + n
        /\ (taken[c] + n) - taken[c] = n
    BY <1>1, <2>1, Constants
  <2>4. /\ data \in Seq(Byte) /\ Len(data) = n
        /\ \A k \in 1..n : Fits(c, HomeLen + taken[c] + k, Strncpy(data)[k])
    BY <2>3, EchoFits
  <2> HIDE DEF data
  <2>5. /\ Total(c) = HomeLen + taken[c] /\ Total(c)' = HomeLen + (taken[c] + n)
        /\ \A d \in Client \ {c} : Total(d)' = Total(d)
    BY <1>1, <2>1, <2>2 DEF Total
  <2>6. /\ Total(c)' = Total(c) + Len(data) /\ Total(c) \in Nat
        /\ Total(c) + Len(data) <= HomeLen + MaxBytes
        /\ \A k \in 1..Len(data) : Fits(c, Total(c) + k, Strncpy(data)[k])
    BY <2>3, <2>4, <2>5, Constants
  <2>7. (Reply(c, data) /\ UNCHANGED crashed) \/ OutOfMemory
    BY <2>1 DEF data
  <2>8. /\ heap' \in Seq(Seq(Byte)) /\ write_buf' \in 0..Len(heap')
        /\ queue' \in [Client -> Seq(Write)] /\ crashed' \in BOOLEAN
        /\ ~crashed' => \A d \in Client : Flows(d)'
    BY <2>2, <2>4, <2>5, <2>6, <2>7, CallbackStep
  <2>9. taken' \in [Client -> 0..MaxBytes]
        /\ \A d \in Client : conn'[d] # "open" => taken'[d] = 0
    BY <1>1, <1>2, <2>1, <2>2, <2>3
  <2> QED
    BY <1>1, <1>2, <2>2, <2>8, <2>9 DEF TypeOK, FlowInv
<1>5. ASSUME NEW c \in Client, ReadNothing(c)
      PROVE  TypeOK' /\ FlowInv'
  <2>1. /\ ~crashed /\ conn[c] = "open" /\ empty < MaxEmpty /\ empty' = empty + 1
        /\ UNCHANGED <<conn, hung_up, sent, taken, received, ended>>
        /\ (Reply(c, <<>>) /\ UNCHANGED crashed) \/ OutOfMemory
    BY <1>5 DEF ReadNothing, clients
  <2>2. \A d \in Client : Total(d)' = Total(d)
    BY <2>1 DEF Total
  <2>3. <<>> \in Seq(Byte) /\ Len(<<>>) = 0
    BY EmptySeq
  <2>4. Total(c) = HomeLen + taken[c] /\ taken[c] \in 0..MaxBytes
    BY <1>1, <2>1 DEF Total
  <2>5. /\ Total(c)' = Total(c) + Len(<<>>) /\ Total(c) \in Nat
        /\ Total(c) + Len(<<>>) <= HomeLen + MaxBytes
        /\ \A k \in 1..Len(<<>>) : Fits(c, Total(c) + k, Strncpy(<<>>)[k])
    BY <2>2, <2>3, <2>4, Constants
  <2>6. /\ heap' \in Seq(Seq(Byte)) /\ write_buf' \in 0..Len(heap')
        /\ queue' \in [Client -> Seq(Write)] /\ crashed' \in BOOLEAN
        /\ ~crashed' => \A d \in Client : Flows(d)'
    BY <2>1, <2>2, <2>3, <2>5, CallbackStep
  <2>7. empty' \in 0..MaxEmpty
    BY <1>1, <2>1, Constants
  <2> QED
    BY <1>1, <1>2, <2>1, <2>6, <2>7 DEF TypeOK, FlowInv
<1>6. ASSUME NEW c \in Client, Flush(c)
      PROVE  TypeOK' /\ FlowInv'
  <2>1. /\ ~crashed /\ UNCHANGED <<conn, hung_up, sent, taken, heap, write_buf, empty>>
    BY <1>6 DEF Flush, clients
  <2>2. /\ received' \in [Client -> Seq(Byte)] /\ queue' \in [Client -> Seq(Write)]
        /\ ended' \in Nat /\ crashed' \in BOOLEAN
        /\ \A d \in Client \ {c} : received'[d] = received[d] /\ queue'[d] = queue[d]
        /\ ~crashed' => Flows(c)'
        /\ \A p \in 1..Len(received'[c]) : Fits(c, p, received'[c][p])
    BY <1>6, FlushStep
  <2>3. \A d \in Client : Total(d)' = Total(d)
    BY <2>1 DEF Total
  <2>4. \A d \in Client \ {c} : Flows(d)'
    BY <1>2, <2>1, <2>2, <2>3, FlowsKept
  <2>5. \A d \in Client : \A p \in 1..Len(received'[d]) : Fits(d, p, received'[d][p])
    BY <1>2, <2>2
  <2>6. ~crashed' => \A d \in Client : Flows(d)'
    BY <2>2, <2>4
  <2>7. TypeOK'
    BY <1>1, <2>1, <2>2 DEF TypeOK
  <2> QED
    BY <1>2, <2>1, <2>5, <2>6, <2>7 DEF FlowInv
<1>7. ASSUME UNCHANGED <<taken, received, heap, write_buf, queue, empty>>,
             conn' \in [Client -> {"none", "backlog", "open"}],
             \A d \in Client : conn'[d] = "open" <=> conn[d] = "open",
             hung_up' \in [Client -> {"no", "fin", "reset"}],
             sent' \in [Client -> 0..MaxBytes],
             ended' \in Nat, crashed' \in BOOLEAN, ~crashed' => ~crashed
      PROVE  TypeOK' /\ FlowInv'
  <2>1. \A d \in Client : Total(d)' = Total(d)
    BY <1>7 DEF Total
  <2>2. ~crashed' => \A d \in Client : Flows(d)'
    BY <1>2, <1>7, <2>1, FlowsKept
  <2>3. TypeOK'
    BY <1>1, <1>7 DEF TypeOK
  <2> QED
    BY <1>2, <1>7, <2>2, <2>3 DEF FlowInv
<1>8. ASSUME NEW c \in Client, ReadError(c) PROVE TypeOK' /\ FlowInv'
  BY <1>1, <1>7, <1>8 DEF ReadError, clients
<1>9. ASSUME on_write PROVE TypeOK' /\ FlowInv'
  BY <1>1, <1>7, <1>9 DEF on_write, clients
<1>10. ASSUME NEW c \in Client, Connect(c) PROVE TypeOK' /\ FlowInv'
  BY <1>1, <1>7, <1>10 DEF Connect
<1>11. ASSUME NEW c \in Client, Send(c) PROVE TypeOK' /\ FlowInv'
  <2>1. sent' \in [Client -> 0..MaxBytes]
    BY <1>1, <1>11, Constants DEF Send
  <2> QED
    BY <1>1, <1>7, <1>11, <2>1 DEF Send
<1>12. ASSUME NEW c \in Client, HangUp(c) PROVE TypeOK' /\ FlowInv'
  BY <1>1, <1>7, <1>12 DEF HangUp
<1> QED
  BY <1>3, <1>4, <1>5, <1>6, <1>8, <1>9, <1>10, <1>11, <1>12 DEF Next, Loop

\* The invariant holds in every reachable state.
THEOREM EchoInvCorrect == Spec => []EchoInv
<1>1. Init => EchoInv
  <2> SUFFICES ASSUME Init PROVE EchoInv
    OBVIOUS
  <2>1. <<>> \in Seq(Byte) /\ <<>> \in Seq(Seq(Byte)) /\ <<>> \in Seq(Write)
        /\ Len(<<>>) = 0
    BY EmptySeq
  <2>2. TypeOK
    <3>1. /\ conn \in [Client -> {"none", "backlog", "open"}]
          /\ hung_up \in [Client -> {"no", "fin", "reset"}]
          /\ received \in [Client -> Seq(Byte)] /\ queue \in [Client -> Seq(Write)]
          /\ crashed \in BOOLEAN
      BY <2>1 DEF Init
    <3>2. sent \in [Client -> 0..MaxBytes] /\ taken \in [Client -> 0..MaxBytes]
          /\ ended \in Nat /\ empty \in 0..MaxEmpty
      BY Constants DEF Init
    <3>3. heap \in Seq(Seq(Byte)) /\ write_buf \in 0..Len(heap)
      BY <2>1 DEF Init
    <3> QED
      BY <3>1, <3>2, <3>3 DEF TypeOK
  <2>3. ASSUME NEW c \in Client PROVE Flows(c)
    <3> DEFINE at == [i \in 1..1 |-> 0]
    <3>1. queue[c] = <<>> /\ received[c] = <<>> /\ Total(c) = 0
      BY DEF Init, Total
    <3>2. 0 \in 0..(HomeLen + MaxBytes)
      BY Constants
    <3>3. at \in [1..(Len(queue[c]) + 1) -> 0..(HomeLen + MaxBytes)]
      BY <2>1, <3>1, <3>2
    <3>4. Laid(c, at, queue[c], heap, Len(received[c]), Total(c))
      BY <2>1, <3>1 DEF Laid
    <3> QED
      BY <3>3, <3>4 DEF Flows
  <2>4. \A c \in Client : \A p \in 1..Len(received[c]) : Fits(c, p, received[c][p])
    BY <2>1 DEF Init
  <2>5. \A c \in Client : taken[c] = 0
    BY DEF Init
  <2> QED
    BY <2>2, <2>3, <2>4, <2>5 DEF EchoInv, FlowInv
<1>2. EchoInv /\ [Next]_vars => EchoInv'
  <2> SUFFICES ASSUME EchoInv, [Next]_vars PROVE EchoInv'
    OBVIOUS
  <2>1. CASE Next
    BY <2>1, EchoNext DEF EchoInv
  <2>2. CASE UNCHANGED vars
    BY <2>2 DEF vars, EchoInv, TypeOK, FlowInv, Flows, Total
  <2> QED
    BY <2>1, <2>2
<1> QED
  BY <1>1, <1>2, PTL DEF Spec

\* A sequence that agrees with a longer one at its positions is a prefix of it.
LEMMA PrefixByPositions ==
  ASSUME NEW S, NEW s \in Seq(S), NEW t \in Seq(S), Len(s) <= Len(t),
         \A i \in 1..Len(s) : s[i] = t[i]
  PROVE  IsPrefix(s, t)
<1>1. Len(s) \in Nat /\ Len(t) \in Nat
  BY LenProperties
<1>2. \A i \in 1..Len(s) : i \in 1..Len(t) /\ s[i] \in S /\ t[i] \in S
  BY <1>1, ElementOfSeq
<1>3. /\ SubSeq(s, 1, Len(s)) \in Seq(S)
      /\ Len(SubSeq(s, 1, Len(s))) = Len(s)
      /\ \A i \in 1..Len(s) : SubSeq(s, 1, Len(s))[i] = s[i]
  BY <1>1, <1>2, SubSeqProperties
<1>4. /\ SubSeq(t, 1, Len(s)) \in Seq(S)
      /\ Len(SubSeq(t, 1, Len(s))) = Len(s)
      /\ \A i \in 1..Len(s) : SubSeq(t, 1, Len(s))[i] = t[i]
  BY <1>1, <1>2, SubSeqProperties
<1>5. SubSeq(s, 1, Len(s)) = SubSeq(t, 1, Len(s))
  BY <1>3, <1>4, SeqEqual
<1> QED
  BY <1>5 DEF IsPrefix

\* Each client is sent the page and then the echo of its own bytes, in order,
\* for every interleaving of callbacks and every split of the writes.
THEOREM EchoesCorrect == Spec => []EchoesOwn
<1>1. EchoInv => EchoesOwn
  <2> SUFFICES ASSUME EchoInv PROVE EchoesOwn
    OBVIOUS
  <2>1. TypeOK /\ \A c \in Client : \A p \in 1..Len(received[c]) : Fits(c, p, received[c][p])
    BY DEF EchoInv, FlowInv
  <2> SUFFICES ASSUME NEW c \in Client
               PROVE  IF Len(received[c]) <= HomeLen THEN IsPrefix(received[c], home_page)
                      ELSE /\ IsPrefix(home_page, received[c])
                           /\ EchoOf(c, SubSeq(received[c], HomeLen + 1, Len(received[c])))
    BY <2>1 DEF EchoesOwn
  <2> DEFINE rc == received[c]
             r == Len(rc)
             echo == SubSeq(rc, HomeLen + 1, r)
  <2>2. /\ rc \in Seq(Byte) /\ r \in Nat /\ \A p \in 1..r : rc[p] \in Byte
        /\ home_page \in Seq(Byte) /\ Len(home_page) = HomeLen
        /\ \A i \in 1..HomeLen : home_page[i] = <<Server, i>>
    BY <2>1, PageFits, LenProperties, ElementOfSeq DEF TypeOK, home_page
  <2>3. \A p \in 1..r : p <= HomeLen => rc[p] = home_page[p]
    <3> SUFFICES ASSUME NEW p \in 1..r, p <= HomeLen PROVE rc[p] = home_page[p]
      OBVIOUS
    <3>1. p \in 1..HomeLen /\ Fits(c, p, rc[p])
      BY <2>1, Constants
    <3> QED
      BY <2>2, <3>1 DEF Fits
  <2>4. CASE r <= HomeLen
    <3>1. \A i \in 1..r : rc[i] = home_page[i]
      BY <2>2, <2>3, <2>4, Constants
    <3> QED
      BY <2>2, <2>4, <3>1, PrefixByPositions
  <2>5. CASE ~(r <= HomeLen)
    <3>1. \A i \in 1..HomeLen : i \in 1..r /\ i <= HomeLen
      BY <2>2, <2>5, Constants
    <3>2. IsPrefix(home_page, rc)
      <4>1. \A i \in 1..Len(home_page) : home_page[i] = rc[i]
        <5>1. \A i \in 1..HomeLen : home_page[i] = rc[i]
          BY <2>3, <3>1
        <5> QED
          BY <2>2, <5>1
      <4>2. Len(home_page) <= Len(rc)
        BY <2>2, <2>5, Constants
      <4> QED
        BY <2>2, <4>1, <4>2, PrefixByPositions
    <3>3. Len(echo) = r - HomeLen /\ \A i \in 1..(r - HomeLen) : echo[i] = rc[HomeLen + i]
      <4>1. HomeLen \in Nat /\ HomeLen + (r - HomeLen) = r /\ r - HomeLen \in Nat
        BY <2>2, <2>5, Constants
      <4> QED
        BY <2>2, <4>1, PieceFacts
    <3>4. ASSUME NEW i \in 1..(r - HomeLen)
          PROVE  echo[i] = <<c, i>> \/ (echo[i] = Zero /\ \E j \in 1..i : j \in Nul)
      <4>1. HomeLen + i \in 1..r /\ HomeLen + i > HomeLen /\ (HomeLen + i) - HomeLen = i
        BY <2>2, <2>5, Constants
      <4>2. Fits(c, HomeLen + i, rc[HomeLen + i])
        BY <2>1, <4>1
      <4> QED
        BY <3>3, <4>1, <4>2, Constants DEF Fits
    <3> QED
      BY <2>5, <3>2, <3>3, <3>4 DEF EchoOf
  <2> QED
    BY <2>4, <2>5
<1> QED
  BY <1>1, EchoInvCorrect, PTL
=============================================================================
