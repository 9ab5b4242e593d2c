----------------------------- MODULE LogProofs ------------------------------
(***************************************************************************)
(* Proofs about the logger for every number of threads, files, levels and  *)
(* calls, every buffer size and every combination of failing calls: first  *)
(* on types, the mutex, the streams and the terminal, then on the files:   *)
(* that the log stays open, that no record is torn, that a cut keeps the   *)
(* newest half of a file, and how large a file grows.                      *)
(***************************************************************************)
EXTENDS Log, Log009, SequenceTheorems, TLAPS

\* The null pointer is no file, stream, thread or number.
LEMMA NullFacts == NULL \notin File /\ NULL \notin Handle /\ NULL \notin Thread
BY LogAssumption

\* What sendfile reads is made of the units of the file it reads from.
LEMMA SentType ==
  ASSUME NEW s \in Seq(Unit), NEW off \in Nat, NEW n \in Nat, NEW k \in Nat
  PROVE  Sent(s, off, n, k) \in Seq(Unit)
<1> DEFINE e == (IF off + n < Len(s) THEN off + n ELSE Len(s)) - k
<1>1. Len(s) \in Nat
  BY LenProperties
<1>2. e \in Int /\ e <= Len(s)
  BY <1>1
<1>3. \A i \in (off + 1) .. e : s[i] \in Unit
  BY <1>1, <1>2, ElementOfSeq
<1>4. SubSeq(s, off + 1, e) \in Seq(Unit)
  BY <1>2, <1>3, SubSeqProperties
<1> QED
  BY <1>4 DEF Sent

\* Writing over the beginning of a file yields a file.
LEMMA OverlayType ==
  ASSUME NEW s \in Seq(Unit), NEW w \in Seq(Unit)
  PROVE  Overlay(s, w) \in Seq(Unit)
<1>1. Len(s) \in Nat /\ Len(w) \in Nat
  BY LenProperties
<1>2. \A i \in (Len(w) + 1) .. Len(s) : s[i] \in Unit
  BY <1>1, ElementOfSeq
<1>3. SubSeq(s, Len(w) + 1, Len(s)) \in Seq(Unit)
  BY <1>1, <1>2, SubSeqProperties
<1> QED
  BY <1>3, ConcatProperties DEF Overlay

\* A record's prefix and text are units.
LEMMA RecordType ==
  ASSUME TypeOK, NEW t \in Thread
  PROVE  Str(t) \in Unit /\ Text(t) \in Unit
BY DEF TypeOK, ThreadOK, Str, Text, Unit

\* The int product of check_file_size fits in twelve bits of megabytes.
LEMMA IntMbType ==
  ASSUME NEW mb \in Uint16
  PROVE  IntMb(mb) \in IntMbs
BY DEF IntMb, Uint16, IntMbs

\* fprintf keeps the library's state well formed.
LEMMA FprintfType ==
  ASSUME StdioOK, NEW h \in streams, NEW u \in Unit, path[h] # NULL, Fprintf(h, u)
  PROVE  StdioOK'
<1>1. h \in Handle /\ path[h] \in File /\ buf[h] \in Seq(Unit)
  BY DEF StdioOK
<1>2. disk[path[h]] \o buf[h] \in Seq(Unit)
  BY <1>1, ConcatProperties DEF StdioOK
<1>3. <<u>> \in Seq(Unit) /\ Append(buf[h], u) \in Seq(Unit)
  BY <1>1, AppendProperties
<1> QED
  BY <1>1, <1>2, <1>3 DEF StdioOK, Fprintf

\* fclose keeps the library's state well formed.
LEMMA FcloseType ==
  ASSUME StdioOK, NEW h \in streams, path[h] # NULL, Fclose(h)
  PROVE  StdioOK'
<1>1. h \in Handle /\ path[h] \in File /\ buf[h] \in Seq(Unit)
  BY DEF StdioOK
<1>2. disk[path[h]] \o buf[h] \in Seq(Unit)
  BY <1>1, ConcatProperties DEF StdioOK
<1> QED
  BY <1>1, <1>2, EmptySeq DEF StdioOK, Fclose

\* fopen keeps the library's state well formed.
LEMMA FopenType ==
  ASSUME StdioOK, NEW h \in Handle, NEW f \in File, Fopen(h, f)
  PROVE  StdioOK'
BY EmptySeq DEF StdioOK, Fopen

\* printf keeps the library's state well formed.
LEMMA PrintfType ==
  ASSUME StdioOK, NEW u \in Unit, Printf(u)
  PROVE  StdioOK'
BY AppendProperties DEF StdioOK, Printf

-----------------------------------------------------------------------------
(* What a step of a thread changes                                         *)

\* Which actions touch which part of the state.
LEMMA Frame ==
  ASSUME NEW t \in Thread, Step(t) \/ Call(t)
  PROVE  /\ UNCHANGED config \/ InitOpen(t) \/ InitSet(t) \/ CloseLog(t)
         /\ UNCHANGED mutex \/ Lock(t) \/ Unlock(t)
         /\ \/ UNCHANGED cutting
            \/ Stat(t) \/ Stat2(t) \/ OpenLog(t) \/ Mkstemp(t) \/ CopyOut(t)
            \/ Ending(t)
         /\ UNCHANGED check_tick \/ Finish(t)
         /\ UNCHANGED arg \/ Call(t) \/ InitOpen(t) \/ InitSet(t) \/ Ending(t)
         /\ \/ UNCHANGED stdio
            \/ InitClose(t) \/ InitOpen(t) \/ CloseLog(t)
            \/ FHead(t) \/ FBody(t) \/ THead(t) \/ TBody(t)
            \/ Truncate(t) \/ CopyBack(t)
         /\ UNCHANGED counters \/ Call(t)
         /\ UNCHANGED ub \/ UseClosed(t) \/ StringRace(t)
BY DEF Step, Call, InitClose, InitOpen, InitSet, Lock, FHead, FBody, Finish, THead,
       TBody, Unlock, Stat, CloseLog, Stat2, OpenLog, Mkstemp, CopyOut, Truncate,
       CopyBack, Ending, UseClosed, StringRace, LogCall, InitCall

\* log_init returns to the application or to check_file_size.
LEMMA ArgBack ==
  ASSUME ThreadOK, NEW t \in Thread
  PROVE  arg[t].back \in {"idle", "finish"}
BY DEF ThreadOK, InitArgs

\* The arguments of log_init have their types.
LEMMA ArgFields ==
  ASSUME ThreadOK, NEW t \in Thread
  PROVE  /\ arg[t].log_level \in 0..4
         /\ arg[t].log_file \in File \cup {NULL}
         /\ arg[t].max_mb \in Uint16
BY DEF ThreadOK, InitArgs

\* A return from log_init is a jump to a program point.
LEMMA ReturnMove ==
  ASSUME ThreadOK, NEW t \in Thread, Return(t)
  PROVE  (\E l \in PC : Goto(t, l)) /\ arg' = [arg EXCEPT ![t] = NoArgs]
<1>1. arg[t].back \in PC
  BY ArgBack DEF PC
<1> QED
  BY <1>1 DEF Return

\* A step moves one thread, from one program point to another.
LEMMA Move ==
  ASSUME ThreadOK, NEW t \in Thread, Step(t) \/ Call(t)
  PROVE  UNCHANGED pc \/ \E l \in PC : Goto(t, l)
<1> USE DEF PC, InFile, InCut, InInit
<1>1. CASE InitOpen(t) \/ InitSet(t)
  BY <1>1, ReturnMove DEF InitOpen, InitSet
<1>2. CASE InitClose(t) \/ Lock(t) \/ FHead(t) \/ FBody(t) \/ Finish(t)
  BY <1>2 DEF InitClose, Lock, FHead, FBody, Finish
<1>3. CASE THead(t) \/ TBody(t) \/ Unlock(t)
  BY <1>3 DEF THead, TBody, Unlock
<1>4. CASE Stat(t) \/ CloseLog(t) \/ Stat2(t) \/ OpenLog(t) \/ Mkstemp(t)
  BY <1>4 DEF Stat, CloseLog, Stat2, OpenLog, Mkstemp
<1>5. CASE CopyOut(t) \/ Truncate(t) \/ CopyBack(t) \/ Ending(t)
  BY <1>5 DEF CopyOut, Truncate, CopyBack, Ending
<1>6. CASE UseClosed(t) \/ StringRace(t)
  BY <1>6 DEF UseClosed, StringRace
<1>7. CASE Call(t)
  BY <1>7 DEF Call, LogCall, InitCall
<1> QED
  BY <1>1, <1>2, <1>3, <1>4, <1>5, <1>6, <1>7 DEF Step

\* No step of a thread moves another one or changes its arguments.
LEMMA Others ==
  ASSUME ThreadOK, NEW t \in Thread, Step(t) \/ Call(t), NEW u \in Thread \ {t}
  PROVE  pc'[u] = pc[u] /\ arg'[u] = arg[u]
<1>1. pc'[u] = pc[u]
  BY Move DEF Goto, ThreadOK
<1>2. arg'[u] = arg[u]
  <2>1. CASE UNCHANGED arg
    BY <2>1
  <2>2. CASE Call(t)
    BY <2>2 DEF Call, LogCall, InitCall, ThreadOK
  <2>3. CASE InitOpen(t) \/ InitSet(t) \/ Ending(t)
    BY <2>3 DEF InitOpen, InitSet, Ending, Return, ThreadOK
  <2> QED
    BY <2>1, <2>2, <2>3, Frame
<1> QED
  BY <1>1, <1>2

\* A thread that is inside a call keeps the number of the record it writes.
LEMMA StrKept ==
  ASSUME ThreadOK, NEW t \in Thread, Step(t) \/ Call(t),
         NEW u \in Thread, pc[u] # "idle"
  PROVE  Str(u)' = Str(u)
<1>1. calls'[u] = calls[u]
  <2>1. CASE UNCHANGED counters
    BY <2>1 DEF counters
  <2>2. CASE Call(t)
    BY <2>2 DEF Call, LogCall, InitCall, At, ThreadOK
  <2> QED
    BY <2>1, <2>2, Frame
<1> QED
  BY <1>1 DEF Str

-----------------------------------------------------------------------------
(* Records                                                                 *)

\* A prefix may follow anything but a prefix.
LEMMA PairedHead ==
  ASSUME NEW s \in Seq(Unit), Paired(s), s # <<>> => s[Len(s)].part # "head",
         NEW u \in Unit, u.part = "head"
  PROVE  Paired(Append(s, u))
<1> DEFINE r == Append(s, u)
<1>1. Len(s) \in Nat /\ Len(r) = Len(s) + 1 /\ r[Len(s) + 1] = u
  BY AppendProperties, LenProperties
<1>2. \A i \in 1..Len(s) : r[i] = s[i]
  BY AppendProperties
<1> HIDE DEF r
<1>3. ASSUME NEW i \in 1..Len(r)
      PROVE  /\ r[i].part = "head" /\ i < Len(r)
                  => r[i + 1] = [r[i] EXCEPT !.part = "body"]
             /\ r[i].part = "body" /\ i > 1
                  => r[i - 1] = [r[i] EXCEPT !.part = "head"]
  <2>1. CASE i = Len(s) + 1
    BY <1>1, <2>1
  <2>2. CASE i = Len(s)
    <3>1. s # <<>> /\ r[i].part # "head"
      BY <1>1, <1>2, <2>2, EmptySeq
    <3> QED
      BY <1>1, <1>2, <2>2, <3>1 DEF Paired
  <2>3. CASE i < Len(s)
    BY <1>1, <1>2, <2>3 DEF Paired
  <2> QED
    BY <1>1, <2>1, <2>2, <2>3
<1> QED
  BY <1>3 DEF Paired, r

\* After a prefix comes the text of the same record.
LEMMA PairedBody ==
  ASSUME NEW s \in Seq(Unit), Paired(s), s # <<>>, s[Len(s)].part = "head"
  PROVE  Paired(Append(s, [s[Len(s)] EXCEPT !.part = "body"]))
<1> DEFINE u == [s[Len(s)] EXCEPT !.part = "body"]
           r == Append(s, u)
<1>0. Len(s) \in Nat /\ Len(s) >= 1
  BY EmptySeq, LenProperties
<1>1. Len(r) = Len(s) + 1 /\ r[Len(s) + 1] = u
  BY <1>0
<1>2. \A i \in 1..Len(s) : r[i] = s[i]
  BY <1>0
<1>3. s[Len(s)] \in Unit
  BY <1>0
<1>4. u.part = "body" /\ [u EXCEPT !.part = "head"] = s[Len(s)]
  BY <1>3 DEF Unit
<1> HIDE DEF r, u
<1>5. ASSUME NEW i \in 1..Len(r)
      PROVE  /\ r[i].part = "head" /\ i < Len(r)
                  => r[i + 1] = [r[i] EXCEPT !.part = "body"]
             /\ r[i].part = "body" /\ i > 1
                  => r[i - 1] = [r[i] EXCEPT !.part = "head"]
  <2>1. CASE i = Len(s) + 1
    BY <1>0, <1>1, <1>2, <1>4, <2>1
  <2>2. CASE i = Len(s)
    <3>1. r[i] = s[i] /\ r[i + 1] = u /\ s[i].part = "head"
      BY <1>0, <1>1, <1>2, <2>2
    <3> QED
      BY <2>2, <3>1 DEF u
  <2>3. CASE i < Len(s)
    BY <1>0, <1>1, <1>2, <2>3 DEF Paired
  <2> QED
    BY <1>0, <1>1, <2>1, <2>2, <2>3
<1> QED
  BY <1>5 DEF Paired, r, u

\* The newest units of a file are as well paired as the file.
LEMMA PairedSuffix ==
  ASSUME NEW s \in Seq(Unit), Paired(s), NEW m \in Nat, m <= Len(s)
  PROVE  Paired(SubSeq(s, m + 1, Len(s)))
<1> DEFINE r == SubSeq(s, m + 1, Len(s))
<1>0. Len(s) \in Nat
  OBVIOUS
<1>1. Len(r) = Len(s) - m /\ \A i \in 1..Len(r) : r[i] = s[m + i]
  BY <1>0
<1> HIDE DEF r
<1>5. ASSUME NEW i \in 1..Len(r)
      PROVE  /\ r[i].part = "head" /\ i < Len(r)
                  => r[i + 1] = [r[i] EXCEPT !.part = "body"]
             /\ r[i].part = "body" /\ i > 1
                  => r[i - 1] = [r[i] EXCEPT !.part = "head"]
  <2>1. m + i \in 1..Len(s) /\ r[i] = s[m + i]
    BY <1>0, <1>1
  <2>2. i < Len(r) => m + i < Len(s) /\ r[i + 1] = s[m + i + 1]
    BY <1>0, <1>1
  <2>3. i > 1 => m + i > 1 /\ r[i - 1] = s[m + i - 1]
    BY <1>0, <1>1
  <2> QED
    BY <2>1, <2>2, <2>3 DEF Paired
<1> QED
  BY <1>5 DEF Paired, r

-----------------------------------------------------------------------------
(* Type correctness                                                        *)

\* The initial state satisfies the invariant.
LEMMA InvInit == Init => Inv
<1> SUFFICES ASSUME Init PROVE Inv
  OBVIOUS
<1>0. DEFAULT_LOG_LEVEL \in 0..4 /\ MaxCalls \in Nat
  BY LogAssumption
<1>1. ConfigOK /\ CuttingOK
  BY <1>0, EmptySeq DEF Init, ConfigOK, CuttingOK, Uint16
<1>2. StdioOK
  <2>1. PICK n \in [File -> 0..MaxOld] : disk = [f \in File |-> OldLog(n[f])]
    BY DEF Init
  <2>2. OldUnit \in Unit
    BY <1>0 DEF OldUnit, Unit
  <2>3. ASSUME NEW f \in File PROVE OldLog(n[f]) \in Seq(Unit)
    <3>1. n[f] \in Nat
      OBVIOUS
    <3> QED
      BY <2>2, <3>1 DEF OldLog
  <2>4. disk \in [File -> Seq(Unit)]
    BY <2>1, <2>3
  <2> QED
    BY <2>4, EmptySeq DEF Init, StdioOK
<1>3. ThreadOK
  <2>1. NoArgs \in InitArgs
    BY <1>0 DEF NoArgs, InitArgs, Uint16
  <2>2. "idle" \in PC
    BY DEF PC
  <2>3. pc \in [Thread -> PC] /\ arg \in [Thread -> InitArgs]
    BY <2>1, <2>2 DEF Init
  <2>4. calls \in [Thread -> 0..MaxCalls]
    BY <1>0 DEF Init
  <2> QED
    BY <2>3, <2>4 DEF Init, ThreadOK
<1>4. LockInv /\ FileInv
  BY DEF Init, LockInv, FileInv, Holding, Reopening, InFile, InCut, InInit
<1>5. TermInv
  BY DEF Init, TermInv, Whole, Paired
<1> QED
  BY <1>1, <1>2, <1>3, <1>4, <1>5 DEF Inv, TypeOK

\* A step keeps the configuration well typed.
LEMMA ConfigNext ==
  ASSUME ConfigOK, ThreadOK, NEW t \in Thread, Step(t) \/ Call(t)
  PROVE  ConfigOK'
<1>1. CASE UNCHANGED config
  BY <1>1 DEF ConfigOK, config
<1>2. CASE InitOpen(t)
  BY <1>2, ArgFields DEF InitOpen, ConfigOK
<1>3. CASE InitSet(t)
  BY <1>3, ArgFields DEF InitSet, ConfigOK
<1>4. CASE CloseLog(t)
  BY <1>4 DEF CloseLog, ConfigOK
<1> QED
  BY <1>1, <1>2, <1>3, <1>4, Frame

\* A step keeps the state of the cut well typed.
LEMMA CuttingNext ==
  ASSUME Inv, NEW t \in Thread, Step(t) \/ Call(t)
  PROVE  CuttingOK'
<1>0. ConfigOK /\ CuttingOK /\ StdioOK /\ FileInv
  BY DEF Inv, TypeOK
<1>1. CASE UNCHANGED cutting
  BY <1>0, <1>1 DEF CuttingOK, cutting
<1>2. CASE Stat(t)
  <2>1. max_size' \in IntMbs \cup {NULL}
    BY <1>0, <1>2, IntMbType DEF Stat, ConfigOK, CuttingOK
  <2> QED
    BY <1>0, <1>2, <2>1 DEF Stat, CuttingOK
<1>3. CASE Stat2(t)
  <2>1. g_log_file \in File
    BY <1>0, <1>3 DEF Stat2, At, FileInv, InCut, ConfigOK
  <2>2. Len(disk[g_log_file]) \in Nat
    BY <1>0, <2>1, LenProperties DEF StdioOK
  <2>3. \A size \in Nat : size \div 2 \in Nat /\ size - size \div 2 \in Nat
    OBVIOUS
  <2>4. half_point' \in Nat /\ len' \in Nat
    <3> DEFINE size == Len(disk[g_log_file])
    <3>1. \/ UNCHANGED <<half_point, len>>
          \/ half_point' = size \div 2 /\ len' = size - size \div 2
      BY <1>3 DEF Stat2
    <3> HIDE DEF size
    <3> QED
      BY <1>0, <2>2, <2>3, <3>1 DEF CuttingOK, size
  <2> QED
    BY <1>0, <1>3, <2>4 DEF Stat2, CuttingOK
<1>4. CASE OpenLog(t)
  BY <1>0, <1>4 DEF OpenLog, CuttingOK, ConfigOK
<1>5. CASE Mkstemp(t) \/ Ending(t)
  <2>1. tmp' \in Seq(Unit)
    BY <1>5, EmptySeq DEF Mkstemp, Ending
  <2> QED
    BY <1>0, <1>5, <2>1 DEF Mkstemp, Ending, CuttingOK
<1>6. CASE CopyOut(t)
  <2>1. fd_log \in File
    BY <1>0, <1>6 DEF CopyOut, At, FileInv, CuttingOK
  <2>2. disk[fd_log] \in Seq(Unit) /\ half_point \in Nat /\ len \in Nat
    BY <1>0, <2>1 DEF StdioOK, CuttingOK
  <2>3. \A k \in Shortfall(len) : k \in Nat
    BY <2>2 DEF Shortfall
  <2>4. tmp' \in Seq(Unit)
    BY <1>0, <1>6, <2>2, <2>3, SentType DEF CopyOut, CuttingOK
  <2> QED
    BY <1>0, <1>6, <2>4 DEF CopyOut, CuttingOK
<1> QED
  BY <1>1, <1>2, <1>3, <1>4, <1>5, <1>6, Frame

\* A step keeps the files and streams well typed.
LEMMA StdioNext ==
  ASSUME Inv, NEW t \in Thread, Step(t) \/ Call(t)
  PROVE  StdioOK'
<1>0. TypeOK /\ ConfigOK /\ CuttingOK /\ StdioOK /\ ThreadOK /\ FileInv
  BY DEF Inv, TypeOK
<1>1. CASE UNCHANGED stdio
  BY <1>0, <1>1 DEF StdioOK, stdio
<1>2. \A h \in streams : path[h] # NULL
  BY <1>0 DEF FileInv
<1>3. CASE InitClose(t)
  BY <1>0, <1>1, <1>2, <1>3, FcloseType DEF InitClose
<1>4. CASE CloseLog(t)
  BY <1>0, <1>2, <1>4, FcloseType DEF CloseLog
<1>5. CASE InitOpen(t)
  <2>1. arg[t].log_file \in File
    BY <1>0, <1>5, ArgFields DEF InitOpen, At, FileInv
  <2> QED
    BY <1>0, <1>1, <1>5, <2>1, FopenType DEF InitOpen
<1>6. CASE FHead(t) \/ FBody(t)
  BY <1>0, <1>2, <1>6, RecordType, FprintfType DEF FHead, FBody
<1>7. CASE THead(t) \/ TBody(t)
  BY <1>0, <1>7, RecordType, PrintfType DEF THead, TBody
<1>8. CASE Truncate(t)
  <2>1. disk' \in [File -> Seq(Unit)]
    BY <1>0, <1>8, EmptySeq DEF Truncate, StdioOK
  <2> QED
    BY <1>0, <1>8, <2>1 DEF Truncate, StdioOK
<1>9. CASE CopyBack(t)
  <2>1. fd_log \in File
    BY <1>0, <1>9 DEF CopyBack, At, FileInv, CuttingOK
  <2>2. disk[fd_log] \in Seq(Unit) /\ tmp \in Seq(Unit) /\ len \in Nat
    BY <1>0, <2>1 DEF StdioOK, CuttingOK
  <2>3. \A k \in Shortfall(Len(tmp)) : k \in Nat
    BY <2>2, LenProperties DEF Shortfall
  <2>4. \A k \in Shortfall(Len(tmp)) :
          Overlay(disk[fd_log], Sent(tmp, 0, len, k)) \in Seq(Unit)
    BY <2>2, <2>3, SentType, OverlayType
  <2>5. disk' \in [File -> Seq(Unit)]
    BY <1>0, <1>9, <2>4 DEF CopyBack, StdioOK
  <2> QED
    BY <1>0, <1>9, <2>5 DEF CopyBack, StdioOK
<1> QED
  BY <1>1, <1>3, <1>4, <1>5, <1>6, <1>7, <1>8, <1>9, Frame

\* A step keeps the threads' state well typed.
LEMMA ThreadNext ==
  ASSUME ConfigOK, ThreadOK, NEW t \in Thread, Step(t) \/ Call(t)
  PROVE  ThreadOK'
<1>1. mutex' \in Thread \cup {NULL}
  BY Frame DEF Lock, Unlock, ThreadOK
<1>2. check_tick' \in Nat
  BY Frame DEF Finish, ThreadOK
<1>3. pc' \in [Thread -> PC]
  BY Move DEF Goto, ThreadOK
<1>4. arg' \in [Thread -> InitArgs]
  <2>1. NoArgs \in InitArgs
    BY LogAssumption DEF NoArgs, InitArgs, Uint16
  <2>2. CASE Call(t)
    <3>1. ASSUME NEW level \in Level, NEW log_file \in File \cup {NULL},
                 NEW max_mb \in MaxMb, InitCall(t, level, log_file, max_mb)
          PROVE  arg' \in [Thread -> InitArgs]
      <4>1. level \in 0..4 /\ max_mb \in Uint16
        BY LogAssumption
      <4> QED
        BY <3>1, <4>1 DEF InitCall, InitArgs, ThreadOK
    <3>2. ASSUME NEW level \in Level, LogCall(t, level)
          PROVE  arg' \in [Thread -> InitArgs]
      BY <3>2 DEF LogCall, ThreadOK
    <3> QED
      BY <2>2, <3>1, <3>2 DEF Call
  <2>3. CASE Ending(t)
    BY <2>3 DEF Ending, ConfigOK, InitArgs, ThreadOK
  <2>4. CASE InitOpen(t) \/ InitSet(t)
    BY <2>1, <2>4 DEF InitOpen, InitSet, Return, ThreadOK
  <2> QED
    BY <2>2, <2>3, <2>4, Frame DEF ThreadOK
<1>5. calls' \in [Thread -> 0..MaxCalls] /\ inits' \in Nat /\ dest' \in File \cup {NULL}
  <2>1. CASE Call(t)
    <3>1. ASSUME NEW level \in Level, LogCall(t, level)
          PROVE  calls' \in [Thread -> 0..MaxCalls] /\ UNCHANGED <<inits, dest>>
      <4>1. calls[t] + 1 \in 0..MaxCalls
        BY <3>1, LogAssumption DEF LogCall, ThreadOK
      <4> QED
        BY <3>1, <4>1 DEF LogCall, ThreadOK
    <3>2. ASSUME NEW level \in Level, NEW log_file \in File \cup {NULL},
                 NEW max_mb \in MaxMb, InitCall(t, level, log_file, max_mb)
          PROVE  UNCHANGED calls /\ inits' \in Nat /\ dest' \in File \cup {NULL}
      BY <3>2 DEF InitCall, ThreadOK
    <3> QED
      BY <2>1, <3>1, <3>2 DEF Call, ThreadOK
  <2> QED
    BY <2>1, Frame DEF counters, ThreadOK
<1>6. ub' \in BOOLEAN
  BY Frame DEF UseClosed, StringRace, ThreadOK
<1> QED
  BY <1>1, <1>2, <1>3, <1>4, <1>5, <1>6 DEF ThreadOK

-----------------------------------------------------------------------------
(* The mutex                                                               *)

\* The ways a thread may pass through the critical section.
LEMMA LockStep ==
  ASSUME LockInv, ThreadOK, NEW t \in Thread, Step(t) \/ Call(t),
         \/ mutex' = mutex /\ (Holding(t)' => Holding(t))
         \/ mutex = NULL /\ mutex' = t
         \/ Holding(t) /\ ~Holding(t)'
  PROVE  LockInv'
<1>1. ASSUME NEW u \in Thread, u # t, Holding(u)' PROVE mutex' = u
  <2>1. pc'[u] = pc[u] /\ arg'[u] = arg[u]
    BY <1>1, Others
  <2>2. Holding(u)
    BY <1>1, <2>1 DEF Holding, Reopening
  <2> QED
    BY <1>1, <2>2, NullFacts DEF LockInv
<1>2. ASSUME Holding(t)' PROVE mutex' = t
  BY <1>2 DEF LockInv
<1> QED
  BY <1>1, <1>2 DEF LockInv

\* Only the owner of the mutex is inside the critical section after a step.
LEMMA LockNext ==
  ASSUME LockInv, ThreadOK, NEW t \in Thread, Step(t) \/ Call(t)
  PROVE  LockInv'
<1> USE DEF Holding, Reopening, InFile, InCut, InInit, At, Goto
<1>1. CASE Lock(t)
  <2>1. mutex = NULL /\ mutex' = t
    BY <1>1 DEF Lock
  <2> QED
    BY <2>1, LockStep
<1>2. CASE Unlock(t)
  <2>1. Holding(t) /\ ~Holding(t)'
    BY <1>2 DEF Unlock, ThreadOK
  <2> QED
    BY <2>1, LockStep
<1>3. CASE mutex' = mutex
  <2>1. CASE UNCHANGED pc /\ UNCHANGED arg
    <3>1. Holding(t)' => Holding(t)
      BY <2>1
    <3> QED
      BY <1>3, <3>1, LockStep
  <2>2. CASE InitClose(t)
    <3>1. Holding(t)' => Holding(t)
      BY <2>2 DEF InitClose, ThreadOK
    <3> QED
      BY <1>3, <3>1, LockStep
  <2>3. CASE InitOpen(t) \/ InitSet(t)
    <3>1. Holding(t)' => Holding(t)
      <4>1. CASE Return(t)
        BY <2>3, <4>1, ArgBack DEF Return, InitOpen, InitSet, ThreadOK
      <4>2. CASE UNCHANGED arg /\ Goto(t, "init_set")
        BY <2>3, <4>2 DEF InitOpen, InitSet, ThreadOK
      <4> QED
        BY <2>3, <4>1, <4>2 DEF InitOpen, InitSet
    <3> QED
      BY <1>3, <3>1, LockStep
  <2>4. CASE Call(t)
    <3>1. ~Holding(t)'
      BY <2>4 DEF Call, LogCall, InitCall, ThreadOK
    <3> QED
      BY <1>3, <3>1, LockStep
  <2>5. CASE \/ FHead(t) \/ FBody(t) \/ Finish(t) \/ THead(t) \/ TBody(t)
             \/ Stat(t) \/ CloseLog(t) \/ Stat2(t) \/ OpenLog(t) \/ Mkstemp(t)
             \/ CopyOut(t) \/ Truncate(t) \/ CopyBack(t) \/ Ending(t)
    <3>1. Holding(t)
      BY <2>5 DEF FHead, FBody, Finish, THead, TBody, Stat, CloseLog, Stat2, OpenLog,
                  Mkstemp, CopyOut, Truncate, CopyBack, Ending
    <3> QED
      BY <1>3, <3>1, LockStep
  <2>6. CASE UseClosed(t) \/ StringRace(t)
    BY <2>1, <2>6 DEF UseClosed, StringRace
  <2> QED
    BY <1>1, <1>2, <2>2, <2>3, <2>4, <2>5, <2>6 DEF Step
<1> QED
  BY <1>1, <1>2, <1>3, Frame

\* Two threads inside the critical section are the same.
LEMMA OneHolder ==
  ASSUME LockInv, NEW t \in Thread, NEW u \in Thread, Holding(t), Holding(u)
  PROVE  t = u
BY DEF LockInv

-----------------------------------------------------------------------------
(* File names                                                              *)

\* The globals name a file whenever a stream is open.
LEMMA FileGlobalsNext ==
  ASSUME Inv, NEW t \in Thread, Step(t) \/ Call(t)
  PROVE  /\ g_log_fd' # NULL => g_log_file' # NULL
         /\ g_log_file # NULL => g_log_file' # NULL
         /\ \A h \in streams' : path'[h] # NULL
<1>0. ThreadOK /\ StdioOK /\ FileInv
  BY DEF Inv, TypeOK
<1>1. CASE InitOpen(t)
  <2>1. arg[t].log_file # NULL
    BY <1>0, <1>1 DEF InitOpen, At, FileInv
  <2> QED
    BY <1>0, <1>1, <2>1 DEF InitOpen, Fopen, FileInv, StdioOK, stdio
<1>2. ASSUME ~InitOpen(t)
      PROVE  /\ g_log_fd' # NULL => g_log_file' # NULL
             /\ g_log_file # NULL => g_log_file' # NULL
  BY <1>0, <1>2, Frame DEF FileInv, config, InitSet, CloseLog
<1>3. ASSUME ~InitOpen(t) PROVE \A h \in streams' : path'[h] # NULL
  <2>1. path' = path /\ streams' \subseteq streams
    BY <1>3, Frame DEF stdio, InitClose, Fclose, CloseLog, FHead, FBody, Fprintf,
                       THead, TBody, Printf, Truncate, CopyBack
  <2> QED
    BY <1>0, <2>1 DEF FileInv
<1> QED
  BY <1>1, <1>2, <1>3

\* File names are there after a step wherever they were before it.
LEMMA FileNext ==
  ASSUME Inv, NEW t \in Thread, Step(t) \/ Call(t)
  PROVE  FileInv'
<1>0. ThreadOK /\ ConfigOK /\ LockInv /\ FileInv
  BY DEF Inv, TypeOK
<1> DEFINE Using(l) == l \in {"mkstemp", "copy_out", "truncate", "copy_back"}
<1> USE DEF InFile, InCut, InInit, At, Goto
<1>1. \A u \in Thread : pc'[u] \in InFile \cup InCut => g_log_file' # NULL
  <2>1. SUFFICES ASSUME NEW u \in Thread, pc'[u] \in InFile \cup InCut
                 PROVE  g_log_file # NULL
    BY FileGlobalsNext
  <2>2. CASE pc[u] \in InFile \cup InCut
    BY <1>0, <2>2 DEF FileInv
  <2>3. CASE pc[u] \notin InFile \cup InCut
    <3>1. u = t
      BY <1>0, <2>1, <2>3, Others
    <3>2. Lock(t)
      <4>1. CASE InitOpen(t) \/ InitSet(t)
        BY <1>0, <2>1, <3>1, <4>1, ArgBack DEF InitOpen, InitSet, Return, ThreadOK
      <4>2. CASE Call(t)
        BY <1>0, <2>1, <3>1, <4>2 DEF Call, LogCall, InitCall, ThreadOK
      <4>3. CASE InitClose(t) \/ Finish(t) \/ THead(t) \/ TBody(t) \/ Unlock(t)
        BY <1>0, <2>1, <3>1, <4>3
           DEF InitClose, Finish, THead, TBody, Unlock, ThreadOK
      <4>4. CASE UseClosed(t) \/ StringRace(t)
        BY <2>1, <2>3, <3>1, <4>4 DEF UseClosed, StringRace
      <4>5. CASE \/ FHead(t) \/ FBody(t) \/ Stat(t) \/ CloseLog(t) \/ Stat2(t)
                 \/ OpenLog(t) \/ Mkstemp(t) \/ CopyOut(t) \/ Truncate(t)
                 \/ CopyBack(t) \/ Ending(t)
        BY <2>3, <3>1, <4>5 DEF FHead, FBody, Stat, CloseLog, Stat2, OpenLog, Mkstemp,
                                CopyOut, Truncate, CopyBack, Ending
      <4> QED
        BY <4>1, <4>2, <4>3, <4>4, <4>5 DEF Step
    <3>3. g_log_fd # NULL
      BY <1>0, <2>1, <3>1, <3>2 DEF Lock, ThreadOK
    <3> QED
      BY <1>0, <3>3 DEF FileInv
  <2> QED
    BY <2>2, <2>3
<1>2. \A u \in Thread : pc'[u] \in {"init_close", "init_open"} => arg'[u].log_file # NULL
  <2>1. ASSUME NEW u \in Thread, u # t, pc'[u] \in {"init_close", "init_open"}
        PROVE  arg'[u].log_file # NULL
    BY <1>0, <2>1, Others DEF FileInv
  <2>2. ASSUME pc'[t] \in {"init_close", "init_open"} PROVE arg'[t].log_file # NULL
    <3>1. CASE InitClose(t)
      BY <1>0, <3>1 DEF InitClose, FileInv
    <3>2. CASE Call(t)
      BY <1>0, <2>2, <3>2 DEF Call, LogCall, InitCall, ThreadOK
    <3>3. CASE Ending(t)
      BY <1>0, <3>3 DEF Ending, FileInv, ThreadOK
    <3>4. CASE UseClosed(t) \/ StringRace(t)
      BY <1>0, <2>2, <3>4 DEF UseClosed, StringRace, FileInv
    <3>5. CASE InitOpen(t) \/ InitSet(t)
      BY <1>0, <2>2, <3>5, ArgBack DEF InitOpen, InitSet, Return, ThreadOK
    <3>6. CASE Lock(t) \/ FHead(t) \/ FBody(t) \/ Finish(t) \/ THead(t) \/ TBody(t) \/ Unlock(t)
      BY <1>0, <2>2, <3>6
         DEF Lock, FHead, FBody, Finish, THead, TBody, Unlock, ThreadOK
    <3>7. CASE \/ Stat(t) \/ CloseLog(t) \/ Stat2(t) \/ OpenLog(t) \/ Mkstemp(t)
               \/ CopyOut(t) \/ Truncate(t) \/ CopyBack(t)
      BY <1>0, <2>2, <3>7 DEF Stat, CloseLog, Stat2, OpenLog, Mkstemp, CopyOut,
                              Truncate, CopyBack, ThreadOK
    <3> QED
      BY <3>1, <3>2, <3>3, <3>4, <3>5, <3>6, <3>7 DEF Step
  <2> QED
    BY <2>1, <2>2
<1>3. \A u \in Thread : Using(pc'[u]) => fd_log' # NULL
  <2>1. SUFFICES ASSUME NEW u \in Thread, Using(pc'[u]) PROVE fd_log' # NULL
    OBVIOUS
  <2>2. CASE u # t
    <3>1. Using(pc[u]) /\ Holding(u)
      BY <1>0, <2>1, <2>2, Others DEF Holding
    <3>2. ~OpenLog(t) /\ ~Ending(t)
      BY <1>0, <2>2, <3>1, OneHolder DEF OpenLog, Ending, Holding
    <3>3. fd_log' = fd_log
      BY <3>2, Frame DEF cutting, Stat, Stat2, Mkstemp, CopyOut
    <3> QED
      BY <1>0, <3>1, <3>3 DEF FileInv
  <2>3. CASE u = t
    <3>1. CASE OpenLog(t)
      BY <1>0, <2>1, <2>3, <3>1 DEF OpenLog, FileInv, ThreadOK
    <3>2. CASE Mkstemp(t) \/ CopyOut(t) \/ Truncate(t) \/ CopyBack(t)
      BY <1>0, <3>2 DEF Mkstemp, CopyOut, Truncate, CopyBack, FileInv, cutting
    <3>3. CASE UseClosed(t) \/ StringRace(t)
      BY <1>0, <2>1, <2>3, <3>3 DEF UseClosed, StringRace, FileInv, cutting
    <3>4. CASE InitOpen(t) \/ InitSet(t)
      BY <1>0, <2>1, <2>3, <3>4, ArgBack DEF InitOpen, InitSet, Return, ThreadOK
    <3>5. CASE Call(t)
      BY <1>0, <2>1, <2>3, <3>5 DEF Call, LogCall, InitCall, ThreadOK
    <3>6. CASE \/ InitClose(t) \/ Lock(t) \/ FHead(t) \/ FBody(t) \/ Finish(t)
               \/ THead(t) \/ TBody(t) \/ Unlock(t) \/ Stat(t) \/ CloseLog(t)
               \/ Stat2(t) \/ Ending(t)
      BY <1>0, <2>1, <2>3, <3>6 DEF InitClose, Lock, FHead, FBody, Finish, THead,
           TBody, Unlock, Stat, CloseLog, Stat2, Ending, ThreadOK
    <3> QED
      BY <3>1, <3>2, <3>3, <3>4, <3>5, <3>6 DEF Step
  <2> QED
    BY <2>2, <2>3
<1> QED
  BY <1>1, <1>2, <1>3, FileGlobalsNext DEF FileInv

-----------------------------------------------------------------------------
(* The terminal                                                            *)

\* Only these two actions lead to, or away from, the middle of a record on the
\* terminal.
LEMMA TBodyStep ==
  ASSUME ThreadOK, NEW t \in Thread, Step(t) \/ Call(t), ~THead(t), ~TBody(t)
  PROVE  pc'[t] = "tbody" <=> pc[t] = "tbody"
<1> USE DEF At, Goto, ThreadOK
<1>1. CASE InitOpen(t) \/ InitSet(t)
  BY <1>1, ArgBack DEF InitOpen, InitSet, Return
<1>2. CASE InitClose(t) \/ Lock(t) \/ FHead(t) \/ FBody(t) \/ Finish(t) \/ Unlock(t)
  BY <1>2 DEF InitClose, Lock, FHead, FBody, Finish, Unlock
<1>3. CASE Stat(t) \/ CloseLog(t) \/ Stat2(t) \/ OpenLog(t) \/ Mkstemp(t)
  BY <1>3 DEF Stat, CloseLog, Stat2, OpenLog, Mkstemp
<1>4. CASE CopyOut(t) \/ Truncate(t) \/ CopyBack(t) \/ Ending(t)
  BY <1>4 DEF CopyOut, Truncate, CopyBack, Ending
<1>5. CASE UseClosed(t) \/ StringRace(t)
  BY <1>5 DEF UseClosed, StringRace
<1>6. CASE Call(t)
  BY <1>6 DEF Call, LogCall, InitCall
<1> QED
  BY <1>1, <1>2, <1>3, <1>4, <1>5, <1>6 DEF Step

\* The owner of the mutex prints a whole record, and nobody else prints.
LEMMA TermNext ==
  ASSUME Inv, NEW t \in Thread, Step(t) \/ Call(t)
  PROVE  TermInv'
<1>0. StdioOK /\ ThreadOK /\ LockInv /\ TermInv /\ term \in Seq(Unit)
  BY DEF Inv, TypeOK, StdioOK
<1>1. CASE THead(t)
  <2>1. term' = Append(term, Str(t)) /\ calls' = calls
    BY <1>1 DEF THead, Printf, counters
  <2>2. \A u \in Thread : pc[u] # "tbody"
    BY <1>0, <1>1, OneHolder DEF THead, At, Holding
  <2>3. term # <<>> => term[Len(term)].part # "head"
    BY <1>0, <2>2 DEF TermInv, Whole
  <2>4. Str(t) \in Unit /\ Str(t).part = "head"
    BY RecordType DEF Inv, Str
  <2>5. Paired(term')
    BY <1>0, <2>1, <2>3, <2>4, PairedHead DEF TermInv, Whole
  <2>6. term' # <<>> /\ term'[Len(term')] = Str(t)'
    BY <1>0, <2>1, <2>4 DEF Str
  <2>7. pc'[t] = "tbody" /\ \A u \in Thread : pc'[u] = "tbody" => u = t
    BY <1>0, <1>1, <2>2, Others DEF THead, Goto, ThreadOK
  <2> QED
    BY <2>5, <2>6, <2>7 DEF TermInv, Whole
<1>2. CASE TBody(t)
  <2>1. term' = Append(term, Text(t)) /\ term # <<>> /\ term[Len(term)] = Str(t)
    BY <1>0, <1>2 DEF TBody, At, Printf, TermInv
  <2>2. Text(t) = [Str(t) EXCEPT !.part = "body"] /\ Str(t).part = "head"
    BY DEF Str, Text
  <2>3. Paired(term')
    BY <1>0, <2>1, <2>2, PairedBody DEF TermInv, Whole
  <2>4. Text(t) \in Unit /\ Text(t).part = "body"
    BY RecordType DEF Inv, Text
  <2>5. term' # <<>> /\ term'[Len(term')].part # "head"
    BY <1>0, <2>1, <2>4
  <2>6. \A u \in Thread : pc'[u] # "tbody"
    BY <1>0, <1>2, Others, OneHolder DEF TBody, At, Goto, Holding, ThreadOK
  <2> QED
    BY <2>3, <2>5, <2>6 DEF TermInv, Whole
<1>3. ASSUME ~THead(t), ~TBody(t) PROVE TermInv'
  <2>1. term' = term
    BY <1>3, Frame DEF stdio, InitClose, InitOpen, CloseLog, Fclose, Fopen, FHead,
                       FBody, Fprintf, Truncate, CopyBack
  <2>2. ASSUME NEW u \in Thread
        PROVE  (pc'[u] = "tbody" <=> pc[u] = "tbody")
               /\ (pc[u] = "tbody" => Str(u)' = Str(u))
    <3>1. CASE u # t
      BY <1>0, <3>1, Others, StrKept
    <3>2. CASE u = t
      BY <1>0, <1>3, <3>2, TBodyStep, StrKept
    <3> QED
      BY <3>1, <3>2
  <2> QED
    BY <1>0, <2>1, <2>2 DEF TermInv, Whole
<1> QED
  BY <1>1, <1>2, <1>3

-----------------------------------------------------------------------------
\* Every step preserves the invariant.
LEMMA InvNext == Inv /\ [Next]_vars => Inv'
<1> SUFFICES ASSUME Inv, [Next]_vars PROVE Inv'
  OBVIOUS
<1>1. ASSUME NEW t \in Thread, Step(t) \/ Call(t) PROVE Inv'
  <2>1. ConfigOK /\ ThreadOK /\ LockInv
    BY DEF Inv, TypeOK
  <2> QED
    BY <1>1, <2>1, ConfigNext, CuttingNext, StdioNext, ThreadNext, LockNext, FileNext,
       TermNext DEF Inv, TypeOK
<1>2. CASE UNCHANGED vars
  BY <1>2 DEF vars, config, cutting, stdio, counters, Inv, TypeOK, ConfigOK, CuttingOK,
              StdioOK, ThreadOK, LockInv, FileInv, TermInv, Whole, Str, Holding, Reopening
<1> QED
  BY <1>1, <1>2 DEF Next

\* The invariant holds in every reachable state, log_init racing or not.
THEOREM InvCorrect == Spec => []Inv
<1> QED
  BY InvInit, InvNext, PTL DEF Spec

\* Type correctness: every variable of the logger keeps its type, whatever
\* threads run, whatever calls fail and however log_init is called.
THEOREM TypeCorrect == Spec => []TypeOK
<1>1. Inv => TypeOK
  BY DEF Inv
<1> QED
  BY <1>1, InvCorrect, PTL

-----------------------------------------------------------------------------
(* Streams, when log_init does not overlap other calls                     *)

\* While the application is inside log_init, no other thread takes a step.
LEMMA SerialAlone ==
  ASSUME SerialInit, SerialInv, NEW t \in Thread, Step(t) \/ Call(t),
         NEW u \in Thread, UserInit(u)
  PROVE  u = t
<1> SUFFICES ASSUME u # t PROVE FALSE
  OBVIOUS
<1>1. pc[t] = "idle" /\ pc[u] # "idle"
  BY DEF SerialInv, UserInit, InInit
<1>2. CASE Call(t)
  BY <1>1, <1>2 DEF Call, LogCall, InitCall
<1>3. CASE Step(t)
  BY <1>1, <1>3 DEF Step, InitClose, InitOpen, InitSet, Lock, FHead, FBody, Finish, THead,
       TBody, Unlock, Stat, CloseLog, Stat2, OpenLog, Mkstemp, CopyOut, Truncate,
       CopyBack, Ending, UseClosed, StringRace, At
<1> QED
  BY <1>2, <1>3

\* A thread is inside the application's log_init only if it was, or if it
\* called it while every thread was idle.
LEMMA UserInitStep ==
  ASSUME ThreadOK, SerialInit, NEW t \in Thread, Step(t) \/ Call(t), UserInit(t)'
  PROVE  UserInit(t) \/ \A u \in Thread : pc[u] = "idle"
<1> USE DEF UserInit, InInit, At, Goto, ThreadOK
<1>1. CASE InitClose(t)
  BY <1>1 DEF InitClose
<1>2. CASE InitOpen(t) \/ InitSet(t)
  BY <1>2, ArgBack DEF InitOpen, InitSet, Return
<1>3. CASE Call(t)
  BY <1>3 DEF Call, LogCall, InitCall
<1>4. CASE Ending(t)
  BY <1>4 DEF Ending
<1>5. CASE UseClosed(t) \/ StringRace(t)
  BY <1>5 DEF UseClosed, StringRace
<1>6. CASE Lock(t) \/ FHead(t) \/ FBody(t) \/ Finish(t) \/ THead(t) \/ TBody(t) \/ Unlock(t)
  BY <1>6 DEF Lock, FHead, FBody, Finish, THead, TBody, Unlock
<1>7. CASE \/ Stat(t) \/ CloseLog(t) \/ Stat2(t) \/ OpenLog(t) \/ Mkstemp(t)
           \/ CopyOut(t) \/ Truncate(t) \/ CopyBack(t)
  BY <1>7 DEF Stat, CloseLog, Stat2, OpenLog, Mkstemp, CopyOut, Truncate, CopyBack
<1> QED
  BY <1>1, <1>2, <1>3, <1>4, <1>5, <1>6, <1>7 DEF Step

\* The application's log_init still runs alone after a step.
LEMMA SerialNext ==
  ASSUME SerialInit, ThreadOK, SerialInv, NEW t \in Thread, Step(t) \/ Call(t)
  PROVE  SerialInv'
<1> SUFFICES ASSUME NEW u \in Thread, UserInit(u)', NEW v \in Thread \ {u}
             PROVE  pc'[v] = "idle"
  BY DEF SerialInv
<1>1. CASE u = t
  <2>1. pc[v] = "idle"
    BY <1>1, UserInitStep DEF SerialInv
  <2> QED
    BY <1>1, <2>1, Others
<1>2. CASE u # t
  <2>1. UserInit(u)
    BY <1>2, Others DEF UserInit
  <2> QED
    BY <1>2, <2>1, SerialAlone
<1> QED
  BY <1>1, <1>2

\* No step uses a closed stream, or a name that is being assigned.
LEMMA NoUndefined ==
  ASSUME Inv, SerialInv, StreamInv, NEW t \in Thread
  PROVE  ~UseClosed(t) /\ ~StringRace(t)
<1>0. LockInv /\ FileInv
  BY DEF Inv
<1>1. ASSUME UseClosed(t) PROVE FALSE
  <2>1. g_log_fd # NULL
    BY <1>1 DEF UseClosed, StreamInv, InFile
  <2>2. PICK u \in Thread : UserInit(u) /\ pc[u] = "init_open"
    BY <1>1, <2>1 DEF UseClosed, StreamInv
  <2>3. u # t /\ pc[t] # "idle"
    BY <1>1, <2>2 DEF UseClosed
  <2> QED
    BY <2>2, <2>3 DEF SerialInv
<1>2. ASSUME StringRace(t) PROVE FALSE
  <2>1. PICK u \in Thread \ {t} : pc[u] = "init_open"
    BY <1>2 DEF StringRace
  <2>2. Holding(u)
    BY <1>2, <2>1, ArgBack DEF StringRace, SerialInv, UserInit, Holding, Reopening,
                               InInit, Inv, TypeOK
  <2>3. Holding(t)
    BY <1>2, <2>1, ArgBack DEF StringRace, SerialInv, UserInit, Holding, Reopening,
                               InInit, InFile, InCut, Inv, TypeOK
  <2> QED
    BY <1>0, <2>2, <2>3, OneHolder
<1> QED
  BY <1>1, <1>2

\* A stream is opened, closed or replaced only by these three actions.
LEMMA StreamFrame ==
  ASSUME NEW t \in Thread, Step(t) \/ Call(t),
         ~InitClose(t), ~InitOpen(t), ~CloseLog(t)
  PROVE  UNCHANGED <<g_log_fd, streams>>
BY Frame DEF config, stdio, InitSet, FHead, FBody, Fprintf, THead, TBody, Printf,
             Truncate, CopyBack

\* The conjunct of StreamInv about one thread.
ThreadStream(u) ==
  /\ pc[u] \in InFile => g_log_fd # NULL
  /\ pc[u] \in InCut => g_log_fd = NULL
  /\ Reopening(u) /\ pc[u] # "init_set" => g_log_fd = NULL
  /\ pc[u] = "init_open" => streams = {}

\* A step that leaves the streams alone takes its thread to a program point
\* that fits them.
LEMMA StreamMove ==
  ASSUME Inv, StreamInv, NEW t \in Thread, Step(t) \/ Call(t),
         ~InitClose(t), ~InitOpen(t), ~CloseLog(t), ~UseClosed(t), ~StringRace(t)
  PROVE  ThreadStream(t)'
<1>0. ThreadOK /\ UNCHANGED <<g_log_fd, streams>>
  BY StreamFrame DEF Inv, TypeOK
<1> USE <1>0 DEF ThreadStream, Reopening, InFile, InCut, InInit, At, Goto, ThreadOK
<1>1. CASE Call(t)
  BY <1>1 DEF Call, LogCall, InitCall
<1>2. CASE InitSet(t)
  BY <1>2, ArgBack DEF InitSet, Return
<1>3. CASE Lock(t)
  BY <1>3 DEF Lock
<1>4. CASE FHead(t) \/ FBody(t) \/ Stat(t)
  <2>1. g_log_fd # NULL
    BY <1>4 DEF FHead, FBody, Stat, StreamInv
  <2> QED
    BY <1>4, <2>1 DEF FHead, FBody, Stat
<1>5. CASE Finish(t) \/ THead(t) \/ TBody(t) \/ Unlock(t)
  BY <1>5 DEF Finish, THead, TBody, Unlock
<1>6. CASE \/ Stat2(t) \/ OpenLog(t) \/ Mkstemp(t) \/ CopyOut(t) \/ Truncate(t)
           \/ CopyBack(t) \/ Ending(t)
  <2>1. g_log_fd = NULL
    BY <1>6 DEF Stat2, OpenLog, Mkstemp, CopyOut, Truncate, CopyBack, Ending, StreamInv
  <2> QED
    BY <1>6, <2>1 DEF Stat2, OpenLog, Mkstemp, CopyOut, Truncate, CopyBack, Ending
<1> QED
  BY <1>1, <1>2, <1>3, <1>4, <1>5, <1>6 DEF Step

\* With g_log_fd null no stream is open.
LEMMA NullNoStream ==
  ASSUME Inv, StreamInv, g_log_fd = NULL
  PROVE  streams = {}
BY NullFacts DEF StreamInv, Inv, TypeOK, StdioOK

\* When a thread is inside log_init, or about to close the log, every other
\* thread is outside the critical section and outside log_init.
LEMMA Alone ==
  ASSUME Inv, SerialInv, NEW t \in Thread, Holding(t) \/ UserInit(t),
         NEW u \in Thread \ {t}
  PROVE  ~Holding(u) /\ ~UserInit(u)
<1>1. CASE UserInit(t)
  BY <1>1 DEF SerialInv, Holding, Reopening, UserInit, InFile, InCut, InInit
<1>2. CASE Holding(t)
  <2>1. ~Holding(u)
    BY <1>2, OneHolder DEF Inv
  <2>2. ~UserInit(u)
    BY <1>2 DEF SerialInv, Holding, Reopening, InFile, InCut, InInit
  <2> QED
    BY <2>1, <2>2
<1> QED
  BY <1>1, <1>2

\* g_log_fd and the open streams agree after a step.
LEMMA StreamNext ==
  ASSUME SerialInit, Inv, SerialInv, StreamInv, NEW t \in Thread, Step(t) \/ Call(t)
  PROVE  StreamInv'
<1> DEFINE Dangling == \E u \in Thread : UserInit(u) /\ pc[u] = "init_open"
<1>0. ThreadOK /\ ThreadOK' /\ LockInv /\ FileInv
  BY ThreadNext DEF Inv, TypeOK
<1>1. ~UseClosed(t) /\ ~StringRace(t)
  BY NoUndefined
<1>2. ~ub'
  BY <1>1, Frame DEF StreamInv
<1>3. ASSUME Holding(t) \/ UserInit(t), NEW u \in Thread \ {t} PROVE ThreadStream(u)'
  <2>1. ~Holding(u)' /\ ~UserInit(u)'
    BY <1>0, <1>3, Alone, Others DEF Holding, UserInit, Reopening
  <2> QED
    BY <1>0, <2>1, ArgBack, Others
       DEF ThreadStream, Holding, UserInit, Reopening, InInit
<1>4. CASE InitClose(t)
  <2>1. Holding(t) \/ UserInit(t)
    BY <1>0, <1>4, ArgBack DEF InitClose, At, Holding, Reopening, UserInit, InInit
  <2>2. g_log_fd' = g_log_fd /\ streams' = {}
    <3>1. CASE g_log_fd = NULL
      BY <1>4, <3>1, NullNoStream, NullFacts DEF InitClose, config, stdio, Inv, TypeOK, StdioOK
    <3>2. CASE g_log_fd # NULL
      BY <1>0, <1>4, <3>2 DEF InitClose, Fclose, config, FileInv, StreamInv
    <3> QED
      BY <3>1, <3>2
  <2>3. ThreadStream(t)' /\ (g_log_fd' # NULL => Dangling')
    <3>1. pc'[t] = "init_open" /\ arg'[t] = arg[t] /\ pc[t] = "init_close"
      BY <1>0, <1>4 DEF InitClose, At, Goto, ThreadOK
    <3>2. Reopening(t) => g_log_fd = NULL
      BY <3>1 DEF StreamInv
    <3>3. CASE UserInit(t)
      BY <2>2, <3>1, <3>3 DEF UserInit, ThreadStream, Reopening, InFile, InCut, InInit
    <3>4. CASE Reopening(t)
      BY <2>2, <3>1, <3>2, <3>4 DEF ThreadStream, Reopening, InFile, InCut, InInit
    <3> QED
      BY <1>0, <3>1, <3>3, <3>4, ArgBack DEF UserInit, Reopening, InInit
  <2> QED
    BY <1>2, <1>3, <2>1, <2>2, <2>3 DEF StreamInv, ThreadStream
<1>5. CASE InitOpen(t)
  <2>1. Holding(t) \/ UserInit(t)
    BY <1>0, <1>5, ArgBack DEF InitOpen, At, Holding, Reopening, UserInit, InInit
  <2>2. streams = {}
    BY <1>5 DEF InitOpen, At, StreamInv
  <2>3. \/ g_log_fd' # NULL /\ streams' = {g_log_fd'} /\ pc'[t] = "init_set"
        \/ g_log_fd' = NULL /\ streams' = {} /\ pc'[t] \in {"idle", "finish"}
    BY <1>0, <1>5, <2>2, ArgBack, NullFacts
       DEF InitOpen, Fopen, Goto, Return, ThreadOK, stdio
  <2>4. ThreadStream(t)'
    BY <2>3 DEF ThreadStream, Reopening, InFile, InCut, InInit
  <2> QED
    BY <1>2, <1>3, <2>1, <2>3, <2>4 DEF StreamInv, ThreadStream
<1>6. CASE CloseLog(t)
  <2>1. Holding(t)
    BY <1>6 DEF CloseLog, At, Holding, InFile
  <2>2. g_log_fd' = NULL /\ streams' = {}
    BY <1>6 DEF CloseLog, Fclose, StreamInv
  <2>3. ThreadStream(t)'
    BY <1>0, <1>6, <2>2 DEF CloseLog, Goto, ThreadOK, ThreadStream, Reopening, InFile,
                            InCut, InInit
  <2> QED
    BY <1>2, <1>3, <2>1, <2>2, <2>3 DEF StreamInv, ThreadStream
<1>7. ASSUME ~InitClose(t), ~InitOpen(t), ~CloseLog(t) PROVE StreamInv'
  <2>1. UNCHANGED <<g_log_fd, streams>>
    BY <1>7, StreamFrame
  <2>2. \A u \in Thread : ThreadStream(u)'
    <3>1. ASSUME NEW u \in Thread, u # t PROVE ThreadStream(u)'
      BY <1>0, <2>1, <3>1, Others DEF StreamInv, ThreadStream, Reopening
    <3>2. ThreadStream(t)'
      BY <1>1, <1>7, StreamMove
    <3> QED
      BY <3>1, <3>2
  <2>3. ASSUME Dangling PROVE Dangling'
    <3>1. PICK u \in Thread : UserInit(u) /\ pc[u] = "init_open"
      BY <2>3
    <3>2. u = t
      BY <3>1, SerialAlone
    <3>3. FALSE
      BY <1>1, <1>7, <3>1, <3>2 DEF Step, Call, LogCall, InitCall, InitSet, Lock, FHead,
           FBody, Finish, THead, TBody, Unlock, Stat, Stat2, OpenLog, Mkstemp,
           CopyOut, Truncate, CopyBack, Ending, At
    <3> QED
      BY <3>3
  <2> QED
    BY <1>2, <2>1, <2>2, <2>3 DEF StreamInv, ThreadStream
<1> QED
  BY <1>4, <1>5, <1>6, <1>7

\* The strengthened invariant of a program that serialises log_init.
THEOREM SafeInvCorrect ==
  ASSUME SerialInit
  PROVE  Spec => []SafeInv
<1>1. Init => SafeInv
  <2> SUFFICES ASSUME Init PROVE SafeInv
    OBVIOUS
  <2>1. SerialInv /\ StreamInv
    BY DEF Init, SerialInv, StreamInv, UserInit, Reopening, InFile, InCut, InInit
  <2> QED
    BY <2>1, InvInit DEF SafeInv
<1>2. SafeInv /\ [Next]_vars => SafeInv'
  <2> SUFFICES ASSUME SafeInv, [Next]_vars PROVE SafeInv'
    OBVIOUS
  <2>1. Inv'
    BY InvNext DEF SafeInv
  <2>2. CASE UNCHANGED vars
    BY <2>1, <2>2 DEF vars, config, stdio, SafeInv, SerialInv, StreamInv, UserInit, Reopening
  <2>3. ASSUME NEW t \in Thread, Step(t) \/ Call(t) PROVE SerialInv' /\ StreamInv'
    BY <2>3, SerialNext, StreamNext DEF SafeInv, Inv, TypeOK
  <2> QED
    BY <2>1, <2>2, <2>3 DEF Next, SafeInv
<1> QED
  BY <1>1, <1>2, PTL DEF Spec

\* Thread safety of the streams: a program that calls log_init only while no
\* other thread is in the logger never hands stdio a closed or null FILE,
\* whatever interleaving and whatever failures occur in check_file_size.
THEOREM StreamSafety ==
  ASSUME SerialInit
  PROVE  Spec => []StreamSafe
<1>1. SafeInv => StreamSafe
  BY DEF SafeInv, StreamInv, StreamSafe
<1> QED
  BY <1>1, SafeInvCorrect, PTL

\* Such a program never leaks a FILE: each error exit of check_file_size and
\* of log_init leaves at most the stream g_log_fd designates open.
THEOREM NoLeak ==
  ASSUME SerialInit
  PROVE  Spec => []NoStreamLeak
<1>1. SafeInv => NoStreamLeak
  BY DEF SafeInv, StreamInv, NoStreamLeak
<1> QED
  BY <1>1, SafeInvCorrect, PTL

\* Records of several threads are never interleaved or torn on the terminal,
\* however log_init races with them: the mutex of __log alone suffices.
THEOREM TerminalCorrect == Spec => []TerminalWhole
<1>1. Inv => TerminalWhole
  BY DEF Inv, TermInv, TerminalWhole
<1> QED
  BY <1>1, InvCorrect, PTL

-----------------------------------------------------------------------------
(* The log files                                                           *)

\* While a thread is inside log_init or the critical section, every other one
\* is outside the logger, or waits for the mutex.
LEMMA AloneAt ==
  ASSUME SafeInv, NEW t \in Thread, pc[t] \notin {"idle", "lock"},
         NEW u \in Thread \ {t}
  PROVE  pc[u] \in {"idle", "lock"}
<1>1. \A v \in Thread : Holding(v) \/ UserInit(v) \/ pc[v] \in {"idle", "lock"}
  BY ArgBack
     DEF SafeInv, Inv, TypeOK, ThreadOK, PC, Holding, UserInit, Reopening, InInit
<1>2. ~Holding(u) /\ ~UserInit(u)
  BY <1>1, Alone DEF SafeInv
<1> QED
  BY <1>1, <1>2

\* Nothing undefined happens.
LEMMA Defined ==
  ASSUME SafeInv, NEW t \in Thread
  PROVE  ~UseClosed(t) /\ ~StringRace(t)
BY NoUndefined DEF SafeInv

\* The part of the state that tells whether the log is open changes only when
\* it is closed or opened.
LEMMA OpenFrame ==
  ASSUME NEW t \in Thread, Step(t) \/ Call(t),
         ~InitClose(t), ~InitOpen(t), ~CloseLog(t)
  PROVE  UNCHANGED <<g_log_file, g_log_fd, streams, path>>
BY Frame
   DEF config, stdio, InitSet, FHead, FBody, Fprintf, THead, TBody, Printf, Truncate,
       CopyBack

-----------------------------------------------------------------------------
(* The log stays open                                                      *)

\* The log of the last log_init is open after a step, or on its way there.
LEMMA OpenNext ==
  ASSUME SerialInit, SafeInv, OpenInv, NEW t \in Thread, Step(t) \/ Call(t)
  PROVE  OpenInv'
<1> SUFFICES ASSUME dest' # NULL, Faults \cap {"fopen", "stat2"} = {}, Handle # {}
             PROVE  OpenInv'
  BY DEF OpenInv
<1> DEFINE Args == \A u \in Thread : pc[u] \in InInit => arg[u].log_file = dest
           Entering == \E u \in Thread : UserInit(u) /\ pc[u] # "init_set"
           Closed == \E u \in Thread : pc[u] \in InCut \cup (InInit \ {"init_set"})
           Open == g_log_fd \in streams /\ path[g_log_fd] = dest
<1>1. ThreadOK /\ StdioOK /\ StreamInv
  BY DEF SafeInv, Inv, TypeOK
<1>2. OpenInv' <=> Args' /\ (Entering' \/ g_log_file' = dest') /\ (Closed' \/ Open')
  BY DEF OpenInv
<1>3. dest # NULL => Args /\ (Entering \/ g_log_file = dest) /\ (Closed \/ Open)
  BY DEF OpenInv
<1>4. pc[t] \notin {"idle", "lock"} =>
        \A u \in Thread \ {t} : pc'[u] = pc[u] /\ pc[u] \in {"idle", "lock"}
  BY <1>1, AloneAt, Others
<1> USE DEF At, Goto, UserInit, InCut, InInit
<1>5. CASE \E level \in Level, log_file \in File \cup {NULL}, max_mb \in MaxMb :
             InitCall(t, level, log_file, max_mb)
  <2>1. PICK level \in Level, log_file \in File \cup {NULL}, max_mb \in MaxMb :
          InitCall(t, level, log_file, max_mb)
    BY <1>5
  <2>2. /\ pc'[t] = "init_close" /\ arg'[t].log_file = dest' /\ arg'[t].back = "idle"
        /\ \A u \in Thread \ {t} : pc'[u] = "idle"
    BY <1>1, <2>1 DEF InitCall, ThreadOK
  <2> QED
    BY <1>2, <2>2
<1>6. ASSUME ~\E level \in Level, log_file \in File \cup {NULL}, max_mb \in MaxMb :
               InitCall(t, level, log_file, max_mb)
      PROVE  OpenInv'
  <2>1. dest' = dest /\ dest # NULL
    BY <1>6, Frame DEF counters, Call, LogCall
  <2>2. CASE InitClose(t)
    <3>1. /\ pc[t] = "init_close" /\ pc'[t] = "init_open" /\ arg' = arg
          /\ g_log_file' = g_log_file
      BY <1>1, <2>2 DEF InitClose, ThreadOK, config
    <3> QED
      BY <1>2, <1>3, <1>4, <2>1, <3>1
  <2>3. CASE InitOpen(t)
    <3>1. pc[t] = "init_open" /\ g_log_file' = arg[t].log_file /\ streams # Handle
      BY <1>1, <2>3 DEF InitOpen, StreamInv
    <3>2. PICK h \in Handle : /\ Fopen(h, arg[t].log_file) /\ g_log_fd' = h
                              /\ pc'[t] = "init_set" /\ arg' = arg
      BY <1>1, <2>3, <3>1 DEF InitOpen, ThreadOK
    <3>3. Open'
      BY <1>1, <1>3, <2>1, <3>1, <3>2 DEF Fopen, StdioOK
    <3>4. Args'
      BY <1>3, <1>4, <2>1, <3>1, <3>2
    <3> QED
      BY <1>2, <1>3, <2>1, <3>1, <3>3, <3>4
  <2>4. CASE InitSet(t)
    <3>1. pc[t] = "init_set" /\ pc'[t] \in {"idle", "finish"}
      BY <1>1, <2>4, ArgBack DEF InitSet, Return, ThreadOK
    <3>2. ~Entering /\ ~Closed
      BY <1>4, <3>1
    <3>3. UNCHANGED <<g_log_file, g_log_fd, streams, path>>
      BY <2>4 DEF InitSet, stdio
    <3> QED
      BY <1>2, <1>3, <1>4, <2>1, <3>1, <3>2, <3>3
  <2>5. CASE \/ CloseLog(t) \/ Stat2(t) \/ OpenLog(t) \/ Mkstemp(t) \/ CopyOut(t)
             \/ Truncate(t) \/ CopyBack(t)
    <3>1. pc[t] \in {"close"} \cup InCut /\ pc'[t] \in InCut
      BY <1>1, <2>5
         DEF CloseLog, Stat2, OpenLog, Mkstemp, CopyOut, Truncate, CopyBack, ThreadOK
    <3>2. g_log_file' = g_log_file
      BY <2>5 DEF CloseLog, Stat2, OpenLog, Mkstemp, CopyOut, Truncate, CopyBack, config
    <3> QED
      BY <1>2, <1>3, <1>4, <2>1, <3>1, <3>2
  <2>6. CASE Ending(t)
    <3>1. /\ pc[t] = "ending" /\ pc'[t] = "init_close"
          /\ arg'[t].log_file = g_log_file /\ g_log_file' = g_log_file
      BY <1>1, <2>6 DEF Ending, ThreadOK, config
    <3> QED
      BY <1>2, <1>3, <1>4, <2>1, <3>1
  <2>7. ASSUME ~InitClose(t), ~InitOpen(t), ~InitSet(t), ~CloseLog(t), ~Stat2(t),
               ~OpenLog(t), ~Mkstemp(t), ~CopyOut(t), ~Truncate(t), ~CopyBack(t),
               ~Ending(t)
        PROVE  OpenInv'
    <3>1. pc[t] \notin InCut \cup InInit /\ pc'[t] \notin InCut \cup InInit
      BY <1>1, <1>6, <2>7, Defined
         DEF Step, Call, LogCall, Lock, FHead, FBody, Finish, THead, TBody, Unlock,
             Stat, ThreadOK
    <3>2. UNCHANGED <<g_log_file, g_log_fd, streams, path>>
      BY <2>7, OpenFrame
    <3>3. \A u \in Thread \ {t} : pc'[u] = pc[u] /\ arg'[u] = arg[u]
      BY <1>1, Others
    <3>4. Args' /\ (Entering <=> Entering') /\ (Closed <=> Closed')
      BY <1>3, <2>1, <3>1, <3>3
    <3> QED
      BY <1>2, <1>3, <2>1, <3>2, <3>4
  <2> QED
    BY <2>2, <2>3, <2>4, <2>5, <2>6, <2>7
<1> QED
  BY <1>5, <1>6

-----------------------------------------------------------------------------
(* The cut                                                                 *)

\* While a thread holds the mutex or is inside log_init, another one can at
\* most count a call of __log.
LEMMA Bystander ==
  ASSUME SerialInit, SafeInv, NEW t \in Thread, Step(t) \/ Call(t),
         NEW u \in Thread \ {t}, pc[u] \notin {"idle", "lock"}
  PROVE  UNCHANGED <<config, mutex, cutting, check_tick, arg, stdio>>
<1>1. pc[t] \in {"idle", "lock"}
  BY AloneAt
<1>2. Holding(u) \/ UserInit(u)
  BY ArgBack
     DEF SafeInv, Inv, TypeOK, ThreadOK, PC, Holding, UserInit, Reopening, InInit
<1>3. ~Lock(t)
  <2>1. CASE Holding(u)
    BY <2>1, NullFacts DEF Lock, SafeInv, Inv, LockInv
  <2>2. CASE UserInit(u)
    BY <2>2, SerialAlone DEF SafeInv
  <2> QED
    BY <1>2, <2>1, <2>2
<1>4. PICK level \in Level : LogCall(t, level)
  BY <1>1, <1>3, Defined
     DEF Step, Call, InitCall, InitClose, InitOpen, InitSet, FHead, FBody, Finish,
         THead, TBody, Unlock, Stat, CloseLog, Stat2, OpenLog, Mkstemp, CopyOut,
         Truncate, CopyBack, Ending, At
<1> QED
  BY <1>4 DEF LogCall

\* What a transfer that stays inside a file reads.
LEMMA SentUnits ==
  ASSUME NEW s \in Seq(Unit), NEW off \in Nat, NEW n \in Nat, off + n <= Len(s),
         NEW k \in 0..n
  PROVE  /\ Sent(s, off, n, k) = SubSeq(s, off + 1, off + n - k)
         /\ Len(Sent(s, off, n, k)) = n - k
<1>1. Len(s) \in Nat
  OBVIOUS
<1>2. (IF off + n < Len(s) THEN off + n ELSE Len(s)) = off + n
  BY <1>1
<1> QED
  BY <1>1, <1>2 DEF Sent

\* A transfer falls short by no more than it was asked for.
LEMMA ShortfallType ==
  ASSUME NEW n \in Nat, NEW k \in Shortfall(n)
  PROVE  k \in 0..n
BY DEF Shortfall

\* CutInv for one thread.
ThreadCut(u) ==
  /\ pc[u] \in {"mkstemp", "copy_out", "truncate", "copy_back"} => fd_log = g_log_file
  /\ pc[u] \in {"open", "mkstemp", "copy_out", "truncate"}
       => LET size == Len(disk[g_log_file]) IN
          half_point = size \div 2 /\ len = size - size \div 2
  /\ pc[u] = "truncate" =>
       \E k \in Shortfall(len) : tmp = Sent(disk[g_log_file], half_point, len, k)
  /\ pc[u] = "copy_back" => disk[g_log_file] = <<>> /\ Len(tmp) <= len
  /\ pc[u] = "copy_back" /\ "short" \notin Faults => Len(tmp) = len

\* What the temporary file holds when the log is truncated.
LEMMA TmpUnits ==
  ASSUME SafeInv, CutInv, NEW t \in Thread, pc[t] = "truncate"
  PROVE  LET size == Len(disk[g_log_file]) IN
         /\ g_log_file \in File /\ fd_log = g_log_file /\ size \in Nat
         /\ size \div 2 \in Nat /\ size \div 2 <= size /\ len = size - size \div 2
         /\ \E k \in 0..len :
              /\ tmp = SubSeq(disk[g_log_file], size \div 2 + 1, size - k)
              /\ Len(tmp) = len - k
              /\ "short" \notin Faults => k = 0
<1> DEFINE s == disk[g_log_file]
           h == Len(s) \div 2
<1>1. g_log_file \in File
  BY DEF SafeInv, Inv, TypeOK, ConfigOK, FileInv, InCut
<1>2. s \in Seq(Unit) /\ Len(s) \in Nat
  BY <1>1, LenProperties DEF SafeInv, Inv, TypeOK, StdioOK
<1>3. fd_log = g_log_file /\ half_point = h /\ len = Len(s) - h
  BY DEF CutInv
<1>4. PICK k \in Shortfall(len) : tmp = Sent(s, half_point, len, k)
  BY DEF CutInv
<1> HIDE DEF s
<1>5. h \in Nat /\ h <= Len(s)
  BY <1>2
<1> HIDE DEF h
<1>6. len \in Nat /\ half_point + len = Len(s)
  BY <1>2, <1>3, <1>5
<1>7. k \in 0..len /\ ("short" \notin Faults => k = 0)
  BY <1>4, <1>6, ShortfallType DEF Shortfall
<1>8. tmp = SubSeq(s, h + 1, Len(s) - k) /\ Len(tmp) = len - k
  <2>1. h + len <= Len(s) /\ h + len - k = Len(s) - k
    BY <1>2, <1>3, <1>5, <1>6, <1>7
  <2>2. tmp = Sent(s, h, len, k)
    BY <1>3, <1>4
  <2>3. tmp = SubSeq(s, h + 1, h + len - k) /\ Len(tmp) = len - k
    <3>1. s \in Seq(Unit) /\ h \in Nat /\ len \in Nat /\ h + len <= Len(s) /\ k \in 0..len
      BY <1>2, <1>5, <1>6, <1>7, <2>1
    <3> QED
      BY <2>2, <3>1, SentUnits
  <2> QED
    BY <2>1, <2>3
<1> QED
  BY <1>1, <1>2, <1>3, <1>5, <1>6, <1>7, <1>8 DEF h, s

\* A step of the cut keeps the file and its copy in step.
LEMMA CutNext ==
  ASSUME SerialInit, SafeInv, CutInv, NEW t \in Thread, Step(t) \/ Call(t)
  PROVE  CutInv'
<1>1. ThreadOK /\ StdioOK /\ ConfigOK /\ FileInv /\ ThreadCut(t)
  BY DEF SafeInv, Inv, TypeOK, CutInv, ThreadCut
<1> DEFINE Cutting == {"open", "mkstemp", "copy_out", "truncate", "copy_back"}
<1>2. ASSUME NEW u \in Thread \ {t} PROVE ThreadCut(u)'
  <2>1. pc'[u] = pc[u]
    BY <1>1, Others
  <2>2. CASE pc[u] \in {"idle", "lock"}
    BY <2>1, <2>2 DEF ThreadCut
  <2>3. CASE pc[u] \notin {"idle", "lock"}
    <3>1. UNCHANGED <<config, cutting, stdio>>
      BY <2>3, Bystander
    <3>2. ThreadCut(u)
      BY DEF CutInv, ThreadCut
    <3> QED
      BY <2>1, <3>1, <3>2 DEF ThreadCut, config, cutting, stdio
  <2> QED
    BY <2>2, <2>3
<1> USE DEF At, Goto, ThreadOK
<1>3. ThreadCut(t)'
  <2>1. CASE Stat2(t)
    <3>1. \/ pc'[t] = "finish"
          \/ /\ pc'[t] = "open"
             /\ half_point' = Len(disk[g_log_file]) \div 2
             /\ len' = Len(disk[g_log_file]) - Len(disk[g_log_file]) \div 2
      BY <1>1, <2>1 DEF Stat2
    <3>2. disk' = disk /\ g_log_file' = g_log_file
      BY <2>1 DEF Stat2, stdio, config
    <3> QED
      BY <3>1, <3>2 DEF ThreadCut
  <2>2. CASE OpenLog(t)
    BY <1>1, <2>2 DEF OpenLog, ThreadCut, stdio, config
  <2>3. CASE Mkstemp(t)
    BY <1>1, <2>3 DEF Mkstemp, ThreadCut, stdio, config
  <2>4. CASE CopyOut(t)
    <3>1. /\ pc[t] = "copy_out" /\ pc'[t] \in {"ending", "truncate"}
          /\ UNCHANGED <<disk, g_log_file, fd_log, half_point, len>>
      BY <1>1, <2>4 DEF CopyOut, stdio, config
    <3>2. pc'[t] = "truncate" =>
            \E k \in Shortfall(len) : tmp' = Sent(disk[fd_log], half_point, len, k)
      BY <1>1, <2>4 DEF CopyOut
    <3>3. Shortfall(len)' = Shortfall(len)
      BY <3>1 DEF Shortfall
    <3> QED
      BY <1>1, <3>1, <3>2, <3>3 DEF ThreadCut
  <2>5. CASE Truncate(t)
    <3>1. /\ pc[t] = "truncate" /\ pc'[t] \in {"ending", "copy_back"}
          /\ UNCHANGED <<g_log_file, fd_log, tmp, len>>
      BY <1>1, <2>5 DEF Truncate, cutting, config
    <3>2. pc'[t] = "copy_back" => disk' = [disk EXCEPT ![fd_log] = <<>>]
      BY <1>1, <2>5 DEF Truncate
    <3>3. /\ g_log_file \in File /\ fd_log = g_log_file /\ len \in Nat
          /\ Len(tmp) <= len /\ ("short" \notin Faults => Len(tmp) = len)
      <4>1. PICK k \in 0..len :
              Len(tmp) = len - k /\ ("short" \notin Faults => k = 0)
        BY <3>1, TmpUnits
      <4>2. g_log_file \in File /\ fd_log = g_log_file /\ len \in Nat
        BY <3>1, TmpUnits DEF SafeInv, Inv, TypeOK, CuttingOK
      <4> QED
        BY <4>1, <4>2
    <3> QED
      BY <1>1, <3>1, <3>2, <3>3 DEF ThreadCut, StdioOK
  <2>6. ASSUME ~Stat2(t), ~OpenLog(t), ~Mkstemp(t), ~CopyOut(t), ~Truncate(t)
        PROVE  ThreadCut(t)'
    <3>1. pc'[t] \notin Cutting
      <4>1. CASE InitOpen(t) \/ InitSet(t)
        BY <1>1, <4>1, ArgBack DEF InitOpen, InitSet, Return
      <4>2. CASE Call(t)
        BY <1>1, <4>2 DEF Call, LogCall, InitCall
      <4>3. CASE \/ InitClose(t) \/ Lock(t) \/ FHead(t) \/ FBody(t) \/ Finish(t)
                 \/ THead(t) \/ TBody(t) \/ Unlock(t) \/ Stat(t) \/ CloseLog(t)
                 \/ CopyBack(t) \/ Ending(t)
        BY <1>1, <4>3
           DEF InitClose, Lock, FHead, FBody, Finish, THead, TBody, Unlock, Stat,
               CloseLog, CopyBack, Ending
      <4> QED
        BY <2>6, <4>1, <4>2, <4>3, Defined DEF Step
    <3> QED
      BY <3>1 DEF ThreadCut
  <2> QED
    BY <2>1, <2>2, <2>3, <2>4, <2>5, <2>6
<1> QED
  BY <1>2, <1>3 DEF CutInv, ThreadCut

-----------------------------------------------------------------------------
(* What a log file holds                                                   *)

\* A thread is about to write back what it cut off f.
BackDue(f) == \E u \in Thread : pc[u] = "copy_back" /\ fd_log = f

\* What of f is still in the stdio buffer.
Buffered(f) == IF g_log_fd \in streams /\ path[g_log_fd] = f THEN buf[g_log_fd] ELSE <<>>

\* The file on the disk, or its copy, followed by the buffer.
LEMMA ContentParts ==
  ASSUME SafeInv, NEW f \in File
  PROVE  /\ Content(f) = (IF BackDue(f) THEN tmp ELSE disk[f]) \o Buffered(f)
         /\ Buffered(f) \in Seq(Unit) /\ disk[f] \in Seq(Unit) /\ tmp \in Seq(Unit)
         /\ Content(f) \in Seq(Unit)
<1>1. disk[f] \in Seq(Unit) /\ tmp \in Seq(Unit)
  BY DEF SafeInv, Inv, TypeOK, StdioOK, CuttingOK
<1>2. Buffered(f) \in Seq(Unit)
  BY EmptySeq DEF Buffered, SafeInv, Inv, TypeOK, StdioOK
<1>3. Content(f) = (IF BackDue(f) THEN tmp ELSE disk[f]) \o Buffered(f)
  BY DEF Content, BackDue, Buffered
<1> QED
  BY <1>1, <1>2, <1>3, ConcatProperties

\* Nobody is writing a copy back while a thread is elsewhere inside the logger.
LEMMA NoBackDue ==
  ASSUME SafeInv, NEW t \in Thread, pc[t] \notin {"idle", "lock", "copy_back"},
         NEW f \in File
  PROVE  ~BackDue(f)
BY AloneAt DEF BackDue

\* Appending to the buffer appends to the contents.
LEMMA AppendConcat ==
  ASSUME NEW a \in Seq(Unit), NEW b \in Seq(Unit), NEW u \in Unit
  PROVE  a \o Append(b, u) = Append(a \o b, u)
<1> DEFINE r == <<u>>
<1>1. r \in Seq(Unit)
  OBVIOUS
<1>2. Append(b, u) = b \o r
  BY AppendIsConcat
<1> HIDE DEF r
<1>3. (a \o b) \o r = a \o (b \o r)
  BY <1>1, ConcatAssociative
<1>4. a \o b \in Seq(Unit)
  BY ConcatProperties
<1> QED
  BY <1>2, <1>3, <1>4, AppendIsConcat DEF r

\* fprintf adds its unit at the end of the log and leaves other files alone.
LEMMA ContentWrite ==
  ASSUME SerialInit, SafeInv, SafeInv', NEW t \in Thread, FHead(t) \/ FBody(t),
         NEW u \in Unit, Fprintf(g_log_fd, u), NEW f \in File
  PROVE  /\ path[g_log_fd] \in File /\ path' = path /\ g_log_fd' = g_log_fd
         /\ Content(f)' = IF f = path[g_log_fd] THEN Append(Content(f), u)
                          ELSE Content(f)
<1> DEFINE h == g_log_fd
<1>1. StdioOK /\ FileInv /\ ThreadOK
  BY DEF SafeInv, Inv, TypeOK
<1>2. /\ h \in streams /\ h \in Handle /\ g_log_fd' = h
      /\ UNCHANGED <<streams, path>>
  BY <1>1 DEF FHead, FBody, Fprintf, config, StdioOK
<1>3. path[h] \in File /\ buf[h] \in Seq(Unit)
  BY <1>1, <1>2 DEF StdioOK, FileInv
<1>4. ~BackDue(f) /\ ~BackDue(f)'
  <2>1. pc[t] \in {"fhead", "fbody"} /\ pc'[t] \in {"fbody", "stat", "finish"}
    BY <1>1 DEF FHead, FBody, At, Goto, ThreadOK
  <2> QED
    BY <2>1, NoBackDue, AloneAt, <1>1, Others DEF BackDue, Step
<1>5. Content(f) = disk[f] \o Buffered(f) /\ Content(f)' = disk'[f] \o Buffered(f)'
  BY <1>4, ContentParts DEF Content, BackDue, Buffered
<1>6. disk[f] \in Seq(Unit) /\ <<u>> \in Seq(Unit)
  BY <1>1 DEF StdioOK
<1>7. CASE f = path[h]
  <2>1. Buffered(f) = buf[h] /\ Buffered(f)' = buf'[h]
    BY <1>2, <1>7 DEF Buffered
  <2>2. CASE Len(buf[h]) >= BufCap
    <3>1. disk'[f] = disk[f] \o buf[h] /\ buf'[h] = <<u>>
      BY <1>1, <1>2, <1>7, <2>2 DEF Fprintf, StdioOK
    <3>2. disk[f] \o buf[h] \in Seq(Unit)
      BY <1>3, <1>6, ConcatProperties
    <3>3. (disk[f] \o buf[h]) \o <<u>> = Append(disk[f] \o buf[h], u)
      BY <3>2, AppendIsConcat
    <3> QED
      BY <1>2, <1>3, <1>5, <1>7, <2>1, <3>1, <3>3
  <2>3. CASE ~(Len(buf[h]) >= BufCap)
    <3>1. disk' = disk /\ buf'[h] = Append(buf[h], u)
      BY <1>1, <1>2, <2>3 DEF Fprintf, StdioOK
    <3>2. disk[f] \o Append(buf[h], u) = Append(disk[f] \o buf[h], u)
      BY <1>3, <1>6, AppendConcat
    <3> QED
      BY <1>2, <1>3, <1>5, <1>7, <2>1, <3>1, <3>2
  <2> QED
    BY <2>2, <2>3
<1>8. CASE f # path[h]
  <2>1. Buffered(f) = <<>> /\ Buffered(f)' = <<>> /\ disk'[f] = disk[f]
    BY <1>1, <1>2, <1>3, <1>8 DEF Buffered, Fprintf, StdioOK
  <2> QED
    BY <1>2, <1>3, <1>5, <1>8, <2>1
<1> QED
  BY <1>7, <1>8

\* Truncating the log moves its contents to the temporary file.
LEMMA ContentTruncate ==
  ASSUME SerialInit, SafeInv, SafeInv', CutInv, NEW t \in Thread, Truncate(t),
         NEW f \in File
  PROVE  \/ /\ Content(f)' = Content(f)
            /\ f # g_log_file \/ "truncate" \in Faults
         \/ /\ f = g_log_file /\ Content(f) = disk[f] /\ Content(f)' = tmp
            /\ pc[t] = "truncate"
<1>1. StdioOK /\ ThreadOK /\ pc[t] = "truncate" /\ fd_log = g_log_file /\ fd_log' = fd_log
  BY DEF SafeInv, Inv, TypeOK, CutInv, Truncate, At, cutting
<1>2. /\ UNCHANGED <<g_log_fd, streams, path, buf, tmp>>
      /\ g_log_fd \notin streams
  BY <1>1, NullNoStream DEF Truncate, config, cutting, SafeInv, StreamInv, InCut
<1>3. Buffered(f) = <<>> /\ Buffered(f)' = <<>>
  BY <1>2 DEF Buffered
<1>4. ~BackDue(f)
  BY <1>1, NoBackDue
<1>5. Content(f) = disk[f]
  BY <1>3, <1>4, ContentParts, ConcatEmptySeq
<1>6. Content(f)' = (IF BackDue(f)' THEN tmp ELSE disk'[f]) \o <<>>
  BY <1>2, <1>3 DEF Content, BackDue, Buffered
<1>7. disk'[f] \in Seq(Unit) /\ tmp \in Seq(Unit)
  BY DEF SafeInv, Inv, TypeOK, StdioOK, CuttingOK
<1>8. Content(f)' = IF BackDue(f)' THEN tmp ELSE disk'[f]
  BY <1>6, <1>7, ConcatEmptySeq
<1>9. BackDue(f)' => pc'[t] = "copy_back" /\ fd_log = f
  <2>1. \A u \in Thread \ {t} : pc'[u] \in {"idle", "lock"}
    BY <1>1, AloneAt, Others DEF Step
  <2> QED
    BY <1>1, <2>1 DEF BackDue
<1>10. ~BackDue(f)' => disk'[f] = disk[f]
  <2>1. pc'[t] # "copy_back" => disk' = disk
    BY <1>1 DEF Truncate, Goto, ThreadOK
  <2> QED
    BY <1>1, <2>1 DEF BackDue, Truncate, StdioOK
<1>11. pc'[t] = "copy_back" \/ "truncate" \in Faults
  BY <1>1 DEF Truncate, Goto, ThreadOK
<1>12. pc'[t] = "copy_back" /\ f = g_log_file => BackDue(f)'
  BY <1>1 DEF BackDue
<1> QED
  BY <1>1, <1>5, <1>8, <1>9, <1>10, <1>11, <1>12

\* Writing the copy back restores the contents, all of them or the oldest.
LEMMA ContentBack ==
  ASSUME SerialInit, SafeInv, SafeInv', CutInv, NEW t \in Thread, CopyBack(t),
         NEW f \in File
  PROVE  \/ Content(f)' = Content(f)
         \/ /\ f = g_log_file /\ Content(f) = tmp
            /\ \/ "copy_back" \in Faults /\ Content(f)' = <<>>
               \/ \E k \in Shortfall(Len(tmp)) : Content(f)' = Sent(tmp, 0, len, k)
<1>1. /\ StdioOK /\ ThreadOK /\ CuttingOK /\ pc[t] = "copy_back"
      /\ fd_log = g_log_file /\ disk[g_log_file] = <<>> /\ Len(tmp) <= len
  BY DEF SafeInv, Inv, TypeOK, CutInv, CopyBack, At
<1>2. UNCHANGED <<g_log_fd, streams, path, buf>> /\ g_log_fd \notin streams
  BY <1>1, NullNoStream DEF CopyBack, config, SafeInv, StreamInv, InCut
<1>3. Buffered(f) = <<>> /\ Buffered(f)' = <<>>
  BY <1>2 DEF Buffered
<1>4. BackDue(f) <=> f = g_log_file
  BY <1>1, AloneAt DEF BackDue
<1>5. Content(f) = IF f = g_log_file THEN tmp ELSE disk[f]
  BY <1>3, <1>4, ContentParts, ConcatEmptySeq
<1>6. \A u \in Thread : pc'[u] # "copy_back"
  BY <1>1, AloneAt, Others DEF CopyBack, Goto, ThreadOK, Step
<1>7. disk'[f] \in Seq(Unit)
  BY DEF SafeInv, Inv, TypeOK, StdioOK
<1>8. Content(f)' = disk'[f]
  BY <1>3, <1>6, <1>7, ConcatEmptySeq DEF Content, Buffered
<1>9. CASE f # g_log_file
  BY <1>1, <1>5, <1>8, <1>9 DEF CopyBack, StdioOK
<1>10. CASE f = g_log_file
  <2>1. CASE UNCHANGED disk /\ "copy_back" \in Faults
    BY <1>1, <1>5, <1>8, <1>10, <2>1
  <2>2. ASSUME NEW k \in Shortfall(Len(tmp)),
               disk' = [disk EXCEPT ![fd_log] = Overlay(@, Sent(tmp, 0, len, k))]
        PROVE  Content(f)' = Sent(tmp, 0, len, k)
    <3>1. disk'[f] = Overlay(<<>>, Sent(tmp, 0, len, k))
      BY <1>1, <1>10, <2>2 DEF StdioOK
    <3>2. tmp \in Seq(Unit) /\ len \in Nat /\ k \in Nat
      BY <1>1, <2>2, ShortfallType, LenProperties DEF CuttingOK
    <3>3. Sent(tmp, 0, len, k) \in Seq(Unit)
      BY <3>2, SentType
    <3>4. Overlay(<<>>, Sent(tmp, 0, len, k)) = Sent(tmp, 0, len, k)
      <4> DEFINE w == Sent(tmp, 0, len, k)
      <4>1. Len(w) \in Nat /\ w \in Seq(Unit)
        BY <3>3, LenProperties
      <4> HIDE DEF w
      <4>2. SubSeq(<<>>, Len(w) + 1, 0) = <<>>
        BY <4>1, SubSeqEmpty
      <4>3. Overlay(<<>>, w) = w
        BY <4>1, <4>2, EmptySeq, ConcatEmptySeq DEF Overlay
      <4> QED
        BY <4>3 DEF w
    <3> QED
      BY <1>8, <3>1, <3>4
  <2> QED
    BY <1>1, <1>5, <1>10, <2>1, <2>2 DEF CopyBack
<1> QED
  BY <1>9, <1>10

\* fclose moves the buffer to the disk and keeps the contents.
LEMMA ContentClose ==
  ASSUME SafeInv, SafeInv', NEW t \in Thread, Step(t) \/ Call(t),
         pc[t] \in {"init_close", "close"}, pc'[t] # "copy_back",
         g_log_fd \in streams, Fclose(g_log_fd), NEW f \in File
  PROVE  Content(f)' = Content(f)
<1> DEFINE h == g_log_fd
<1>1. StdioOK /\ FileInv /\ ThreadOK
  BY DEF SafeInv, Inv, TypeOK
<1>2. ~BackDue(f) /\ ~BackDue(f)'
  BY <1>1, NoBackDue, AloneAt, Others DEF BackDue
<1>3. streams' = {}
  BY DEF Fclose, SafeInv, StreamInv
<1>4. h \in Handle /\ path[h] \in File /\ buf[h] \in Seq(Unit)
  BY <1>1 DEF StdioOK, FileInv
<1>5. disk[f] \in Seq(Unit) /\ disk'[f] \in Seq(Unit)
  BY DEF SafeInv, Inv, TypeOK, StdioOK
<1>6. Content(f) = disk[f] \o Buffered(f)
  BY <1>2, ContentParts
<1>7. Content(f)' = disk'[f]
  BY <1>2, <1>3, <1>5, ConcatEmptySeq DEF Content, BackDue
<1>8. disk'[f] = IF f = path[h] THEN disk[f] \o buf[h] ELSE disk[f]
  BY <1>1, <1>4 DEF Fclose, StdioOK
<1>9. Buffered(f) = IF f = path[h] THEN buf[h] ELSE <<>>
  BY DEF Buffered
<1> QED
  BY <1>5, <1>6, <1>7, <1>8, <1>9, ConcatEmptySeq

\* fopen finds no stream open and leaves an empty buffer.
LEMMA ContentOpen ==
  ASSUME SafeInv, SafeInv', NEW t \in Thread, InitOpen(t), NEW f \in File
  PROVE  Content(f)' = Content(f)
<1>1. StdioOK /\ ThreadOK /\ pc[t] = "init_open" /\ streams = {} /\ disk' = disk
  BY DEF SafeInv, Inv, TypeOK, StreamInv, InitOpen, At, Fopen, stdio
<1>2. pc'[t] # "copy_back"
  BY <1>1, ArgBack DEF InitOpen, Goto, Return, ThreadOK
<1>3. ~BackDue(f) /\ ~BackDue(f)'
  BY <1>1, <1>2, NoBackDue, AloneAt, Others DEF BackDue, Step
<1>4. Buffered(f) = <<>>
  BY <1>1 DEF Buffered
<1>5. Buffered(f)' = <<>>
  <2>1. CASE \E h \in Handle : Fopen(h, arg[t].log_file) /\ g_log_fd' = h
    BY <1>1, <2>1 DEF Fopen, Buffered, StdioOK
  <2>2. CASE UNCHANGED stdio
    BY <1>1, <2>2 DEF stdio, Buffered
  <2> QED
    BY <2>1, <2>2 DEF InitOpen
<1> QED
  BY <1>1, <1>3, <1>4, <1>5 DEF Content, BackDue, Buffered

\* Every other step keeps the contents of every file.
LEMMA ContentKept ==
  ASSUME SerialInit, SafeInv, SafeInv', NEW t \in Thread, Step(t) \/ Call(t),
         ~FHead(t), ~FBody(t), ~Truncate(t), ~CopyBack(t), NEW f \in File
  PROVE  Content(f)' = Content(f)
<1>1. ThreadOK /\ StdioOK
  BY DEF SafeInv, Inv, TypeOK
<1>2. pc'[t] # "copy_back" /\ pc[t] # "copy_back"
  <2> USE DEF At, Goto, ThreadOK
  <2>1. CASE InitOpen(t) \/ InitSet(t)
    BY <1>1, <2>1, ArgBack DEF InitOpen, InitSet, Return
  <2>2. CASE Call(t)
    BY <1>1, <2>2 DEF Call, LogCall, InitCall
  <2>3. CASE \/ InitClose(t) \/ Lock(t) \/ Finish(t) \/ THead(t) \/ TBody(t)
             \/ Unlock(t) \/ Stat(t) \/ CloseLog(t) \/ Stat2(t) \/ OpenLog(t)
             \/ Mkstemp(t) \/ CopyOut(t) \/ Ending(t)
    BY <1>1, <2>3
       DEF InitClose, Lock, Finish, THead, TBody, Unlock, Stat, CloseLog, Stat2,
           OpenLog, Mkstemp, CopyOut, Ending
  <2> QED
    BY <2>1, <2>2, <2>3, Defined DEF Step
<1>3. CASE InitOpen(t)
  BY <1>3, ContentOpen
<1>4. CASE InitClose(t) \/ CloseLog(t)
  <2>1. CASE UNCHANGED stdio
    <3>1. InitClose(t) /\ UNCHANGED <<config, tmp, fd_log>>
      BY <1>4, <2>1, <1>1 DEF InitClose, CloseLog, Fclose, stdio, cutting
    <3>2. BackDue(f)' <=> BackDue(f)
      BY <1>1, <1>2, <3>1, Others DEF BackDue
    <3> QED
      BY <2>1, <3>1, <3>2 DEF Content, BackDue, stdio, config
  <2>2. CASE g_log_fd \in streams /\ Fclose(g_log_fd)
    BY <1>2, <1>4, <2>2, ContentClose DEF InitClose, CloseLog, At
  <2> QED
    BY <1>4, <2>1, <2>2 DEF InitClose, CloseLog
<1>5. ASSUME ~InitOpen(t), ~InitClose(t), ~CloseLog(t) PROVE Content(f)' = Content(f)
  <2>1. UNCHANGED <<g_log_fd, streams, path, buf, disk>>
    BY <1>5, Frame DEF config, stdio, InitSet, THead, TBody, Printf
  <2>2. CASE BackDue(f)
    <3>1. PICK u \in Thread \ {t} : pc[u] = "copy_back" /\ fd_log = f
      BY <1>2, <2>2 DEF BackDue
    <3>2. UNCHANGED cutting /\ pc'[u] = pc[u]
      BY <1>1, <3>1, Bystander, Others
    <3>3. BackDue(f)' /\ tmp' = tmp
      BY <3>1, <3>2 DEF BackDue, cutting
    <3> QED
      BY <2>1, <2>2, <3>3 DEF Content, BackDue
  <2>3. CASE ~BackDue(f)
    <3>1. ~BackDue(f)'
      <4>1. ASSUME BackDue(f)' PROVE FALSE
        <5>1. PICK u \in Thread \ {t} : pc[u] = "copy_back" /\ fd_log' = f
          BY <1>1, <1>2, <4>1, Others DEF BackDue
        <5>2. fd_log' = fd_log
          BY <5>1, Bystander DEF cutting
        <5> QED
          BY <2>3, <5>1, <5>2 DEF BackDue
      <4> QED
        BY <4>1
    <3> QED
      BY <2>1, <2>3, <3>1 DEF Content, BackDue
  <2> QED
    BY <2>2, <2>3
<1> QED
  BY <1>3, <1>4, <1>5

-----------------------------------------------------------------------------
(* Records                                                                 *)

\* Only these two actions lead to, or away from, the middle of a record.
LEMMA FBodyStep ==
  ASSUME SafeInv, NEW t \in Thread, Step(t) \/ Call(t), ~FHead(t), ~FBody(t)
  PROVE  pc[t] # "fbody" /\ pc'[t] # "fbody"
<1> USE DEF At, Goto, ThreadOK
<1>1. ThreadOK
  BY DEF SafeInv, Inv, TypeOK
<1>2. CASE InitOpen(t) \/ InitSet(t)
  BY <1>1, <1>2, ArgBack DEF InitOpen, InitSet, Return
<1>3. CASE Call(t)
  BY <1>1, <1>3 DEF Call, LogCall, InitCall
<1>4. CASE \/ InitClose(t) \/ Lock(t) \/ Finish(t) \/ THead(t) \/ TBody(t) \/ Unlock(t)
           \/ Stat(t) \/ CloseLog(t) \/ Stat2(t) \/ OpenLog(t) \/ Mkstemp(t)
           \/ CopyOut(t) \/ Truncate(t) \/ CopyBack(t) \/ Ending(t)
  BY <1>1, <1>4
     DEF InitClose, Lock, Finish, THead, TBody, Unlock, Stat, CloseLog, Stat2, OpenLog,
         Mkstemp, CopyOut, Truncate, CopyBack, Ending
<1> QED
  BY <1>2, <1>3, <1>4, Defined DEF Step

\* The last unit of s is a prefix.
EndsInHead(s) == s # <<>> /\ s[Len(s)].part = "head"

\* What RecordInv says of the file f.
FileRecords(f) ==
  /\ Paired(Content(f))
  /\ EndsInHead(Content(f)) => \E u \in Thread : pc[u] = "fbody" /\ path[g_log_fd] = f
  /\ \A u \in Thread : pc[u] = "fbody" /\ path[g_log_fd] = f
       => Content(f) # <<>> /\ Content(f)[Len(Content(f))] = Str(u)

\* The prefix and the text of a record are written one after the other.
LEMMA RecordWritten ==
  ASSUME SerialInit, SafeInv, SafeInv', NEW t \in Thread, FHead(t) \/ FBody(t),
         NEW f \in File, FileRecords(f)
  PROVE  FileRecords(f)'
<1>1. ThreadOK /\ Content(f) \in Seq(Unit) /\ Str(t) \in Unit /\ Text(t) \in Unit
  BY ContentParts, RecordType DEF SafeInv, Inv, TypeOK
<1>2. pc[t] \in {"fhead", "fbody"} /\ Str(t)' = Str(t)
  BY <1>1, StrKept DEF FHead, FBody, At, Step
<1>3. \A u \in Thread \ {t} : pc[u] # "fbody" /\ pc'[u] # "fbody"
  BY <1>1, <1>2, AloneAt, Others DEF Step
<1> DEFINE s == Content(f)
           g == path[g_log_fd]
<1>4. CASE FHead(t)
  <2>1. g' = g /\ Content(f)' = IF f = g THEN Append(s, Str(t)) ELSE s
    BY <1>1, <1>4, ContentWrite DEF FHead
  <2>2. ~EndsInHead(s) /\ pc'[t] = "fbody"
    BY <1>1, <1>3, <1>4 DEF FHead, At, Goto, ThreadOK, FileRecords
  <2>3. Str(t).part = "head"
    BY DEF Str
  <2>4. CASE f = g
    <3>1. Paired(Append(s, Str(t)))
      BY <1>1, <2>2, <2>3, PairedHead DEF FileRecords, EndsInHead
    <3>2. Append(s, Str(t)) # <<>>
          /\ Append(s, Str(t))[Len(Append(s, Str(t)))] = Str(t)
      BY <1>1
    <3> HIDE DEF s, g
    <3> QED
      BY <1>2, <1>3, <2>1, <2>2, <2>4, <3>1, <3>2 DEF FileRecords, g
  <2>5. CASE f # g
    BY <1>3, <2>1, <2>2, <2>5 DEF FileRecords
  <2> QED
    BY <2>4, <2>5
<1>5. CASE FBody(t)
  <2>1. g' = g /\ Content(f)' = IF f = g THEN Append(s, Text(t)) ELSE s
    BY <1>1, <1>5, ContentWrite DEF FBody
  <2>2. pc[t] = "fbody" /\ \A u \in Thread : pc'[u] # "fbody"
    BY <1>1, <1>3, <1>5 DEF FBody, At, Goto, ThreadOK
  <2>3. CASE f = g
    <3>1. s # <<>> /\ s[Len(s)] = Str(t)
      BY <2>2, <2>3 DEF FileRecords
    <3>2. Text(t) = [Str(t) EXCEPT !.part = "body"] /\ Str(t).part = "head"
      BY DEF Str, Text
    <3>3. Paired(Append(s, Text(t)))
      BY <1>1, <3>1, <3>2, PairedBody DEF FileRecords
    <3>4. Append(s, Text(t))[Len(Append(s, Text(t)))] = Text(t) /\ Text(t).part = "body"
      BY <1>1 DEF Text
    <3> HIDE DEF s, g
    <3> QED
      BY <2>1, <2>2, <2>3, <3>3, <3>4 DEF FileRecords, EndsInHead
  <2>4. CASE f # g
    <3>1. ~EndsInHead(s)
      BY <1>3, <2>2, <2>4 DEF FileRecords
    <3> QED
      BY <2>1, <2>2, <2>4, <3>1 DEF FileRecords
  <2> QED
    BY <2>3, <2>4
<1> QED
  BY <1>4, <1>5

\* A whole transfer of the temporary file is the temporary file.
LEMMA SentAll ==
  ASSUME SafeInv, CutInv, NEW t \in Thread, pc[t] = "copy_back", "short" \notin Faults,
         NEW k \in Shortfall(Len(tmp))
  PROVE  Sent(tmp, 0, len, k) = tmp
<1>1. k = 0 /\ Len(tmp) = len /\ tmp \in Seq(Unit) /\ Len(tmp) \in Nat
  BY LenProperties DEF Shortfall, CutInv, SafeInv, Inv, TypeOK, CuttingOK
<1>2. Sent(tmp, 0, len, k) = SubSeq(tmp, 1, Len(tmp))
  BY <1>1 DEF Sent
<1> QED
  BY <1>1, <1>2, SubSeqFull

\* No step tears a record, whether it writes, cuts, closes or opens.
LEMMA RecordNext ==
  ASSUME SerialInit, SafeInv, SafeInv', CutInv, RecordInv,
         NEW t \in Thread, Step(t) \/ Call(t)
  PROVE  RecordInv'
<1> SUFFICES ASSUME "short" \notin Faults, NEW f \in File PROVE FileRecords(f)'
  BY DEF RecordInv, FileRecords, EndsInHead
<1>1. ThreadOK /\ FileRecords(f)
  BY DEF SafeInv, Inv, TypeOK, RecordInv, FileRecords, EndsInHead
<1>2. CASE FHead(t) \/ FBody(t)
  BY <1>1, <1>2, RecordWritten
<1>3. ASSUME ~FHead(t), ~FBody(t) PROVE FileRecords(f)'
  <2>1. pc[t] # "fbody" /\ pc'[t] # "fbody"
    BY <1>3, FBodyStep
  <2>2. ASSUME NEW u \in Thread, pc[u] = "fbody" \/ pc'[u] = "fbody"
        PROVE  /\ pc[u] = "fbody" /\ pc'[u] = "fbody" /\ Str(u)' = Str(u)
               /\ path' = path /\ g_log_fd' = g_log_fd
    <3>1. u # t /\ pc[u] = "fbody" /\ pc'[u] = "fbody"
      BY <1>1, <2>1, <2>2, Others
    <3> QED
      BY <1>1, <3>1, Bystander, StrKept DEF config, stdio
  <2>3. ASSUME Content(f)' = Content(f) PROVE FileRecords(f)'
    BY <1>1, <2>2, <2>3 DEF FileRecords
  <2>4. CASE Truncate(t)
    <3>1. SUFFICES ASSUME /\ f = g_log_file /\ Content(f) = disk[f] /\ Content(f)' = tmp
                          /\ pc[t] = "truncate"
                   PROVE  FileRecords(f)'
      BY <2>3, <2>4, ContentTruncate
    <3> DEFINE s == disk[g_log_file]
               m == Len(s) \div 2
    <3>2. /\ Len(s) \in Nat /\ m \in Nat /\ m <= Len(s)
          /\ tmp = SubSeq(s, m + 1, Len(s))
      <4>1. PICK k \in 0..len :
              /\ tmp = SubSeq(s, m + 1, Len(s) - k) /\ ("short" \notin Faults => k = 0)
        BY <3>1, TmpUnits
      <4>2. Len(s) \in Nat /\ m \in Nat /\ m <= Len(s)
        BY <3>1, TmpUnits
      <4>3. k = 0 /\ Len(s) - 0 = Len(s)
        BY <4>1, <4>2
      <4> QED
        BY <4>1, <4>2, <4>3
    <3>3. s \in Seq(Unit) /\ Paired(s)
      BY <1>1, <3>1, ContentParts DEF FileRecords
    <3>4. \A u \in Thread : pc[u] # "fbody" /\ pc'[u] # "fbody"
      BY <2>1, <2>2, <3>1, AloneAt
    <3>5. ~EndsInHead(s)
      BY <1>1, <3>1, <3>4 DEF FileRecords
    <3> HIDE DEF m, s
    <3>6. Paired(tmp)
      BY <3>2, <3>3, PairedSuffix
    <3>7. ~EndsInHead(tmp)
      <4>1. Len(tmp) = Len(s) - m /\ \A i \in 1..Len(tmp) : tmp[i] = s[m + i]
        BY <3>2, <3>3
      <4>2. ASSUME tmp # <<>> PROVE s # <<>> /\ tmp[Len(tmp)] = s[Len(s)]
        <5>1. Len(tmp) >= 1
          <6>1. tmp \in Seq(Unit)
            BY DEF SafeInv, Inv, TypeOK, CuttingOK
          <6> QED
            BY <4>2, <6>1, EmptySeq, LenProperties
        <5>2. Len(tmp) \in 1..Len(tmp) /\ m + Len(tmp) = Len(s) /\ Len(s) >= 1
          BY <3>2, <4>1, <5>1
        <5>3. s # <<>>
          BY <5>2
        <5> QED
          BY <4>1, <5>2, <5>3
      <4> QED
        BY <3>5, <4>2 DEF EndsInHead
    <3> QED
      BY <3>1, <3>4, <3>6, <3>7 DEF FileRecords
  <2>5. CASE CopyBack(t)
    <3>1. pc[t] = "copy_back"
      BY <2>5 DEF CopyBack, At
    <3>2. Content(f)' = Content(f) \/ Content(f)' = <<>>
      BY <2>5, <3>1, ContentBack, SentAll
    <3>3. \A u \in Thread : pc'[u] # "fbody"
      BY <2>1, <2>2, <3>1, AloneAt
    <3>4. ASSUME Content(f)' = <<>> PROVE FileRecords(f)'
      BY <3>3, <3>4 DEF FileRecords, EndsInHead, Paired
    <3> QED
      BY <2>3, <3>2, <3>4
  <2> QED
    BY <1>3, <2>3, <2>4, <2>5, ContentKept
<1> QED
  BY <1>2, <1>3

-----------------------------------------------------------------------------
(* The invariant of a program that serialises log_init                     *)

\* The files an earlier run left behind hold no torn record.
LEMMA LogInvInit ==
  ASSUME Init
  PROVE  OpenInv /\ CutInv /\ RecordInv
<1>1. /\ dest = NULL /\ streams = {}
      /\ \A t \in Thread : pc[t] = "idle" /\ ~(pc[t] \in {"fbody", "copy_back"})
  BY DEF Init
<1>2. OpenInv /\ CutInv
  BY <1>1 DEF OpenInv, CutInv
<1>3. RecordInv
  <2>1. PICK n \in [File -> 0..MaxOld] : disk = [f \in File |-> OldLog(n[f])]
    BY DEF Init
  <2>2. ASSUME NEW f \in File PROVE Content(f) = OldLog(n[f])
    <3>1. disk[f] \in Seq(Unit)
      BY InvInit DEF Inv, TypeOK, StdioOK
    <3>2. Content(f) = disk[f] \o <<>>
      BY <1>1 DEF Content
    <3> QED
      BY <2>1, <3>1, <3>2, ConcatEmptySeq
  <2>3. ASSUME NEW f \in File
        PROVE  \A i \in 1..Len(Content(f)) : Content(f)[i].part = "old"
    <3>1. n[f] \in Nat
      OBVIOUS
    <3>2. Len(OldLog(n[f])) = n[f] /\ \A i \in 1..n[f] : OldLog(n[f])[i] = OldUnit
      BY <3>1 DEF OldLog
    <3> QED
      BY <2>2, <3>2 DEF OldUnit
  <2>4. ASSUME NEW f \in File, Content(f) # <<>> PROVE Content(f)[Len(Content(f))].part = "old"
    <3>1. Content(f) \in Seq(Unit)
      BY <2>1, <2>2, InvInit DEF Inv, TypeOK, StdioOK
    <3>2. Len(Content(f)) \in 1..Len(Content(f))
      BY <2>4, <3>1, EmptySeq, LenProperties
    <3> QED
      BY <2>3, <3>2
  <2> QED
    BY <1>1, <2>3, <2>4 DEF RecordInv, Paired
<1> QED
  BY <1>2, <1>3

\* The invariant of a program that serialises log_init: streams, names, the cut
\* and the records, with any combination of failing calls.
THEOREM LogInvCorrect ==
  ASSUME SerialInit
  PROVE  Spec => []LogInv
<1>1. Init => OpenInv /\ CutInv /\ RecordInv
  BY LogInvInit
<1>2. /\ SafeInv /\ SafeInv' /\ OpenInv /\ CutInv /\ RecordInv /\ [Next]_vars
      => OpenInv' /\ CutInv' /\ RecordInv'
  <2> SUFFICES ASSUME SafeInv, SafeInv', OpenInv, CutInv, RecordInv, [Next]_vars
               PROVE  OpenInv' /\ CutInv' /\ RecordInv'
    OBVIOUS
  <2>1. ASSUME NEW t \in Thread, Step(t) \/ Call(t) PROVE OpenInv' /\ CutInv' /\ RecordInv'
    BY <2>1, OpenNext, CutNext, RecordNext
  <2>2. CASE UNCHANGED vars
    <3> USE <2>2 DEF vars, config, cutting, stdio, counters
    <3>1. OpenInv'
      BY DEF OpenInv, UserInit
    <3>2. CutInv'
      BY DEF CutInv, Shortfall
    <3>3. \A f \in File : Content(f)' = Content(f)
      BY DEF Content
    <3>4. \A t \in Thread : Str(t)' = Str(t)
      BY DEF Str
    <3>5. RecordInv'
      BY <3>3, <3>4 DEF RecordInv
    <3> QED
      BY <3>1, <3>2, <3>5
  <2> QED
    BY <2>1, <2>2 DEF Next
<1>3. SafeInv /\ OpenInv /\ CutInv /\ RecordInv => LogInv
  BY DEF LogInv
<1> QED
  BY <1>1, <1>2, <1>3, SafeInvCorrect, PTL DEF Spec

\* The logger has the file of the last log_init open whenever the mutex is free,
\* whatever fails in check_file_size except its second stat, which returns
\* without going to the label ending, and the fopen of log_init.
THEOREM StaysOpenCorrect ==
  ASSUME SerialInit, Faults \cap {"fopen", "stat2"} = {}, Handle # {}
  PROVE  Spec => []LogStaysOpen
<1>1. LogInv => LogStaysOpen
  <2> SUFFICES ASSUME LogInv, mutex = NULL, \A t \in Thread : ~UserInit(t), dest # NULL
               PROVE  g_log_fd \in streams /\ path[g_log_fd] = dest
    BY DEF LogStaysOpen
  <2>1. \A t \in Thread : ~Holding(t)
    BY NullFacts DEF LogInv, SafeInv, Inv, LockInv
  <2>2. \A t \in Thread : pc[t] \notin InCut \cup InInit
    BY <2>1, ArgBack DEF Holding, Reopening, UserInit, LogInv, SafeInv, Inv, TypeOK
  <2> QED
    BY <2>2 DEF LogInv, OpenInv
<1> QED
  BY <1>1, LogInvCorrect, PTL

\* Records of several threads are never interleaved in a log file, and no cut
\* tears a record except the first of the file, whatever fails, unless sendfile
\* transfers less than it was asked to.
THEOREM RecordsCorrect ==
  ASSUME SerialInit, "short" \notin Faults
  PROVE  Spec => []RecordsWhole
<1>1. LogInv => RecordsWhole
  BY DEF LogInv, RecordInv, RecordsWhole, Whole
<1> QED
  BY <1>1, LogInvCorrect, PTL

-----------------------------------------------------------------------------
(* The abstract store                                                      *)

\* Every step of a thread is a step of the store, or none.
LEMMA StoreStep ==
  ASSUME SerialInit, Faults \cap {"copy_back", "short"} = {}, LogInv, LogInv',
         NEW t \in Thread, Step(t) \/ Call(t)
  PROVE  [Store!Next]_([f \in File |-> Content(f)])
<1> DEFINE store == [f \in File |-> Content(f)]
<1>1. /\ SafeInv /\ SafeInv' /\ CutInv /\ StdioOK /\ FileInv
      /\ Str(t) \in Unit /\ Text(t) \in Unit
  BY RecordType DEF LogInv, SafeInv, Inv, TypeOK
<1>2. ASSUME \A f \in File : Content(f)' = Content(f) PROVE store' = store
  BY <1>2
<1>3. ASSUME FHead(t) \/ FBody(t) PROVE Store!Next
  <2>1. PICK u \in Unit : Fprintf(g_log_fd, u)
    BY <1>1, <1>3 DEF FHead, FBody
  <2> DEFINE g == path[g_log_fd]
  <2>2. /\ g \in File
        /\ \A f \in File : Content(f)' = IF f = g THEN Append(Content(f), u)
                                         ELSE Content(f)
    <3>1. g \in File
      BY <1>1, <1>3 DEF FHead, FBody, StdioOK, FileInv
    <3> QED
      BY <1>1, <1>3, <2>1, <3>1, ContentWrite
  <2> HIDE DEF g
  <2>3. store' = [store EXCEPT ![g] = Append(@, u)]
    BY <2>2
  <2> HIDE DEF store
  <2>4. Store!Emit(g)
    BY <2>3 DEF Store!Emit, store
  <2> QED
    BY <2>2, <2>4 DEF Store!Next
<1>4. ASSUME Truncate(t), ~(store' = store) PROVE Store!Next
  <2>1. PICK g \in File : Content(g)' # Content(g)
    BY <1>2, <1>4
  <2>2. /\ g = g_log_file /\ Content(g) = disk[g] /\ Content(g)' = tmp
        /\ pc[t] = "truncate"
        /\ \A f \in File \ {g} : Content(f)' = Content(f)
    BY <1>1, <1>4, <2>1, ContentTruncate
  <2>3. tmp = SubSeq(disk[g], Len(disk[g]) \div 2 + 1, Len(disk[g]))
    <3>1. PICK k \in 0..len :
            /\ tmp = SubSeq(disk[g], Len(disk[g]) \div 2 + 1, Len(disk[g]) - k)
            /\ ("short" \notin Faults => k = 0)
      BY <1>1, <2>2, TmpUnits
    <3>2. Len(disk[g]) - k = Len(disk[g])
      BY <1>1, <3>1, LenProperties DEF StdioOK
    <3> QED
      BY <3>1, <3>2
  <2>4. store' = [store EXCEPT ![g] = SubSeq(@, Len(@) \div 2 + 1, Len(@))]
    BY <2>2, <2>3
  <2> HIDE DEF store
  <2>5. Store!CutHalf(g)
    BY <2>4 DEF Store!CutHalf, store
  <2> QED
    BY <2>5 DEF Store!Next
<1>5. ASSUME CopyBack(t) PROVE store' = store
  <2>1. pc[t] = "copy_back"
    BY <1>5 DEF CopyBack, At
  <2>2. \A f \in File : Content(f)' = Content(f)
    BY <1>1, <1>5, <2>1, ContentBack, SentAll
  <2> QED
    BY <2>2
<1>6. ASSUME ~FHead(t), ~FBody(t), ~Truncate(t), ~CopyBack(t) PROVE store' = store
  BY <1>1, <1>2, <1>6, ContentKept
<1> QED
  BY <1>3, <1>4, <1>5, <1>6

\* The logger implements the store: whatever the threads do, a store file only
\* grows at its end or loses exactly its older half, provided that writing the
\* copy back neither fails nor transfers less than it was asked to.
THEOREM StoreCorrect ==
  ASSUME SerialInit, Faults \cap {"copy_back", "short"} = {}
  PROVE  Spec => CutKeepsNewestHalf
<1>1. LogInv => Store!Init
  BY ContentParts DEF LogInv, Store!Init
<1>2. LogInv /\ LogInv' /\ [Next]_vars => [Store!Next]_([f \in File |-> Content(f)])
  <2> SUFFICES ASSUME LogInv, LogInv', [Next]_vars
               PROVE  [Store!Next]_([f \in File |-> Content(f)])
    OBVIOUS
  <2>1. CASE UNCHANGED vars
    BY <2>1 DEF vars, config, cutting, stdio, Content
  <2>2. ASSUME NEW t \in Thread, Step(t) \/ Call(t)
        PROVE  [Store!Next]_([f \in File |-> Content(f)])
    BY <2>2, StoreStep
  <2> QED
    BY <2>1, <2>2 DEF Next
<1> QED
  BY <1>1, <1>2, LogInvCorrect, PTL DEF Spec, CutKeepsNewestHalf, Store!Spec

-----------------------------------------------------------------------------
(* The record just written                                                 *)

\* u is the last unit of s.
EndsIn(s, u) == s # <<>> /\ s[Len(s)] = u

\* The text of the record t has just written is the last thing on the terminal
\* or in a log file: nobody else writes while t holds the mutex, and a cut takes
\* the older half.
KeptAt(t) ==
  EndsIn(term, Text(t)) \/ \E f \in File : EndsIn(Content(f), Text(t))

KeptInv == \A t \in Thread : Wrote(t) => KeptAt(t)

\* A thread that is inside a call keeps the number of the record it writes.
LEMMA TextKept ==
  ASSUME ThreadOK, NEW t \in Thread, Step(t) \/ Call(t),
         NEW u \in Thread, pc[u] # "idle"
  PROVE  Text(u)' = Text(u)
<1>1. Str(u)' = Str(u)
  BY StrKept
<1>2. calls'[u] = calls[u]
  BY <1>1 DEF Str
<1> QED
  BY <1>2 DEF Text

\* Only the two calls that print a text lead to where it has been written.
LEMMA WroteStep ==
  ASSUME SafeInv, NEW t \in Thread, Step(t) \/ Call(t), ~FBody(t), ~TBody(t), Wrote(t)'
  PROVE  Wrote(t) /\ pc[t] # "idle" /\ ~THead(t) /\ ~FHead(t)
<1> USE DEF Wrote, Reopening, InCut, InInit, At, Goto
<1>1. ThreadOK
  BY DEF SafeInv, Inv, TypeOK
<1>2. pc \in [Thread -> PC] /\ arg \in [Thread -> InitArgs]
  BY <1>1 DEF ThreadOK
<1>3. CASE InitOpen(t) \/ InitSet(t)
  <2>1. pc[t] \in {"init_open", "init_set"} /\ (arg[t].back = "finish" \/ pc'[t] = "init_set" \/ pc'[t] = "idle")
    BY <1>1, <1>2, <1>3, ArgBack DEF InitOpen, InitSet, Return
  <2>2. pc'[t] = "init_set" => arg'[t] = arg[t]
    BY <1>2, <1>3, <1>1, ArgBack DEF InitOpen, InitSet, Return
  <2> QED
    BY <1>2, <1>3, <2>1, <2>2 DEF THead, FHead
<1>4. CASE Call(t)
  BY <1>2, <1>4 DEF Call, LogCall, InitCall
<1>5. CASE \/ InitClose(t) \/ Lock(t) \/ FHead(t) \/ Finish(t) \/ THead(t) \/ Unlock(t)
           \/ Stat(t) \/ CloseLog(t) \/ Stat2(t) \/ OpenLog(t) \/ Mkstemp(t)
           \/ CopyOut(t) \/ Truncate(t) \/ CopyBack(t) \/ Ending(t)
  BY <1>2, <1>5
     DEF InitClose, Lock, FHead, Finish, THead, Unlock, Stat, CloseLog, Stat2, OpenLog,
         Mkstemp, CopyOut, Truncate, CopyBack, Ending
<1> QED
  BY <1>3, <1>4, <1>5, Defined DEF Step

\* A cut keeps the last unit of the file.
LEMMA CutKeepsLast ==
  ASSUME SerialInit, SafeInv, SafeInv', CutInv, NEW t \in Thread, Truncate(t),
         "short" \notin Faults, NEW f \in File, NEW u, EndsIn(Content(f), u)
  PROVE  EndsIn(Content(f)', u)
<1>1. CASE Content(f)' = Content(f)
  BY <1>1
<1>2. CASE f = g_log_file /\ Content(f) = disk[f] /\ Content(f)' = tmp /\ pc[t] = "truncate"
  <2> DEFINE s == disk[g_log_file]
             m == Len(s) \div 2
  <2>1. PICK k \in 0..len : tmp = SubSeq(s, m + 1, Len(s) - k) /\ ("short" \notin Faults => k = 0)
    BY <1>2, TmpUnits
  <2>2. Len(s) \in Nat /\ m \in Nat /\ m <= Len(s)
    BY <1>2, TmpUnits
  <2>3. tmp = SubSeq(s, m + 1, Len(s))
    <3>1. k = 0 /\ Len(s) - 0 = Len(s)
      BY <2>1, <2>2
    <3> QED
      BY <2>1, <3>1
  <2>4. s \in Seq(Unit) /\ EndsIn(s, u)
    BY <1>2, ContentParts
  <2>5. Len(s) >= 1
    BY <2>4, EmptySeq, LenProperties DEF EndsIn
  <2>6. m < Len(s)
    <3>1. \A n \in Nat : n >= 1 => n \div 2 < n
      OBVIOUS
    <3> QED
      BY <2>2, <2>5, <3>1
  <2> HIDE DEF m, s
  <2>7. Len(tmp) = Len(s) - m /\ \A i \in 1..Len(tmp) : tmp[i] = s[m + i]
    BY <2>2, <2>3, <2>4, <2>6
  <2>8. Len(tmp) \in 1..Len(tmp) /\ m + Len(tmp) = Len(s)
    BY <2>2, <2>6, <2>7
  <2>9. tmp[Len(tmp)] = s[Len(s)]
    BY <2>7, <2>8
  <2>10. tmp # <<>>
    BY <2>8
  <2> QED
    BY <1>2, <2>4, <2>9, <2>10 DEF EndsIn
<1> QED
  BY <1>1, <1>2, ContentTruncate

\* No step takes away the last thing that was written.
LEMMA KeptNext ==
  ASSUME SerialInit, Faults \cap {"copy_back", "short"} = {}, LogInv, LogInv', KeptInv,
         NEW t \in Thread, Step(t) \/ Call(t)
  PROVE  KeptInv'
<1>1. /\ SafeInv /\ SafeInv' /\ CutInv /\ ThreadOK /\ StdioOK /\ FileInv
      /\ Text(t) \in Unit
  BY RecordType DEF LogInv, SafeInv, Inv, TypeOK
<1>2. ASSUME NEW u \in Thread, pc[u] # "idle", KeptAt(u), term' = term,
             \A f \in File : EndsIn(Content(f), Text(u)) => EndsIn(Content(f)', Text(u))
      PROVE  KeptAt(u)'
  <2>1. Text(u)' = Text(u)
    BY <1>1, <1>2, TextKept
  <2> QED
    BY <1>2, <2>1 DEF KeptAt, EndsIn
<1>3. ASSUME NEW u \in Thread \ {t}, Wrote(u)'
      PROVE  KeptAt(u)'
  <2>1. Wrote(u) /\ pc[u] \notin {"idle", "lock"}
    BY <1>1, <1>3, Others DEF Wrote, Reopening, InCut, InInit
  <2>2. pc[t] \in {"idle", "lock"} /\ UNCHANGED <<config, mutex, cutting, check_tick, arg, stdio>>
    BY <1>1, <2>1, AloneAt, Bystander
  <2>3. \A f \in File : Content(f)' = Content(f)
    BY <1>1, <2>2, ContentKept DEF FHead, FBody, Truncate, CopyBack, At
  <2> QED
    BY <1>2, <2>1, <2>2, <2>3 DEF stdio, KeptInv
<1>4. ASSUME Wrote(t)'
      PROVE  KeptAt(t)'
  <2>1. CASE FBody(t)
    <3>1. pc[t] # "idle" /\ Fprintf(g_log_fd, Text(t))
      BY <2>1 DEF FBody, At
    <3>2. Text(t)' = Text(t)
      BY <1>1, <3>1, TextKept
    <3>3. PICK f \in File : Content(f)' = Append(Content(f), Text(t)) /\ Content(f) \in Seq(Unit)
      <4>1. path[g_log_fd] \in File
        BY <1>1, <2>1 DEF FBody, StdioOK, FileInv
      <4> QED
        BY <1>1, <2>1, <3>1, <4>1, ContentWrite, ContentParts
    <3>4. EndsIn(Append(Content(f), Text(t)), Text(t))
      BY <1>1, <3>3 DEF EndsIn
    <3> QED
      BY <3>2, <3>3, <3>4 DEF KeptAt, EndsIn
  <2>2. CASE TBody(t)
    <3>1. pc[t] # "idle" /\ term' = Append(term, Text(t)) /\ term \in Seq(Unit)
      BY <1>1, <2>2 DEF TBody, At, Printf, StdioOK
    <3>2. Text(t)' = Text(t)
      BY <1>1, <3>1, TextKept
    <3>3. EndsIn(Append(term, Text(t)), Text(t))
      BY <1>1, <3>1 DEF EndsIn
    <3> QED
      BY <3>1, <3>2, <3>3 DEF KeptAt, EndsIn
  <2>3. ASSUME ~FBody(t), ~TBody(t)
        PROVE  KeptAt(t)'
    <3>1. Wrote(t) /\ pc[t] # "idle" /\ ~THead(t) /\ ~FHead(t)
      BY <1>1, <1>4, <2>3, WroteStep
    <3>2. term' = term
      BY <2>3, <3>1, Frame DEF stdio, InitClose, Fclose, InitOpen, Fopen, CloseLog, Truncate, CopyBack
    <3>3. ASSUME NEW f \in File, EndsIn(Content(f), Text(t))
          PROVE  EndsIn(Content(f)', Text(t))
      <4>1. CASE Truncate(t)
        BY <1>1, <3>3, <4>1, CutKeepsLast
      <4>2. CASE CopyBack(t)
        <5>1. pc[t] = "copy_back"
          BY <4>2 DEF CopyBack, At
        <5>2. Content(f)' = Content(f)
          BY <1>1, <4>2, <5>1, ContentBack, SentAll
        <5> QED
          BY <3>3, <5>2
      <4> QED
        BY <1>1, <2>3, <3>1, <3>3, <4>1, <4>2, ContentKept
    <3> QED
      BY <1>2, <3>1, <3>2, <3>3 DEF KeptInv
  <2> QED
    BY <2>1, <2>2, <2>3
<1> QED
  BY <1>3, <1>4 DEF KeptInv

\* The logger of 009 is the logger of 002, called in the same way: every theorem
\* about the one holds of the other.
THEOREM SameLogger == Spec009 => Spec
<1>1. Next009 => Next
  BY DEF Next009, log_init, check_file_size, log, Next, Step, Call
<1> QED
  BY <1>1, PTL DEF Spec009, Spec

\* Either logger: the record a thread has written can be read when it releases
\* the mutex, in a file or on the terminal, provided that writing the copy back
\* neither fails nor transfers less than it was asked to.
THEOREM RecordKeptCorrect ==
  ASSUME SerialInit, Faults \cap {"copy_back", "short"} = {}
  PROVE  Spec => []RecordKept
<1>1. Init => KeptInv
  BY DEF Init, KeptInv, Wrote, Reopening, InCut, InInit
<1>2. LogInv /\ LogInv' /\ KeptInv /\ [Next]_vars => KeptInv'
  <2> SUFFICES ASSUME LogInv, LogInv', KeptInv, [Next]_vars
               PROVE  KeptInv'
    OBVIOUS
  <2>1. ASSUME NEW t \in Thread, Step(t) \/ Call(t) PROVE KeptInv'
    BY <2>1, KeptNext
  <2>2. CASE UNCHANGED vars
    <3>1. /\ pc' = pc /\ arg' = arg /\ calls' = calls /\ term' = term /\ disk' = disk
          /\ tmp' = tmp /\ fd_log' = fd_log /\ g_log_fd' = g_log_fd /\ streams' = streams
          /\ path' = path /\ buf' = buf
      BY <2>2 DEF vars, config, cutting, stdio, counters
    <3>2. \A t \in Thread : (Wrote(t)' <=> Wrote(t)) /\ Text(t)' = Text(t)
      BY <3>1, Zenon DEF Wrote, Reopening, Text
    <3>3. \A f \in File : Content(f)' = Content(f)
      BY <3>1, Zenon DEF Content
    <3> QED
      BY <3>1, <3>2, <3>3, Zenon DEF KeptInv, KeptAt, EndsIn
  <2> QED
    BY <2>1, <2>2 DEF Next
<1>3. LogInv /\ KeptInv => RecordKept
  <2> SUFFICES ASSUME LogInv, KeptInv, NEW t \in Thread, Wrote(t)
               PROVE  \E s \in {term} \cup {Content(f) : f \in File} :
                        \E i \in 1..Len(s) : s[i] = Text(t)
    BY DEF RecordKept
  <2>1. \A s \in Seq(Unit) : EndsIn(s, Text(t)) => \E i \in 1..Len(s) : s[i] = Text(t)
    BY EmptySeq, LenProperties DEF EndsIn
  <2>2. term \in Seq(Unit) /\ \A f \in File : Content(f) \in Seq(Unit)
    BY ContentParts DEF LogInv, SafeInv, Inv, TypeOK, StdioOK
  <2> QED
    BY <2>1, <2>2 DEF KeptInv, KeptAt
<1> QED
  BY <1>1, <1>2, <1>3, LogInvCorrect, PTL DEF Spec

-----------------------------------------------------------------------------
(* How large a log grows                                                   *)

\* No failing call leaves a log uncut.
NoCutFault == Faults \cap CutFaults = {}

\* The product that check_file_size takes of the limit is a number.
LEMMA LimitType ==
  ASSUME SafeInv
  PROVE  IntMb(g_max_mb) \in Int
<1>1. g_max_mb \in Uint16
  BY DEF SafeInv, Inv, TypeOK, ConfigOK
<1>2. IntMb(g_max_mb) \in IntMbs
  BY <1>1, IntMbType
<1>3. \A n \in IntMbs : n \in Int
  BY DEF IntMbs
<1> QED
  BY <1>2, <1>3

\* The size is checked in time after a step.
LEMMA TickNext ==
  ASSUME SerialInit, SafeInv, TickInv, NEW t \in Thread, Step(t) \/ Call(t)
  PROVE  TickInv'
<1> SUFFICES ASSUME NoCutFault PROVE TickInv'
  BY DEF TickInv, NoCutFault
<1> DEFINE Due(u) == pc[u] = "stat" \/ TooLarge(u) \/ Reopening(u)
           Knows(u) == TooLarge(u) \/ Sized(u)
<1>1. /\ ThreadOK /\ max_size \in IntMbs \cup {NULL} /\ check_tick \in Nat
      /\ TickLimit \in Nat /\ NULL \notin Int
  BY LogAssumption DEF SafeInv, Inv, TypeOK, ThreadOK, CuttingOK
<1>2. /\ Since \in 0..(TickLimit + 1)
      /\ \A u \in Thread : (Due(u) => CheckDue) /\ (Knows(u) => max_size # NULL)
  BY DEF TickInv, NoCutFault
<1>3. \A u \in Thread \ {t} : pc'[u] = pc[u] /\ arg'[u] = arg[u]
  BY <1>1, Others
<1>4. ASSUME UNCHANGED <<check_tick, max_size>>,
             (Due(t)' => CheckDue) /\ (Knows(t)' => max_size # NULL)
      PROVE  TickInv'
  <2>1. \A u \in Thread \ {t} : (Due(u)' => Due(u)) /\ (Knows(u)' => Knows(u))
    BY <1>3, <1>4 DEF TooLarge, Sized, Reopening, CheckDue
  <2> QED
    BY <1>2, <1>4, <2>1 DEF TickInv, Since, CheckDue
<1> USE DEF At, Goto, ThreadOK, TooLarge, Sized, Reopening, InCut, InInit, InFile
<1>5. CASE Finish(t)
  <2>1. /\ pc[t] = "finish" /\ pc'[t] = "unlock" /\ max_size' = max_size /\ arg' = arg
        /\ check_tick' = IF EveryRecord THEN check_tick
                          ELSE (IF CheckDue THEN 0 ELSE check_tick) + 1
    BY <1>1, <1>5 DEF Finish, cutting
  <2>2. ASSUME NEW u \in Thread PROVE ~Due(u)' /\ ~Knows(u)'
    BY <1>3, <2>1, AloneAt
  <2>3. Since' \in 0..(TickLimit + 1)
    BY <1>1, <1>2, <2>1 DEF Since, CheckDue
  <2> QED
    BY <2>2, <2>3 DEF TickInv
<1>6. CASE Stat(t)
  <2>1. /\ pc[t] = "stat" /\ pc'[t] \in {"finish", "close"} /\ arg' = arg
        /\ check_tick' = check_tick
    BY <1>1, <1>6 DEF Stat
  <2>2. max_size' # NULL /\ (max_size # NULL => max_size' = max_size)
    <3>1. IntMb(g_max_mb) \in Int
      BY LimitType
    <3> QED
      BY <1>1, <1>6, <3>1 DEF Stat
  <2>3. CheckDue /\ CheckDue'
    BY <1>2, <2>1 DEF CheckDue
  <2>4. Since' \in 0..(TickLimit + 1)
    BY <1>1, <1>2, <2>1, <2>2, <2>3 DEF Since, CheckDue
  <2> QED
    BY <2>2, <2>3, <2>4 DEF TickInv
<1>7. ASSUME ~Finish(t), ~Stat(t) PROVE TickInv'
  <2>1. UNCHANGED <<check_tick, max_size>>
    BY <1>7, Frame DEF cutting, Stat2, OpenLog, Mkstemp, CopyOut, Ending
  <2>2. (Due(t)' => CheckDue) /\ (Knows(t)' => max_size # NULL)
    <3>1. CASE InitOpen(t) \/ InitSet(t)
      BY <1>1, <1>2, <2>1, <3>1, ArgBack DEF InitOpen, InitSet, Return, CheckDue
    <3>2. CASE Call(t)
      BY <1>1, <3>2 DEF Call, LogCall, InitCall
    <3>3. CASE InitClose(t)
      BY <1>1, <1>2, <3>3 DEF InitClose
    <3>4. CASE Lock(t) \/ FHead(t) \/ FBody(t) \/ THead(t) \/ TBody(t) \/ Unlock(t)
      BY <1>1, <2>1, <3>4 DEF Lock, FHead, FBody, THead, TBody, Unlock, CheckDue
    <3>5. CASE CloseLog(t) \/ Stat2(t) \/ OpenLog(t) \/ Mkstemp(t)
      BY <1>1, <1>2, <3>5 DEF CloseLog, Stat2, OpenLog, Mkstemp, NoCutFault, CutFaults
    <3>6. CASE CopyOut(t) \/ Truncate(t) \/ CopyBack(t) \/ Ending(t)
      BY <1>1, <1>2, <3>6 DEF CopyOut, Truncate, CopyBack, Ending
    <3> QED
      BY <1>7, <3>1, <3>2, <3>3, <3>4, <3>5, <3>6, Defined DEF Step
  <2> QED
    BY <1>4, <2>1, <2>2
<1> QED
  BY <1>5, <1>6, <1>7

\* A buffer never holds more than a stdio buffer does.
BuffersFit == \A h \in Handle : Len(buf[h]) <= BufCap

\* No call of stdio, and no step of a thread, overfills a buffer.
LEMMA BufferNext ==
  ASSUME SafeInv, BuffersFit, NEW t \in Thread, Step(t) \/ Call(t)
  PROVE  BuffersFit'
<1> USE DEF BuffersFit
<1>1. StdioOK /\ BufCap \in Nat \ {0} /\ Str(t) \in Unit /\ Text(t) \in Unit
  BY LogAssumption, RecordType DEF SafeInv, Inv, TypeOK
<1>2. CASE buf' = buf
  BY <1>2
<1>3. ASSUME NEW g \in Handle, buf' = [buf EXCEPT ![g] = <<>>]
      PROVE  \A h \in Handle : Len(buf'[h]) <= BufCap
  BY <1>1, <1>3 DEF StdioOK
<1>4. ASSUME NEW u \in Unit, g_log_fd \in streams, Fprintf(g_log_fd, u)
      PROVE  \A h \in Handle : Len(buf'[h]) <= BufCap
  <2>1. g_log_fd \in Handle /\ buf[g_log_fd] \in Seq(Unit)
    BY <1>1, <1>4 DEF StdioOK
  <2>2. Len(<<u>>) = 1 /\ Len(Append(buf[g_log_fd], u)) = Len(buf[g_log_fd]) + 1
        /\ Len(buf[g_log_fd]) \in Nat
    BY <2>1, AppendProperties, LenProperties
  <2>3. Len(buf'[g_log_fd]) <= BufCap
    BY <1>1, <1>4, <2>1, <2>2 DEF Fprintf, StdioOK
  <2> QED
    BY <1>1, <1>4, <2>1, <2>3 DEF Fprintf, StdioOK
<1>5. CASE FHead(t) \/ FBody(t)
  BY <1>1, <1>4, <1>5 DEF FHead, FBody
<1>6. CASE InitOpen(t)
  BY <1>2, <1>3, <1>6 DEF InitOpen, Fopen, stdio
<1>7. CASE InitClose(t) \/ CloseLog(t)
  BY <1>1, <1>2, <1>3, <1>7 DEF InitClose, CloseLog, Fclose, stdio, StdioOK
<1> QED
  BY <1>2, <1>5, <1>6, <1>7, Frame DEF stdio, THead, TBody, Printf, Truncate, CopyBack

\* What may be left right after a check covers the old file, a checking period
\* and a file just below the limit.
BaseOK ==
  /\ Base \in Int /\ Period = 2 * TickLimit + 4 /\ TickLimit \in Nat
  /\ MaxOld \in Nat /\ MaxOld <= Base
  /\ max_size = NULL => Base = MaxOld
  /\ max_size # NULL =>
       /\ max_size \in Int /\ max_size * MB \in Int
       /\ Period <= Base /\ max_size * MB - 1 + BufCap <= Base

\* What stays after a check is a number, and covers the cases it is made of.
LEMMA BaseFacts ==
  ASSUME SafeInv
  PROVE  BaseOK
<1>1. /\ max_size \in IntMbs \cup {NULL} /\ MaxOld \in Nat /\ TickLimit \in Nat
      /\ MB \in Nat /\ BufCap \in Nat
  BY LogAssumption DEF SafeInv, Inv, TypeOK, CuttingOK
<1>2. max_size # NULL => max_size \in Int /\ max_size * MB \in Int
  BY <1>1 DEF IntMbs
<1>3. Period = 2 * TickLimit + 4
  BY <1>1 DEF Period
<1> DEFINE limit == max_size * MB - 1 + BufCap
<1>4. max_size # NULL => limit \in Int
  BY <1>1, <1>2
<1>5. Base = IF max_size = NULL THEN MaxOld
             ELSE Larger(Larger(MaxOld, Period), limit)
  BY DEF Base
<1> HIDE DEF limit
<1> QED
  BY <1>1, <1>2, <1>3, <1>4, <1>5 DEF BaseOK, Larger, limit

\* The limit, once known, is not a negative product.
Limited == max_size = NULL \/ max_size >= 0

\* What SizeInv says of the file f.
FileSize(f) ==
  /\ (\E t \in Thread : TooLarge(t)) \/ Len(Content(f)) <= Base + 2 * Since + Uncounted
  /\ \A t \in Thread :
       /\ TooLarge(t) => Len(Content(f)) <= Base + Period
       /\ Sized(t) => Len(Content(f)) <= Base

\* While a thread is inside the logger only its own place matters.
LEMMA AloneSize ==
  ASSUME SafeInv, NEW t \in Thread, Step(t) \/ Call(t), pc[t] \notin {"idle", "lock"},
         NEW f \in File,
         TooLarge(t)' \/ (Len(Content(f)) <= Base + 2 * Since + Uncounted)',
         TooLarge(t)' => (Len(Content(f)) <= Base + Period)',
         Sized(t)' => (Len(Content(f)) <= Base)'
  PROVE  FileSize(f)'
<1>1. ThreadOK
  BY DEF SafeInv, Inv, TypeOK
<1>2. ASSUME NEW u \in Thread \ {t} PROVE ~TooLarge(u)' /\ ~Sized(u)'
  <2>1. pc'[u] \in {"idle", "lock"}
    BY <1>1, AloneAt, Others
  <2> QED
    BY <2>1 DEF TooLarge, Sized, Reopening, InCut, InInit
<1> QED
  BY <1>2 DEF FileSize

\* The owner of the mutex is the thread inside the critical section.
LEMMA UncountedAt ==
  ASSUME SafeInv, NEW t \in Thread, pc[t] \notin {"idle", "lock"}
  PROVE  /\ Uncounted = IF UserInit(t) THEN 0 ELSE Written(t)
         /\ ~UserInit(t) => mutex = t
<1>1. Holding(t) \/ UserInit(t)
  BY ArgBack
     DEF SafeInv, Inv, TypeOK, ThreadOK, PC, Holding, UserInit, Reopening, InInit
<1>2. ~UserInit(t) => mutex = t /\ mutex # NULL
  BY <1>1, NullFacts DEF SafeInv, Inv, LockInv
<1>3. UserInit(t) => mutex = NULL \/ Written(mutex) = 0
  <2>1. ASSUME UserInit(t), mutex # NULL PROVE Written(mutex) = 0
    <3>1. mutex \in Thread
      BY <2>1 DEF SafeInv, Inv, TypeOK, ThreadOK
    <3>2. pc[mutex] \in {"idle", "lock"} \cup InInit
      BY <2>1, <3>1, AloneAt DEF UserInit
    <3> QED
      BY <3>2 DEF Written, InInit
  <2> QED
    BY <2>1
<1> QED
  BY <1>2, <1>3 DEF Uncounted

\* Part of a record is never negative.
LEMMA UncountedType == Uncounted \in 0..2
BY DEF Uncounted, Written

\* What is left of the temporary file after it was written back.
LEMMA SentShorter ==
  ASSUME NEW s \in Seq(Unit), NEW n \in Nat, Len(s) <= n, NEW k \in 0..Len(s)
  PROVE  Len(Sent(s, 0, n, k)) <= Len(s)
<1>1. Len(s) \in Nat /\ (IF 0 + n < Len(s) THEN 0 + n ELSE Len(s)) = Len(s)
  OBVIOUS
<1>2. Sent(s, 0, n, k) = SubSeq(s, 1, Len(s) - k)
  BY <1>1 DEF Sent
<1> QED
  BY <1>1, <1>2

\* A unit that fprintf writes is counted.
LEMMA SizeWrite ==
  ASSUME SerialInit, SafeInv, SafeInv', NEW t \in Thread, FHead(t) \/ FBody(t),
         TickInv, NoCutFault, NEW f \in File, FileSize(f)
  PROVE  FileSize(f)'
<1>1. /\ ThreadOK /\ Str(t) \in Unit /\ Text(t) \in Unit /\ Content(f) \in Seq(Unit)
      /\ Base \in Int /\ Since \in Int
  BY RecordType, ContentParts, BaseFacts
     DEF SafeInv, Inv, TypeOK, TickInv, NoCutFault, BaseOK
<1>2. pc[t] \in {"fhead", "fbody"} /\ ~UserInit(t) /\ ~UserInit(t)'
      /\ UNCHANGED <<max_size, check_tick>>
  BY <1>1 DEF FHead, FBody, At, Goto, UserInit, InInit, ThreadOK, cutting
<1>3. Base' = Base /\ Since' = Since
  BY <1>2 DEF Base, Since
<1>4. Len(Content(f)) \in Nat /\ Len(Content(f)') <= Len(Content(f)) + 1
      /\ Len(Content(f)') \in Nat
  <2>1. \A u \in Unit : Len(Append(Content(f), u)) = Len(Content(f)) + 1
    BY <1>1
  <2>2. PICK u \in Unit : Fprintf(g_log_fd, u)
    BY <1>1 DEF FHead, FBody
  <2>3. Content(f)' = Append(Content(f), u) \/ Content(f)' = Content(f)
    BY <2>2, ContentWrite
  <2>4. Len(Content(f)) \in Nat
    BY <1>1, LenProperties
  <2>5. CASE Content(f)' = Content(f)
    BY <2>4, <2>5
  <2>6. CASE Content(f)' = Append(Content(f), u)
    <3>1. Len(Content(f)') = Len(Content(f)) + 1
      BY <2>1, <2>6
    <3> QED
      BY <2>4, <3>1
  <2> QED
    BY <2>3, <2>5, <2>6
<1>5. \A u \in Thread : ~TooLarge(u)
  BY <1>2, AloneAt DEF TooLarge, InCut
<1>6. Len(Content(f)) <= Base + 2 * Since + Uncounted
  BY <1>5 DEF FileSize
<1>7. Uncounted = Written(t) /\ Uncounted' = Written(t)'
  <2>1. mutex = t /\ mutex' = mutex /\ t # NULL
    BY <1>2, UncountedAt, NullFacts DEF FHead, FBody
  <2> QED
    BY <2>1 DEF Uncounted
<1>8. Written(t)' = Written(t) + 1 /\ Written(t) \in 0..1
  BY <1>1 DEF FHead, FBody, At, Goto, Written, ThreadOK
<1>9. Len(Content(f)') <= Base + 2 * Since + Uncounted'
  BY <1>1, <1>4, <1>6, <1>7, <1>8
<1>10. ~Sized(t)' /\ ~TooLarge(t)'
  BY <1>1, <1>2
     DEF FHead, FBody, Goto, ThreadOK, Sized, Reopening, TooLarge, InCut, InInit,
         CheckDue
<1> QED
  BY <1>2, <1>3, <1>9, <1>10, AloneSize DEF Step

\* Sums of sizes.
LEMMA PeriodSum ==
  ASSUME NEW c \in Int, NEW b \in Int, NEW d \in Int, NEW r \in Int, NEW p \in Int,
         c <= b + 2 * r + 2, b <= d, 2 * r + 2 <= p
  PROVE  c <= d + p
OBVIOUS

\* The part of the last write and the records still in hand are at most a period.
LEMMA RecordSum ==
  ASSUME NEW c \in Int, NEW b \in Int, NEW r \in Nat, NEW u \in Nat, c <= b
  PROVE  c <= b + 2 * r + u
OBVIOUS

\* The check finds a log that is below the limit or has grown for one period.
LEMMA SizeStat ==
  ASSUME SerialInit, SafeInv, SafeInv', NEW t \in Thread, Stat(t), TickInv, TickInv',
         NoCutFault, BuffersFit, Limited', NEW f \in File, File = {f}, FileSize(f)
  PROVE  FileSize(f)'
<1> DEFINE C == Len(Content(f))
<1>1. /\ ThreadOK /\ StdioOK /\ FileInv /\ ConfigOK
      /\ pc[t] = "stat" /\ pc'[t] \in {"finish", "close"} /\ CheckDue
      /\ check_tick' = check_tick /\ UNCHANGED stdio /\ g_log_fd' = g_log_fd
      /\ check_tick \in Nat
  BY DEF SafeInv, Inv, TypeOK, ThreadOK, Stat, At, Goto, config, TickInv, NoCutFault
<1>2. max_size' # NULL /\ (max_size # NULL => max_size' = max_size)
  <2>1. Sized(t)' \/ TooLarge(t)'
    BY <1>1 DEF Sized, TooLarge, CheckDue
  <2> QED
    BY <2>1 DEF TickInv, NoCutFault, Stat
<1>3. Content(f)' = Content(f)
  BY ContentKept, <1>1 DEF Step, FHead, FBody, Truncate, CopyBack, At
<1>4. Content(f) = disk[f] \o buf[g_log_fd] /\ g_log_fd \in Handle /\ g_log_file = f
  <2>1. g_log_fd \in streams /\ g_log_file # NULL
    <3>1. g_log_fd # NULL
      BY <1>1 DEF SafeInv, StreamInv, InFile
    <3>2. \A u \in Thread : ~UserInit(u)
      BY <1>1, AloneAt DEF UserInit, InInit
    <3> QED
      BY <1>1, <3>1, <3>2 DEF SafeInv, StreamInv, FileInv
  <2>2. g_log_fd \in Handle /\ path[g_log_fd] = f /\ g_log_file = f
    BY <1>1, <2>1 DEF StdioOK, ConfigOK, FileInv
  <2>3. ~BackDue(f)
    BY <1>1, NoBackDue
  <2> QED
    BY <2>1, <2>2, <2>3, ContentParts DEF Buffered
<1>5. /\ C \in Nat /\ C = Len(disk[f]) + Len(buf[g_log_fd]) /\ Len(disk[f]) \in Nat
      /\ Len(buf[g_log_fd]) \in Nat /\ Len(buf[g_log_fd]) <= BufCap
  BY <1>1, <1>4, ConcatProperties, LenProperties DEF StdioOK, BuffersFit
<1>6. C <= Base + 2 * Since + 2
  <2>1. \A u \in Thread : ~TooLarge(u)
    BY <1>1, AloneAt DEF TooLarge, InCut
  <2>2. C <= Base + 2 * Since + Uncounted
    BY <2>1 DEF FileSize
  <2>3. Base \in Int /\ Since \in Int /\ Uncounted \in 0..2
    BY UncountedType, BaseFacts DEF BaseOK, TickInv, NoCutFault
  <2>4. C \in Nat
    BY <1>5
  <2> HIDE DEF C
  <2> QED
    BY <2>2, <2>3, <2>4
<1> DEFINE limit == max_size' * MB
<1>7. /\ Base' \in Int /\ Period = 2 * TickLimit + 4 /\ TickLimit \in Nat /\ Base \in Int
      /\ Base <= Base' /\ limit \in Int /\ limit - 1 + BufCap <= Base' /\ Period <= Base'
      /\ Since \in 0..(TickLimit + 1) /\ Since' \in 0..(TickLimit + 1) /\ BufCap \in Nat
  <2>1. /\ Base' \in Int /\ limit \in Int /\ limit - 1 + BufCap <= Base'
        /\ Period' <= Base' /\ MaxOld <= Base'
    <3>1. BaseOK'
      BY BaseFacts, PTL
    <3> QED
      BY <1>2, <3>1 DEF BaseOK
  <2>2. Base <= Base'
    <3>1. CASE max_size = NULL
      BY <2>1, <3>1 DEF Base
    <3>2. CASE max_size # NULL
      <4>1. Base' = Base
        BY <1>2, <3>2 DEF Base
      <4> QED
        BY <2>1, <4>1
    <3> QED
      BY <3>1, <3>2
  <2>3. Since \in 0..(TickLimit + 1) /\ Since' \in 0..(TickLimit + 1)
    BY DEF TickInv, NoCutFault
  <2> QED
    BY <2>1, <2>2, <2>3, BaseFacts, LogAssumption DEF Period, BaseOK
<1>8. CASE pc'[t] = "finish"
  <2>1. Len(disk[f]) < limit
    <3>1. Below(Len(disk[g_log_file]), max_size')
      BY <1>1, <1>8 DEF Stat, Goto, ThreadOK, NoCutFault, CutFaults
    <3>2. ~(max_size' < 0)
      <4>1. max_size' \in Int
        <5>1. BaseOK'
          BY BaseFacts, PTL
        <5> QED
          BY <1>2, <5>1 DEF BaseOK
      <4> QED
        BY <1>2, <4>1 DEF Limited
    <3> QED
      BY <1>4, <3>1, <3>2 DEF Below
  <2>2. C <= Base'
    <3> DEFINE d == Len(disk[f])
               b == Len(buf[g_log_fd])
    <3>1. C = d + b /\ d \in Nat /\ b \in Nat /\ b <= BufCap /\ d < limit
      BY <1>5, <2>1
    <3> HIDE DEF d, b, limit, C
    <3> QED
      BY <1>7, <3>1
  <2>3. C <= Base' + 2 * Since' + Uncounted'
    <3>1. Uncounted' \in 0..2
      BY DEF Uncounted, Written
    <3>2. C \in Nat
      BY <1>5
    <3> DEFINE d == Base'
               r == Since'
               u == Uncounted'
    <3>3. C \in Int /\ d \in Int /\ r \in Nat /\ u \in Nat /\ C <= d
      BY <1>7, <2>2, <3>1, <3>2
    <3> HIDE DEF C, d, r, u
    <3>4. C <= d + 2 * r + u
      BY <3>3, RecordSum
    <3> QED
      BY <3>4 DEF d, r, u
  <2>4. ~TooLarge(t)'
    BY <1>8 DEF TooLarge, InCut
  <2> QED
    BY <1>1, <1>3, <2>2, <2>3, <2>4, AloneSize DEF Step, C
<1>9. CASE pc'[t] = "close"
  <2>1. C <= Base' + Period
    <3>1. C \in Nat
      BY <1>5
    <3>2. Base \in Int /\ Base' \in Int /\ Base <= Base'
      BY <1>7
    <3>3. Since \in Int /\ 2 * Since + 2 <= Period /\ Period \in Int
      BY <1>7
    <3> DEFINE d == Base'
    <3> HIDE DEF C
    <3>4. C <= Base + 2 * Since + 2 /\ d \in Int /\ Base <= d
      BY <1>6, <3>2
    <3> HIDE DEF d
    <3>5. C <= d + Period
      BY <3>1, <3>2, <3>3, <3>4, PeriodSum
    <3> QED
      BY <3>5 DEF d
  <2>2. TooLarge(t)' /\ ~Sized(t)'
    BY <1>9 DEF TooLarge, Sized, Reopening, InInit
  <2>3. Period' = Period
    BY DEF Period
  <2> QED
    BY <1>1, <1>3, <2>1, <2>2, <2>3, AloneSize DEF Step
<1> QED
  BY <1>1, <1>8, <1>9

\* The half that a cut keeps of a log is within the limit.
LEMMA SizeCut ==
  ASSUME SerialInit, SafeInv, SafeInv', CutInv, NEW t \in Thread,
         Truncate(t) \/ CopyBack(t), TickInv,
         NoCutFault, NEW f \in File, File = {f}, FileSize(f)
  PROVE  FileSize(f)'
<1> DEFINE C == Len(Content(f))
<1>1. /\ ThreadOK /\ UNCHANGED <<max_size, check_tick>> /\ max_size # NULL
      /\ pc[t] \in {"truncate", "copy_back"} /\ pc'[t] \in {"copy_back", "ending"}
  BY DEF SafeInv, Inv, TypeOK, ThreadOK, Truncate, CopyBack, At, Goto, NoCutFault,
         CutFaults, cutting, TickInv, TooLarge, InCut
<1>2. /\ Base \in Int /\ Period <= Base /\ Base' = Base /\ Period' = Period
      /\ Period \in Nat /\ C \in Nat
  BY <1>1, BaseFacts, ContentParts, LenProperties DEF BaseOK, Base, Period
<1>3. C <= Base + Period /\ (pc[t] = "copy_back" => C <= Base)
  BY <1>1 DEF FileSize, TooLarge, Sized, InCut
<1>4. Len(Content(f)') <= Base
  <2>1. CASE Truncate(t)
    <3>1. g_log_file = f /\ pc[t] = "truncate"
      BY <2>1, TmpUnits DEF Truncate, At
    <3>2. Content(f) = disk[f] /\ Content(f)' = tmp
      BY <2>1, <3>1, ContentTruncate DEF NoCutFault, CutFaults
    <3>3. PICK k \in 0..len : Len(tmp) = len - k
      BY <3>1, TmpUnits
    <3>4. len = C - C \div 2
      BY <3>1, <3>2, TmpUnits
    <3> HIDE DEF C
    <3>5. C - C \div 2 <= Base /\ C - C \div 2 \in Nat
      BY <1>2, <1>3
    <3> QED
      BY <1>2, <3>2, <3>3, <3>4, <3>5
  <2>2. CASE CopyBack(t)
    <3>1. pc[t] = "copy_back" /\ Len(tmp) <= len /\ tmp \in Seq(Unit) /\ len \in Nat
          /\ Len(tmp) \in Nat
      BY <2>2, LenProperties DEF CopyBack, At, CutInv, SafeInv, Inv, TypeOK, CuttingOK
    <3>2. \A k \in Shortfall(Len(tmp)) : Len(Sent(tmp, 0, len, k)) <= Len(tmp)
      BY <3>1, ShortfallType, SentShorter
    <3>3. Len(Content(f)') \in Nat
      BY ContentParts, LenProperties
    <3>4. CASE Content(f)' = Content(f)
      BY <1>3, <3>1, <3>4
    <3>5. CASE /\ Content(f) = tmp
               /\ \/ Content(f)' = <<>>
                  \/ \E k \in Shortfall(Len(tmp)) : Content(f)' = Sent(tmp, 0, len, k)
      <4>1. CASE Content(f)' = <<>>
        BY <1>2, <1>3, <3>1, <4>1
      <4>2. ASSUME NEW k \in Shortfall(Len(tmp)), Content(f)' = Sent(tmp, 0, len, k)
            PROVE  Len(Content(f)') <= Base
        BY <1>2, <1>3, <3>1, <3>2, <3>3, <3>5, <4>2
      <4> QED
        BY <3>5, <4>1, <4>2
    <3> QED
      BY <2>2, <3>4, <3>5, ContentBack
  <2> QED
    BY <2>1, <2>2
<1>5. TooLarge(t)'
  BY <1>1 DEF TooLarge, InCut
<1>6. Len(Content(f)') <= Base + Period
  BY <1>2, <1>4, ContentParts, LenProperties
<1> QED
  BY <1>1, <1>2, <1>4, <1>5, <1>6, AloneSize DEF Step

\* Counting a record, or restarting the count, accounts for its units.
LEMMA SizeFinish ==
  ASSUME SerialInit, SafeInv, SafeInv', NEW t \in Thread, Finish(t), TickInv, TickInv',
         NoCutFault, NEW f \in File, FileSize(f)
  PROVE  FileSize(f)'
<1> DEFINE C == Len(Content(f))
<1>1. /\ ThreadOK /\ pc[t] = "finish" /\ pc'[t] = "unlock" /\ max_size' = max_size
      /\ check_tick' = IF EveryRecord THEN check_tick
                        ELSE (IF CheckDue THEN 0 ELSE check_tick) + 1
      /\ check_tick \in Nat
      /\ mutex' = mutex
  BY DEF SafeInv, Inv, TypeOK, ThreadOK, Finish, At, Goto, cutting
<1>2. Content(f)' = Content(f) /\ C \in Nat
  BY <1>1, ContentKept, ContentParts, LenProperties
     DEF Step, FHead, FBody, Truncate, CopyBack, At
<1>3. Base \in Int /\ Base' = Base /\ Since \in Nat /\ Since' \in Nat
  BY <1>1, BaseFacts DEF BaseOK, Base, TickInv, NoCutFault
<1>4. ~TooLarge(t)' /\ ~Sized(t)' /\ \A u \in Thread : ~TooLarge(u)
  BY <1>1, AloneAt DEF TooLarge, Sized, Reopening, InCut, InInit
<1>5. Uncounted = 2 /\ Uncounted' = 0
  <2>1. mutex = t /\ t # NULL
    BY <1>1, UncountedAt, NullFacts DEF UserInit, InInit
  <2> QED
    BY <1>1, <2>1 DEF Uncounted, Written
<1>6. CASE CheckDue
  <2>1. C <= Base
    BY <1>1, <1>6 DEF FileSize, Sized
  <2> DEFINE r == Since'
  <2>2. r \in Nat
    BY <1>3
  <2> HIDE DEF C, r
  <2>3. C <= Base + 2 * r + 0
    BY <1>2, <1>3, <2>1, <2>2, RecordSum
  <2> QED
    BY <1>1, <1>2, <1>3, <1>4, <1>5, <2>3, AloneSize DEF Step, C, r
<1>7. CASE ~CheckDue
  <2>1. Since' = Since + 1
    <3>1. ~EveryRecord
      BY <1>7 DEF CheckDue
    <3> QED
      BY <1>1, <1>7, <3>1 DEF Since
  <2>2. C <= Base + 2 * Since + 2
    BY <1>4, <1>5 DEF FileSize
  <2> DEFINE r == Since'
  <2>3. r = Since + 1
    BY <2>1
  <2> HIDE DEF C, r
  <2>4. C <= Base + 2 * r + 0
    BY <1>2, <1>3, <2>2, <2>3
  <2> QED
    BY <1>1, <1>2, <1>3, <1>4, <1>5, <2>4, AloneSize DEF Step, C, r
<1> QED
  BY <1>6, <1>7

\* log_init, whoever calls it, leaves the size alone.
LEMMA SizeInit ==
  ASSUME SerialInit, SafeInv, SafeInv', NEW t \in Thread, NEW f \in File,
         Content(f)' = Content(f),
         InitClose(t) \/ InitOpen(t) \/ InitSet(t) \/ Ending(t), TickInv, NoCutFault,
         FileSize(f)
  PROVE  FileSize(f)'
<1> DEFINE C == Len(Content(f))
<1>1. /\ ThreadOK /\ pc[t] \in InInit \cup {"ending"} /\ arg[t].back \in {"idle", "finish"}
      /\ UNCHANGED <<max_size, check_tick, mutex>>
  BY ArgBack
     DEF SafeInv, Inv, TypeOK, InitClose, InitOpen, InitSet, Ending, At, InInit, cutting
<1>2. Base \in Int /\ Base' = Base /\ Since \in Nat /\ Since' = Since /\ C \in Nat
  BY <1>1, BaseFacts, ContentParts, LenProperties
     DEF BaseOK, Base, Since, TickInv, NoCutFault
<1>3. ~TooLarge(t)' /\ (Sized(t)' => pc[t] = "ending" \/ Reopening(t))
  <2>1. CASE InitClose(t) \/ Ending(t)
    BY <1>1, <2>1
       DEF InitClose, Ending, At, Goto, ThreadOK, TooLarge, Sized, Reopening, InCut,
           InInit
  <2>2. CASE InitOpen(t) \/ InitSet(t)
    BY <1>1, <2>2
       DEF InitOpen, InitSet, At, Goto, Return, ThreadOK, TooLarge, Sized, Reopening,
           InCut, InInit
  <2> QED
    BY <2>1, <2>2
<1>4. C <= Base + 2 * Since + Uncounted'
  <2> DEFINE u == Uncounted'
  <2>1. u \in Nat
    BY DEF Uncounted, Written
  <2>2. CASE pc[t] = "ending" \/ Reopening(t)
    <3>1. C <= Base
      BY <2>2 DEF FileSize, Sized
    <3> HIDE DEF C, u
    <3>2. C <= Base + 2 * Since + u
      BY <1>2, <2>1, <3>1, RecordSum
    <3> QED
      BY <3>2 DEF u
  <2>3. CASE ~(pc[t] = "ending" \/ Reopening(t))
    <3>1. UserInit(t)
      BY <1>1, <2>3 DEF UserInit, Reopening
    <3>2. Uncounted = 0
      BY <1>1, <3>1, UncountedAt DEF InInit
    <3>3. \A v \in Thread : ~TooLarge(v)
      BY <1>1, <2>3, AloneAt DEF TooLarge, InCut, InInit
    <3>4. C <= Base + 2 * Since + 0
      BY <3>2, <3>3 DEF FileSize
    <3> HIDE DEF C, u
    <3>5. C <= Base + 2 * Since + u
      BY <1>2, <2>1, <3>4
    <3> QED
      BY <3>5 DEF u
  <2> QED
    BY <2>2, <2>3
<1>5. Sized(t)' => C <= Base
  BY <1>3 DEF FileSize, Sized
<1> QED
  BY <1>1, <1>2, <1>3, <1>4, <1>5, AloneSize DEF Step, InInit

\* The steps of the cut before the file is truncated leave its size alone.
LEMMA SizeCutting ==
  ASSUME SerialInit, SafeInv, SafeInv', NEW t \in Thread, NEW f \in File,
         Content(f)' = Content(f),
         CloseLog(t) \/ Stat2(t) \/ OpenLog(t) \/ Mkstemp(t) \/ CopyOut(t),
         NoCutFault, FileSize(f)
  PROVE  FileSize(f)'
<1>1. /\ ThreadOK /\ UNCHANGED <<max_size, check_tick>>
      /\ pc[t] \in {"close", "stat2", "open", "mkstemp", "copy_out"}
      /\ pc'[t] \in {"stat2", "open", "mkstemp", "copy_out", "truncate"}
  BY DEF SafeInv, Inv, TypeOK, ThreadOK, CloseLog, Stat2, OpenLog, Mkstemp, CopyOut, At,
         Goto, cutting, NoCutFault, CutFaults
<1>2. Base' = Base /\ Period' = Period
  BY <1>1 DEF Base, Period
<1>3. Len(Content(f)) <= Base + Period
  BY <1>1 DEF FileSize, TooLarge, InCut
<1>4. TooLarge(t)' /\ ~Sized(t)'
  BY <1>1 DEF TooLarge, Sized, Reopening, InCut, InInit
<1> QED
  BY <1>1, <1>2, <1>3, <1>4, AloneSize DEF Step

\* The terminal, the calls and the mutex do not matter to the size.
LEMMA SizeIdle ==
  ASSUME SerialInit, SafeInv, SafeInv', NEW t \in Thread, NEW f \in File,
         Content(f)' = Content(f),
         Call(t) \/ Lock(t) \/ THead(t) \/ TBody(t) \/ Unlock(t), FileSize(f)
  PROVE  FileSize(f)'
<1>1. /\ ThreadOK /\ LockInv /\ mutex \in Thread \cup {NULL}
      /\ pc[t] \in {"idle", "lock", "thead", "tbody", "unlock"}
      /\ pc'[t] \in {"idle", "lock", "fhead", "thead", "tbody", "unlock"} \cup InInit
      /\ UNCHANGED <<max_size, check_tick>>
      /\ pc'[t] \in InInit => arg'[t].back = "idle"
  BY DEF SafeInv, Inv, TypeOK, ThreadOK, Call, LogCall, InitCall, Lock, THead, TBody,
         Unlock, At, Goto, cutting, InInit
<1>2. \A u \in Thread \ {t} : pc'[u] = pc[u] /\ arg'[u] = arg[u]
  BY <1>1, Others DEF Step
<1>3. Base' = Base /\ Since' = Since /\ Period' = Period
  BY <1>1 DEF Base, Since, Period
<1>4. \A u \in Thread : (TooLarge(u)' <=> TooLarge(u)) /\ (Sized(u)' => Sized(u))
  <2>1. \A u \in Thread \ {t} : (TooLarge(u)' <=> TooLarge(u)) /\ (Sized(u)' <=> Sized(u))
    BY <1>1, <1>2 DEF TooLarge, Sized, Reopening, CheckDue
  <2>2. ~TooLarge(t) /\ ~TooLarge(t)' /\ ~Sized(t)'
    BY <1>1 DEF TooLarge, Sized, Reopening, InCut, InInit
  <2> QED
    BY <2>1, <2>2
<1>5. Uncounted' = Uncounted
  <2>1. Written(t) = 0 /\ Written(t)' = 0
    BY <1>1 DEF Written, InInit
  <2>2. \A u \in Thread : Written(u)' = Written(u)
    BY <1>2, <2>1 DEF Written
  <2>3. CASE mutex' = mutex
    BY <1>1, <2>2, <2>3 DEF Uncounted
  <2>4. CASE Lock(t) \/ Unlock(t)
    <3>1. Uncounted = 0 /\ Uncounted' = 0
      <4>1. CASE Lock(t)
        BY <2>1, <4>1, NullFacts DEF Lock, Uncounted, Written
      <4>2. CASE Unlock(t)
        BY <1>1, <2>1, <4>2 DEF Unlock, At, Uncounted, LockInv, Holding
      <4> QED
        BY <2>4, <4>1, <4>2
    <3> QED
      BY <3>1
  <2> QED
    BY <2>3, <2>4 DEF Call, LogCall, InitCall, THead, TBody
<1> QED
  BY <1>3, <1>4, <1>5 DEF FileSize

\* The size of the log stays within bounds after a step.
LEMMA SizeNext ==
  ASSUME SerialInit, SafeInv, SafeInv', CutInv, TickInv, TickInv', SizeInv,
         NEW t \in Thread, Step(t) \/ Call(t)
  PROVE  SizeInv'
<1>1. BuffersFit'
  BY BufferNext DEF SizeInv, BuffersFit
<1>2. ASSUME NoCutFault, Limited', NEW f \in File, File = {f} PROVE FileSize(f)'
  <2>1. Limited
    <3>1. max_size = NULL \/ max_size' = max_size
      BY Frame DEF cutting, Stat, Stat2, OpenLog, Mkstemp, CopyOut, Ending
    <3> QED
      BY <1>2, <3>1 DEF Limited
  <2>2. FileSize(f)
    BY <1>2, <2>1 DEF SizeInv, FileSize, NoCutFault, Limited
  <2>3. CASE FHead(t) \/ FBody(t)
    BY <1>2, <2>2, <2>3, SizeWrite
  <2>4. CASE Truncate(t) \/ CopyBack(t)
    BY <1>2, <2>2, <2>4, SizeCut
  <2>5. CASE Stat(t)
    BY <1>2, <2>2, <2>5, SizeStat DEF SizeInv, BuffersFit
  <2>6. CASE Finish(t)
    BY <1>2, <2>2, <2>6, SizeFinish
  <2>7. ASSUME ~FHead(t), ~FBody(t), ~Truncate(t), ~CopyBack(t), ~Stat(t), ~Finish(t)
        PROVE  FileSize(f)'
    <3>1. Content(f)' = Content(f)
      BY <2>7, ContentKept
    <3>2. CASE InitClose(t) \/ InitOpen(t) \/ InitSet(t) \/ Ending(t)
      BY <1>2, <2>2, <3>1, <3>2, SizeInit
    <3>3. CASE CloseLog(t) \/ Stat2(t) \/ OpenLog(t) \/ Mkstemp(t) \/ CopyOut(t)
      BY <1>2, <2>2, <3>1, <3>3, SizeCutting
    <3>4. CASE Call(t) \/ Lock(t) \/ THead(t) \/ TBody(t) \/ Unlock(t)
      BY <1>2, <2>2, <3>1, <3>4, SizeIdle
    <3> QED
      BY <2>7, <3>2, <3>3, <3>4, Defined DEF Step
  <2> QED
    BY <2>3, <2>4, <2>5, <2>6, <2>7
<1> QED
  BY <1>1, <1>2 DEF SizeInv, FileSize, NoCutFault, Limited, BuffersFit

\* Before the first record a log holds what an earlier run left in it.
LEMMA SizeInvInit ==
  ASSUME Init
  PROVE  TickInv /\ SizeInv
<1>1. /\ max_size = NULL /\ check_tick = 0 /\ mutex = NULL /\ streams = {}
      /\ \A t \in Thread : pc[t] = "idle"
      /\ TickLimit \in Nat /\ MaxOld \in Nat /\ BufCap \in Nat
  BY LogAssumption DEF Init
<1>2. \A t \in Thread : ~TooLarge(t) /\ ~Sized(t) /\ ~Reopening(t) /\ pc[t] # "stat"
  BY <1>1 DEF TooLarge, Sized, Reopening, InCut, InInit
<1>3. Since = 0 /\ Base = MaxOld /\ Uncounted = 0
  BY <1>1 DEF Since, Base, Uncounted
<1>4. TickInv
  BY <1>1, <1>2, <1>3 DEF TickInv
<1>5. BuffersFit
  BY <1>1 DEF Init, BuffersFit
<1>6. ASSUME NEW f \in File PROVE Len(Content(f)) <= MaxOld
  <2>1. PICK n \in [File -> 0..MaxOld] : disk = [g \in File |-> OldLog(n[g])]
    BY DEF Init
  <2>2. disk[f] \in Seq(Unit)
    BY InvInit DEF Inv, TypeOK, StdioOK
  <2>3. Content(f) = disk[f] \o <<>>
    BY <1>1 DEF Content
  <2>4. Content(f) = OldLog(n[f])
    BY <2>1, <2>2, <2>3, ConcatEmptySeq
  <2>5. n[f] \in Nat /\ n[f] <= MaxOld
    BY <1>1
  <2>6. Len(OldLog(n[f])) = n[f]
    BY <2>5 DEF OldLog
  <2> QED
    BY <2>4, <2>5, <2>6
<1>7. ASSUME NEW f \in File PROVE FileSize(f)
  <2>1. Len(Content(f)) <= Base + 2 * Since + Uncounted
    <3>1. Base + 2 * Since + Uncounted = MaxOld
      BY <1>1, <1>3
    <3> QED
      BY <1>6, <3>1
  <2> QED
    BY <1>2, <2>1 DEF FileSize
<1> QED
  BY <1>4, <1>5, <1>7 DEF SizeInv, FileSize, BuffersFit

\* The size of the log, record by record, whatever fails in writing it back.
THEOREM SizeInvCorrect ==
  ASSUME SerialInit
  PROVE  Spec => [](TickInv /\ SizeInv)
<1>1. Init => TickInv /\ SizeInv
  BY SizeInvInit
<1>2. /\ SafeInv /\ SafeInv' /\ CutInv /\ TickInv /\ SizeInv /\ [Next]_vars
      => TickInv' /\ SizeInv'
  <2> SUFFICES ASSUME SafeInv, SafeInv', CutInv, TickInv, SizeInv, [Next]_vars
               PROVE  TickInv' /\ SizeInv'
    OBVIOUS
  <2>1. ASSUME NEW t \in Thread, Step(t) \/ Call(t) PROVE TickInv' /\ SizeInv'
    <3>1. TickInv'
      BY <2>1, TickNext
    <3> QED
      BY <2>1, <3>1, SizeNext
  <2>2. CASE UNCHANGED vars
    <3> USE <2>2 DEF vars, config, cutting, stdio, counters
    <3>1. \A f \in File : Content(f)' = Content(f)
      BY DEF Content
    <3>2. Since' = Since /\ Base' = Base /\ Period' = Period /\ Uncounted' = Uncounted
          /\ CheckDue' = CheckDue
      BY DEF Since, Base, Period, Uncounted, Written, CheckDue
    <3>3. \A t \in Thread : /\ TooLarge(t)' = TooLarge(t) /\ Sized(t)' = Sized(t)
                            /\ Reopening(t)' = Reopening(t)
      BY DEF TooLarge, Sized, Reopening, CheckDue
    <3>4. TickInv'
      BY <3>2, <3>3 DEF TickInv
    <3>5. SizeInv'
      BY <3>1, <3>2, <3>3 DEF SizeInv
    <3> QED
      BY <3>4, <3>5
  <2> QED
    BY <2>1, <2>2 DEF Next
<1>3. LogInv => SafeInv /\ CutInv
  BY DEF LogInv
<1> QED
  BY <1>1, <1>2, <1>3, LogInvCorrect, PTL DEF Spec

\* What bounds the size holds together with the invariants of the core.
THEOREM FullInvCorrect ==
  ASSUME SerialInit
  PROVE  Spec => []FullInv
<1>1. LogInv /\ TickInv /\ SizeInv => FullInv
  BY DEF LogInv, SafeInv, FullInv
<1> QED
  BY <1>1, LogInvCorrect, SizeInvCorrect, PTL

\* Bounded size: as long as no cut fails, the log of a program that logs to one
\* file never outgrows its limit by more than a stdio buffer and the records of
\* one checking period, for every limit, every number of threads and every
\* checking period, and even if writing the copy back fails or falls short.
THEOREM SizeCorrect ==
  ASSUME SerialInit
  PROVE  Spec => []SizeBound
<1>1. LogInv /\ TickInv /\ SizeInv => SizeBound
  <2> SUFFICES ASSUME LogInv, TickInv, SizeInv, Limit >= 0, NoCutFault,
                      NEW f \in File, File = {f}
               PROVE  Len(Content(f))
                        <= Larger(Larger(MaxOld, Period), Limit * MB - 1 + BufCap) + Period
    BY DEF SizeBound, NoCutFault
  <2> DEFINE C == Len(Content(f))
             bound == Larger(Larger(MaxOld, Period), Limit * MB - 1 + BufCap)
  <2>1. SafeInv /\ BaseOK
    BY BaseFacts DEF LogInv
  <2>2. Limited
    BY DEF Limited, Limit
  <2>3. FileSize(f) /\ C \in Nat
    BY <2>1, <2>2, ContentParts, LenProperties
       DEF SizeInv, FileSize, NoCutFault, Limited
  <2>4. C <= Base + Period
    <3>1. CASE \E t \in Thread : TooLarge(t)
      BY <2>3, <3>1 DEF FileSize
    <3>2. CASE C <= Base + 2 * Since + Uncounted
      <4>1. Since \in 0..(TickLimit + 1) /\ Uncounted \in 0..2
        BY UncountedType DEF TickInv, NoCutFault
      <4>2. Base \in Int /\ Period = 2 * TickLimit + 4 /\ TickLimit \in Nat
        BY <2>1 DEF BaseOK
      <4>3. C \in Nat
        BY <2>3
      <4> HIDE DEF C
      <4> QED
        BY <3>2, <4>1, <4>2, <4>3
    <3> QED
      BY <2>3, <3>1, <3>2 DEF FileSize
  <2>5. Base <= bound /\ bound \in Int
    <3>1. MaxOld \in Nat /\ Period \in Int /\ Limit * MB - 1 + BufCap \in Int
      <4>1. IntMb(g_max_mb) \in Int
        BY <2>1, LimitType
      <4>2. Limit \in Int
        BY <2>1, <4>1 DEF Limit, BaseOK
      <4> QED
        BY <2>1, <4>2, LogAssumption DEF BaseOK
    <3>2. CASE max_size = NULL
      BY <2>1, <3>1, <3>2 DEF BaseOK, Larger
    <3>3. CASE max_size # NULL
      <4>1. Base = bound
        BY <3>3 DEF Base, Limit
      <4> QED
        BY <2>1, <4>1 DEF BaseOK
    <3> QED
      BY <3>2, <3>3
  <2> HIDE DEF C, bound
  <2>6. Base \in Int /\ Period \in Int /\ C \in Nat
    BY <2>1, <2>3 DEF BaseOK
  <2>7. C <= bound + Period
    BY <2>4, <2>5, <2>6
  <2> QED
    BY <2>7 DEF C, bound
<1> QED
  BY <1>1, LogInvCorrect, SizeInvCorrect, PTL
=============================================================================
