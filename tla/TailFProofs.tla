---------------------------- MODULE TailFProofs ----------------------------
(***************************************************************************)
(* Proofs about the follower of 011/main.cpp for files and signals without *)
(* bound, every read size and every combination of failing calls.          *)
(***************************************************************************)
EXTENDS TailF, SequenceTheorems, TLAPS

-----------------------------------------------------------------------------
(* The inductive invariant                                                 *)

\* What is open at each program point of tail_f.
OpenInv ==
  /\ pc \in {"start", "access", "inotify_init", "quit_test", "pause", "exit"}
       => open = {}
  /\ pc = "add_watch" => "nty_fd" \in open
  /\ pc \in {"epoll_create", "epoll_ctl", "stat", "open"} \cup Loop
       => "watch_fd" \in open
  /\ "watch_fd" \in open => "nty_fd" \in open

Inv == TypeOK /\ OpenInv

Increasing(s) == \A i, j \in 1..Len(s) : i < j => s[i] < s[j]

\* Bytes stand in the file, and are shown, in the order in which they were
\* written, and what is unread comes after everything shown.  Bytes written up
\* to the read offset, after a truncation, are covered by neither.
OrderInv ==
  /\ Increasing(file) /\ Increasing(shown)
  /\ \A i \in 1..Len(file) : file[i] <= written
  /\ \A i \in 1..Len(shown) : shown[i] <= written
  /\ \A i \in 1..Len(shown), j \in (off + 1)..Len(file) : shown[i] < file[j]

-----------------------------------------------------------------------------
(* Proofs                                                                  *)

\* A prefix or a piece of a sequence of bytes is one.
LEMMA PieceType ==
  ASSUME NEW S, NEW s \in Seq(S), NEW b \in Nat, NEW n \in Int, n <= Len(s)
  PROVE  SubSeq(s, b + 1, n) \in Seq(S)
<1>1. Len(s) \in Nat
  BY LenProperties
<1>2. \A i \in (b + 1)..n : s[i] \in S
  BY <1>1, ElementOfSeq
<1> QED
  BY <1>2, SubSeqProperties

\* A read ends inside the file and after its start.
LEMMA ReadEndType ==
  ASSUME TypeOK, off < Len(file)
  PROVE  ReadEnd \in Nat /\ off < ReadEnd /\ ReadEnd <= Len(file)
<1>1. Len(file) \in Nat /\ off \in Nat
  BY LenProperties DEF TypeOK
<1>2. Chunk \in Nat \ {0}
  BY TailAssumption
<1> QED
  BY <1>1, <1>2 DEF ReadEnd

\* Which actions touch what was read, the file and the descriptors.
LEMMA Frame ==
  ASSUME Next
  PROVE  /\ UNCHANGED <<off, shown>> \/ Read
         /\ UNCHANGED <<file, written>> \/ Write \/ Truncate
         /\ \/ UNCHANGED open
            \/ InotifyInit \/ AddWatch \/ EpollCreate \/ OpenFile \/ Ending
         /\ UNCHANGED signals \/ debug_sig_handle
         /\ UNCHANGED stops \/ StopAndContinue
BY DEF Next, Process, Environment, debug_init, Access, InotifyInit, AddWatch, EpollCreate,
       Prepare, OpenFile, Acquire, Read, EpollWait, Interrupted, Drain, Ending, QuitTest,
       debug_sig_handle, StopAndContinue, TerminalInput, Write, Truncate, process, env

\* Type correctness is preserved by every step.
LEMMA TypeNext ==
  ASSUME TypeOK, Next
  PROVE  TypeOK'
<1>1. pc' \in PC
  BY DEF TypeOK, Next, Process, Environment, debug_init, Access, InotifyInit, AddWatch,
         EpollCreate, Prepare, OpenFile, Acquire, Read, EpollWait, Interrupted, Drain,
         Ending, QuitTest, debug_sig_handle, Interrupt, StopAndContinue, TerminalInput,
         Write, Truncate, process, PC, Setup, Loop
<1>2. handled' \in BOOLEAN /\ g_debug_quit' \in BOOLEAN /\ pending' \in BOOLEAN
      /\ ep_evout' \in Designated
  BY DEF TypeOK, Next, Process, Environment, debug_init, Access, InotifyInit, AddWatch,
         EpollCreate, Prepare, OpenFile, Acquire, Read, EpollWait, Interrupted, Drain,
         Ending, QuitTest, debug_sig_handle, StopAndContinue, TerminalInput,
         Write, Truncate, Notify, process, Designated
<1>3. open' \subseteq Descriptor
  BY Frame DEF TypeOK, InotifyInit, AddWatch, EpollCreate, OpenFile, Acquire, Ending,
               Descriptor
<1>4. file' \in Seq(1..MaxBytes) /\ written' \in 0..MaxBytes
  <2>1. CASE Write
    <3>1. written + 1 \in 1..MaxBytes
      BY <2>1, TailAssumption DEF Write, TypeOK
    <3>2. Append(file, written + 1) \in Seq(1..MaxBytes)
      BY <3>1, AppendProperties DEF TypeOK
    <3> QED
      BY <2>1, <3>1, <3>2 DEF Write
  <2>2. CASE Truncate
    <3>1. PICK n \in 0..(Len(file) - 1) : file' = SubSeq(file, 1, n)
      BY <2>2 DEF Truncate
    <3>2. Len(file) \in Nat
      BY LenProperties DEF TypeOK
    <3>3. ASSUME NEW i \in 1..n PROVE file[i] \in 1..MaxBytes
      <4>1. i \in 1..Len(file)
        BY <3>1, <3>2
      <4> QED
        BY <4>1, ElementOfSeq DEF TypeOK
    <3>4. SubSeq(file, 1, n) \in Seq(1..MaxBytes)
      BY <3>1, <3>3, SubSeqProperties
    <3> QED
      BY <2>2, <3>1, <3>4 DEF Truncate, TypeOK
  <2> QED
    BY <2>1, <2>2, Frame DEF TypeOK
<1>5. off' \in Nat /\ shown' \in Seq(1..MaxBytes)
  <2>1. CASE off < Len(file) /\ off' = ReadEnd /\ Printf(off, ReadEnd)
    <3>1. PICK n \in off..ReadEnd : shown' = shown \o SubSeq(file, off + 1, n)
      BY <2>1 DEF Printf
    <3>2. Len(file) \in Nat /\ off \in Nat
      BY LenProperties DEF TypeOK
    <3>3. n \in Int /\ n <= Len(file)
      BY <2>1, <3>1, <3>2, ReadEndType
    <3>4. SubSeq(file, off + 1, n) \in Seq(1..MaxBytes)
      BY <3>2, <3>3, PieceType DEF TypeOK
    <3>5. shown' \in Seq(1..MaxBytes)
      BY <3>1, <3>4, ConcatProperties DEF TypeOK
    <3> QED
      BY <2>1, <3>5, ReadEndType
  <2> QED
    BY <2>1, Frame DEF Read, TypeOK
<1>6. signals' \in 0..MaxSignals /\ stops' \in 0..MaxStops
  <2>1. MaxSignals \in Nat /\ MaxStops \in Nat
    BY TailAssumption
  <2>2. signals' \in 0..MaxSignals
    <3>1. CASE UNCHANGED signals
      BY <3>1 DEF TypeOK
    <3>2. CASE debug_sig_handle
      BY <2>1, <3>2 DEF debug_sig_handle, TypeOK
    <3> QED
      BY <3>1, <3>2, Frame
  <2>3. stops' \in 0..MaxStops
    <3>1. CASE UNCHANGED stops
      BY <3>1 DEF TypeOK
    <3>2. CASE StopAndContinue
      BY <2>1, <3>2 DEF StopAndContinue, TypeOK
    <3> QED
      BY <3>1, <3>2, Frame
  <2> QED
    BY <2>2, <2>3
<1> QED
  BY <1>1, <1>2, <1>3, <1>4, <1>5, <1>6 DEF TypeOK

\* The descriptors that are open fit the program point after every step.
LEMMA OpenNext ==
  ASSUME TypeOK, OpenInv, Next
  PROVE  OpenInv'
<1> USE DEF OpenInv, Loop
<1>1. CASE debug_init \/ Access \/ Prepare \/ QuitTest
  BY <1>1 DEF debug_init, Access, Prepare, QuitTest
<1>2. CASE InotifyInit \/ AddWatch \/ EpollCreate \/ OpenFile
  BY <1>2 DEF InotifyInit, AddWatch, EpollCreate, OpenFile, Acquire
<1>3. CASE Read \/ EpollWait \/ Interrupted \/ Drain
  BY <1>3 DEF Read, EpollWait, Interrupted, Drain
<1>4. CASE Ending
  BY <1>4 DEF Ending, TypeOK, Descriptor
<1>5. CASE debug_sig_handle \/ StopAndContinue \/ TerminalInput
  BY <1>5 DEF debug_sig_handle, Interrupt, StopAndContinue, TerminalInput
<1>6. CASE Write \/ Truncate
  BY <1>6 DEF Write, Truncate, process
<1> QED
  BY <1>1, <1>2, <1>3, <1>4, <1>5, <1>6 DEF Next, Process, Environment

\* The invariant holds in every reachable state.
THEOREM InvCorrect == Spec => []Inv
<1>1. Init => Inv
  <2> SUFFICES ASSUME Init PROVE Inv
    OBVIOUS
  <2>1. MaxBytes \in Nat /\ MaxSignals \in Nat /\ MaxStops \in Nat
    BY TailAssumption
  <2>2. TypeOK
    <3>1. written \in 0..MaxBytes /\ signals \in 0..MaxSignals /\ stops \in 0..MaxStops
      BY <2>1 DEF Init
    <3>2. file \in Seq(1..MaxBytes) /\ shown \in Seq(1..MaxBytes)
      BY EmptySeq DEF Init
    <3>3. pc \in PC /\ open \subseteq Descriptor /\ off \in Nat
      BY DEF Init, PC
    <3>4. /\ handled \in BOOLEAN /\ g_debug_quit \in BOOLEAN /\ pending \in BOOLEAN
          /\ ep_evout \in Designated
      BY DEF Init
    <3> QED
      BY <3>1, <3>2, <3>3, <3>4 DEF TypeOK
  <2>3. OpenInv
    BY DEF Init, OpenInv, Loop
  <2> QED
    BY <2>2, <2>3 DEF Inv
<1>2. Inv /\ [Next]_vars => Inv'
  <2> SUFFICES ASSUME Inv, [Next]_vars PROVE Inv'
    OBVIOUS
  <2>1. CASE Next
    BY <2>1, TypeNext, OpenNext DEF Inv
  <2>2. CASE UNCHANGED vars
    BY <2>2 DEF vars, process, env, Inv, TypeOK, OpenInv
  <2> QED
    BY <2>1, <2>2
<1> QED
  BY <1>1, <1>2, PTL DEF Spec

\* Clean-up: tail_f leaves no descriptor open when it returns, whichever of
\* its calls fails and whenever signals arrive.
THEOREM NoDescriptorLeak == Spec => []NoFdLeak
<1>1. Inv => NoFdLeak
  BY DEF Inv, OpenInv, NoFdLeak
<1> QED
  BY <1>1, InvCorrect, PTL

\* No lost wake-up: if reading the file does not fail, the process never waits
\* for an event while the file has data it has not printed.
THEOREM NoLostWakeUp ==
  ASSUME "read" \notin Faults
  PROVE  Spec => []NothingMissed
<1>1. Init => NothingMissed
  BY DEF Init, NothingMissed
<1>2. Inv /\ Inv' /\ NothingMissed /\ [Next]_vars => NothingMissed'
  <2> SUFFICES ASSUME Inv, NothingMissed, [Next]_vars PROVE NothingMissed'
    OBVIOUS
  <2>0. Len(file) \in Nat /\ off \in Nat
    BY LenProperties DEF Inv, TypeOK
  <2> USE DEF NothingMissed
  <2>1. CASE debug_init \/ Access \/ Prepare \/ QuitTest
    BY <2>1 DEF debug_init, Access, Prepare, QuitTest
  <2>2. CASE InotifyInit \/ AddWatch \/ EpollCreate \/ OpenFile
    BY <2>2 DEF InotifyInit, AddWatch, EpollCreate, OpenFile, Acquire
  <2>3. CASE Read
    BY <2>0, <2>3 DEF Read, env
  <2>4. CASE EpollWait \/ Interrupted \/ Drain \/ Ending
    BY <2>4 DEF EpollWait, Interrupted, Drain, Ending, env
  <2>5. CASE debug_sig_handle \/ StopAndContinue \/ TerminalInput
    BY <2>5 DEF debug_sig_handle, Interrupt, StopAndContinue, TerminalInput, env
  <2>6. CASE Write \/ Truncate
    <3>1. pc' = pc /\ off' = off /\ Notify
      BY <2>6 DEF Write, Truncate, process
    <3>2. pc \in Loop => pending' = TRUE
      BY <3>1 DEF Notify, Inv, OpenInv
    <3> QED
      BY <3>1, <3>2 DEF Loop
  <2>7. CASE UNCHANGED vars
    BY <2>7 DEF vars, process, env
  <2> QED
    BY <2>1, <2>2, <2>3, <2>4, <2>5, <2>6, <2>7 DEF Next, Process, Environment
<1> QED
  BY <1>1, <1>2, InvCorrect, PTL DEF Spec

\* The bytes of a read that are shown, b + 1 to n of the file, are in order, come
\* after what was shown before and before what is read later.
LEMMA ShownInOrder ==
  ASSUME NEW sh \in Seq(Nat), NEW fl \in Seq(Nat), Increasing(sh), Increasing(fl),
         NEW b \in Nat, NEW n \in b..Len(fl),
         \A i \in 1..Len(sh), j \in (b + 1)..Len(fl) : sh[i] < fl[j]
  PROVE  LET new == sh \o SubSeq(fl, b + 1, n) IN
         /\ Increasing(new)
         /\ \A i \in 1..Len(new) : new[i] \in {sh[k] : k \in 1..Len(sh)}
                                              \cup {fl[k] : k \in (b + 1)..n}
<1> DEFINE piece == SubSeq(fl, b + 1, n)
           new == sh \o piece
<1>1. Len(sh) \in Nat /\ Len(fl) \in Nat
  BY LenProperties
<1>2. \A i \in (b + 1)..n : fl[i] \in Nat
  BY <1>1, ElementOfSeq
<1>3. /\ piece \in Seq(Nat) /\ Len(piece) = n - b
      /\ \A i \in 1..(n - b) : piece[i] = fl[b + i]
  <2>1. Len(piece) = IF b + 1 <= n THEN n - (b + 1) + 1 ELSE 0
    BY <1>2, SubSeqProperties
  <2>2. piece \in Seq(Nat) /\ \A i \in 1..Len(piece) : piece[i] = fl[b + 1 + i - 1]
    BY <1>2, SubSeqProperties
  <2>3. Len(piece) = n - b
    BY <1>1, <2>1
  <2> QED
    BY <2>2, <2>3
<1> HIDE DEF piece
<1>4. /\ Len(new) = Len(sh) + (n - b)
      /\ \A i \in 1..Len(sh) : new[i] = sh[i]
      /\ \A i \in (Len(sh) + 1)..Len(new) : new[i] = fl[b + (i - Len(sh))]
  <2>1. /\ Len(new) = Len(sh) + Len(piece)
        /\ \A i \in 1..(Len(sh) + Len(piece)) :
             new[i] = IF i <= Len(sh) THEN sh[i] ELSE piece[i - Len(sh)]
    BY <1>3, ConcatProperties
  <2>2. \A i \in (Len(sh) + 1)..Len(new) : i - Len(sh) \in 1..(n - b)
    BY <1>1, <1>3, <2>1
  <2> QED
    BY <1>1, <1>3, <2>1, <2>2
<1> HIDE DEF new
<1>5. Increasing(new)
  <2> SUFFICES ASSUME NEW i \in 1..Len(new), NEW j \in 1..Len(new), i < j
               PROVE  new[i] < new[j]
    BY DEF Increasing
  <2>1. CASE j <= Len(sh)
    <3>1. i \in 1..Len(sh) /\ j \in 1..Len(sh)
      BY <1>1, <1>4, <2>1
    <3> QED
      BY <1>4, <3>1 DEF Increasing
  <2>2. CASE i <= Len(sh) /\ j > Len(sh)
    <3>1. b + (j - Len(sh)) \in (b + 1)..Len(fl)
      BY <1>1, <1>4, <2>2
    <3>2. new[i] = sh[i] /\ new[j] = fl[b + (j - Len(sh))]
      BY <1>1, <1>4, <2>2
    <3>3. i \in 1..Len(sh)
      BY <1>1, <2>2
    <3> QED
      BY <3>1, <3>2, <3>3
  <2>3. CASE i > Len(sh)
    <3>1. /\ b + (i - Len(sh)) \in 1..Len(fl) /\ b + (j - Len(sh)) \in 1..Len(fl)
          /\ b + (i - Len(sh)) < b + (j - Len(sh))
      BY <1>1, <1>4, <2>3
    <3>2. new[i] = fl[b + (i - Len(sh))] /\ new[j] = fl[b + (j - Len(sh))]
      BY <1>1, <1>4, <2>3
    <3> QED
      BY <3>1, <3>2 DEF Increasing
  <2> QED
    BY <1>1, <1>4, <2>1, <2>2, <2>3
<1>6. ASSUME NEW i \in 1..Len(new)
      PROVE  new[i] \in {sh[k] : k \in 1..Len(sh)} \cup {fl[k] : k \in (b + 1)..n}
  <2>1. CASE i <= Len(sh)
    <3>1. i \in 1..Len(sh)
      BY <1>1, <2>1
    <3> QED
      BY <1>4, <3>1
  <2>2. CASE i > Len(sh)
    <3>1. b + (i - Len(sh)) \in (b + 1)..n /\ i \in (Len(sh) + 1)..Len(new)
      BY <1>1, <1>4, <2>2
    <3> QED
      BY <1>4, <3>1
  <2> QED
    BY <1>1, <1>4, <2>1, <2>2
<1> QED
  BY <1>5, <1>6 DEF new, piece

\* Order is preserved by every step.
LEMMA OrderNext ==
  ASSUME TypeOK, TypeOK', OrderInv, Next
  PROVE  OrderInv'
<1>1. /\ Len(file) \in Nat /\ Len(shown) \in Nat /\ Len(file)' \in Nat
      /\ off \in Nat /\ written \in Nat
      /\ file \in Seq(Nat) /\ shown \in Seq(Nat)
      /\ \A i \in 1..Len(file) : file[i] \in Nat
      /\ \A i \in 1..Len(shown) : shown[i] \in Nat
  <2>1. 1..MaxBytes \subseteq Nat
    BY TailAssumption
  <2>2. file \in Seq(Nat) /\ shown \in Seq(Nat)
    BY <2>1, SeqMonotonic DEF TypeOK
  <2>3. written \in Nat /\ off \in Nat
    BY TailAssumption DEF TypeOK
  <2>4. Len(file)' \in Nat
    BY LenProperties DEF TypeOK
  <2> QED
    BY <2>2, <2>3, <2>4, LenProperties, ElementOfSeq
<1>2. CASE Write
  <2>1. /\ Len(file') = Len(file) + 1 /\ file'[Len(file) + 1] = written + 1
        /\ \A i \in 1..Len(file) : file'[i] = file[i]
    BY <1>1, <1>2, AppendProperties DEF Write
  <2>2. off' = off /\ shown' = shown /\ written' = written + 1
    BY <1>2 DEF Write, process
  <2>0. \A i \in 1..Len(file') : i \in 1..Len(file) \/ i = Len(file) + 1
    BY <1>1, <2>1
  <2>3. Increasing(file')
    <3> SUFFICES ASSUME NEW i \in 1..Len(file'), NEW j \in 1..Len(file'), i < j
                 PROVE  file'[i] < file'[j]
      BY DEF Increasing
    <3>1. i \in 1..Len(file)
      BY <1>1, <2>1
    <3>2. CASE j \in 1..Len(file)
      BY <2>1, <3>1, <3>2 DEF OrderInv, Increasing
    <3>3. CASE j = Len(file) + 1
      <4>1. file[i] <= written /\ file[i] \in Nat
        BY <1>1, <3>1 DEF OrderInv
      <4>2. file'[i] = file[i] /\ file'[j] = written + 1
        BY <2>1, <3>1, <3>3
      <4> QED
        BY <1>1, <4>1, <4>2
    <3> QED
      BY <2>0, <3>2, <3>3
  <2>4. ASSUME NEW i \in 1..Len(file') PROVE file'[i] <= written'
    <3>1. CASE i \in 1..Len(file)
      <4>1. file[i] <= written /\ file[i] \in Nat
        BY <1>1, <3>1 DEF OrderInv
      <4>2. file'[i] = file[i]
        BY <2>1, <3>1
      <4> QED
        BY <1>1, <2>2, <4>1, <4>2
    <3>2. CASE i = Len(file) + 1
      <4>1. file'[i] = written + 1
        BY <2>1, <3>2
      <4> QED
        BY <1>1, <2>2, <4>1
    <3> QED
      BY <2>0, <3>1, <3>2
  <2>5. \A i \in 1..Len(shown') : shown'[i] <= written'
    BY <1>1, <2>2 DEF OrderInv
  <2>6. ASSUME NEW i \in 1..Len(shown), NEW j \in (off + 1)..Len(file')
        PROVE  shown[i] < file'[j]
    <3>1. CASE j \in 1..Len(file)
      <4>1. j \in (off + 1)..Len(file)
        BY <1>1, <3>1
      <4> QED
        BY <2>1, <3>1, <4>1 DEF OrderInv
    <3>2. CASE j = Len(file) + 1
      <4>1. shown[i] <= written /\ shown[i] \in Nat /\ file'[j] = written + 1
        BY <1>1, <2>1, <3>2 DEF OrderInv
      <4> QED
        BY <1>1, <4>1
    <3>3. j \in 1..Len(file')
      BY <1>1
    <3> QED
      BY <2>0, <3>1, <3>2, <3>3
  <2> QED
    BY <2>2, <2>3, <2>4, <2>5, <2>6 DEF OrderInv, Increasing
<1>3. CASE Truncate
  <2>1. PICK n \in 0..(Len(file) - 1) : file' = SubSeq(file, 1, n)
    BY <1>3 DEF Truncate
  <2>2. /\ Len(file') = n
        /\ \A i \in 1..n : file'[i] = file[i]
    <3>1. \A i \in 1..n : file[i] \in Nat
      BY <1>1, <2>1
    <3>2. Len(file') = (IF 1 <= n THEN n - 1 + 1 ELSE 0)
          /\ \A i \in 1..Len(file') : file'[i] = file[1 + i - 1]
      BY <1>1, <2>1, <3>1, SubSeqProperties
    <3> QED
      BY <1>1, <2>1, <3>2
  <2>3. off' = off /\ shown' = shown /\ written' = written
    BY <1>3 DEF Truncate, process
  <2>4. 1..n \subseteq 1..Len(file) /\ (off + 1)..n \subseteq (off + 1)..Len(file)
    BY <1>1, <2>1
  <2>5. Increasing(file') /\ Increasing(shown')
    BY <2>2, <2>3, <2>4 DEF OrderInv, Increasing
  <2>6. \A i \in 1..n : file'[i] = file[i] /\ file[i] <= written
    BY <2>2, <2>4 DEF OrderInv
  <2>7. \A i \in 1..Len(file') : file'[i] <= written'
    BY <2>2, <2>3, <2>6
  <2>8. \A j \in (off + 1)..n : j \in 1..n
    BY <1>1
  <2>9. \A i \in 1..Len(shown), j \in (off + 1)..n : shown[i] < file[j]
    BY <2>4 DEF OrderInv
  <2>10. \A i \in 1..Len(shown'), j \in (off' + 1)..Len(file') : shown'[i] < file'[j]
    <3> SUFFICES ASSUME NEW i \in 1..Len(shown), NEW j \in (off + 1)..n
                 PROVE  shown[i] < file'[j]
      BY <2>2, <2>3
    <3> QED
      BY <2>6, <2>8, <2>9
  <2>11. \A i \in 1..Len(shown') : shown'[i] <= written'
    BY <2>3 DEF OrderInv
  <2> QED
    BY <2>5, <2>7, <2>10, <2>11 DEF OrderInv
<1>4. CASE off < Len(file) /\ off' = ReadEnd /\ Printf(off, ReadEnd) /\ Read
  <2>1. PICK n \in off..ReadEnd : shown' = shown \o SubSeq(file, off + 1, n)
    BY <1>4 DEF Printf
  <2>2. ReadEnd \in Nat /\ off < ReadEnd /\ ReadEnd <= Len(file)
    BY <1>4, ReadEndType
  <2>3. n \in off..Len(file)
    BY <1>1, <2>1, <2>2
  <2>4. UNCHANGED <<file, written>>
    BY <1>4 DEF Read, env
  <2>5. /\ Increasing(shown')
        /\ \A i \in 1..Len(shown') : shown'[i] \in {shown[k] : k \in 1..Len(shown)}
                                         \cup {file[k] : k \in (off + 1)..n}
    BY <1>1, <2>1, <2>3, ShownInOrder DEF OrderInv
  <2>6. ASSUME NEW i \in 1..Len(shown')
        PROVE  /\ shown'[i] <= written
               /\ \A j \in (off' + 1)..Len(file) : shown'[i] < file[j]
    <3>1. CASE \E k \in 1..Len(shown) : shown'[i] = shown[k]
      <4>1. (off' + 1)..Len(file) \subseteq (off + 1)..Len(file)
        BY <1>1, <1>4, <2>2
      <4> QED
        BY <3>1, <4>1 DEF OrderInv
    <3>2. CASE \E k \in (off + 1)..n : shown'[i] = file[k]
      <4>1. PICK k \in (off + 1)..n : shown'[i] = file[k]
        BY <3>2
      <4>2. k \in 1..Len(file)
        BY <1>1, <2>3
      <4>3. \A j \in (off' + 1)..Len(file) : j \in 1..Len(file) /\ k < j
        BY <1>1, <1>4, <2>1, <2>2
      <4> QED
        BY <4>1, <4>2, <4>3 DEF OrderInv, Increasing
    <3> QED
      BY <2>5, <3>1, <3>2
  <2>7. Increasing(file')
    BY <2>4 DEF OrderInv
  <2>8. \A i \in 1..Len(file') : file'[i] <= written'
    BY <2>4 DEF OrderInv
  <2>9. \A i \in 1..Len(shown'), j \in (off' + 1)..Len(file') : shown'[i] < file'[j]
    BY <2>4, <2>6
  <2>10. \A i \in 1..Len(shown') : shown'[i] <= written'
    BY <2>4, <2>6
  <2> QED
    BY <2>5, <2>7, <2>8, <2>9, <2>10 DEF OrderInv
<1>5. CASE UNCHANGED <<file, written, off, shown>>
  BY <1>5 DEF OrderInv, Increasing
<1> QED
  BY <1>2, <1>3, <1>4, <1>5, Frame DEF Read, env, Write, Truncate, process

\* No byte is shown twice or out of order, for any reads, truncations and zeros.
THEOREM ShownOnce == Spec => []InOrder
<1>1. Init => OrderInv
  BY DEF Init, OrderInv, Increasing
<1>2. TypeOK /\ TypeOK' /\ OrderInv /\ [Next]_vars => OrderInv'
  <2>1. CASE UNCHANGED vars
    BY <2>1 DEF vars, process, env, OrderInv, Increasing
  <2> QED
    BY <2>1, OrderNext
<1>3. Inv => TypeOK
  BY DEF Inv
<1>4. OrderInv => InOrder
  BY DEF OrderInv, Increasing, InOrder
<1> QED
  BY <1>1, <1>2, <1>3, <1>4, InvCorrect, PTL DEF Spec
=============================================================================
