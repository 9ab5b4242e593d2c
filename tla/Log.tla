-------------------------------- MODULE Log --------------------------------
(***************************************************************************)
(* The thread-safe logger of 002/log.cpp: log_init, __log and the          *)
(* size check check_file_size, which cuts an over-long file down to its    *)
(* newest half.  Log009 models the copy of it in 009/log/log.cpp.          *)
(*                                                                         *)
(* One action is one libc or system call together with the assignments     *)
(* that surround it, so every interleaving of the threads' calls is a      *)
(* behaviour.  The bytes of a log record are two units, the prefix str     *)
(* written by fprintf and the text written by vfprintf: enough to see a    *)
(* record interleaved with another one, or torn by the cut at the middle   *)
(* of the file.                                                            *)
(***************************************************************************)
EXTENDS Integers, Sequences, FiniteSets

CONSTANTS
  Thread,            \* threads that call __log and log_init
  File,              \* log file names
  Handle,            \* FILE objects that may be open at a time
  NULL,              \* the null pointer; also the empty g_log_file
  Level,             \* levels callers use, FATAL = 0 .. DEBUG = 4
  DEFAULT_LOG_LEVEL,
  MaxMb,             \* values callers pass as max_mb, a uint16_t
  MB,                \* units in a megabyte
  BufCap,            \* units a stdio buffer holds
  TickLimit,         \* the 1024 of "check_tick > 1024"
  EveryRecord,       \* TRUE: the size is checked after every record and nothing
                     \* is counted, as in 009/log/log.cpp
  Faults,            \* the calls that may fail
  SerialInit,        \* TRUE: log_init never overlaps another call
  MaxCalls,          \* bound: __log calls per thread
  MaxInits,          \* bound: log_init calls of the application
  MaxOld             \* bound: units in a log file before the program starts

\* The calls of log_init and check_file_size whose failure the code tests,
\* and sendfile transferring less than it was asked to.
FaultPoint == {"fopen", "stat", "stat2", "open", "mkstemp", "copy_out",
               "truncate", "copy_back", "short"}

\* uint16_t, and the megabytes an int product 1024 * 1024 * mb can stand for.
Uint16 == 0..65535
IntMbs == -2048..2047

ASSUME LogAssumption ==
  /\ NULL \notin File /\ NULL \notin Handle /\ NULL \notin Thread
  /\ NULL \notin Int
  /\ Level \subseteq 0..4 /\ DEFAULT_LOG_LEVEL \in 0..4
  /\ MaxMb \subseteq Uint16
  /\ MB \in Nat \ {0} /\ BufCap \in Nat \ {0}
  /\ TickLimit \in Nat
  /\ Faults \subseteq FaultPoint /\ SerialInit \in BOOLEAN /\ EveryRecord \in BOOLEAN
  /\ MaxCalls \in Nat /\ MaxInits \in Nat /\ MaxOld \in Nat

VARIABLES
  g_log_file, g_log_level, g_log_fd, g_max_mb,  \* the globals of log.cpp
  mutex,        \* the thread that holds it, or NULL
  max_size,     \* static of check_file_size in MB (NULL: not initialised yet)
  check_tick,   \* static of __log
  pc,           \* where each thread is
  arg,          \* arguments of the log_init call a thread is in
  calls,        \* number of __log calls each thread has made
  inits,        \* number of log_init calls of the application
  streams,      \* FILE objects that are open
  path, buf,    \* per FILE: the file it appends to, its stdio buffer
  disk,         \* contents of each log file
  tmp,          \* contents of the unlinked temporary file
  fd_log, half_point, len,  \* locals of check_file_size
  term,         \* what was printed to the terminal
  dest,         \* log_file argument of the application's last log_init
  ub            \* a FILE that is not open was used: undefined behaviour

config == <<g_log_file, g_log_level, g_log_fd, g_max_mb>>
stdio == <<streams, path, buf, disk, term>>
cutting == <<max_size, tmp, fd_log, half_point, len>>
counters == <<calls, inits, dest>>
vars == <<config, mutex, cutting, check_tick, pc, arg, stdio, counters, ub>>

-----------------------------------------------------------------------------
(* Types                                                                   *)

Unit == [from : Thread \cup {NULL}, n : 0..MaxCalls, part : {"head", "body", "old"}]

OldUnit == [from |-> NULL, n |-> 0, part |-> "old"]

\* A log file of n units that an earlier run of the program left behind.
OldLog(n) == [i \in 1..n |-> OldUnit]

InitArgs == [log_level : 0..4, log_file : File \cup {NULL},
             max_mb : Uint16, back : {"idle", "finish"}]

NoArgs == [log_level |-> DEFAULT_LOG_LEVEL, log_file |-> NULL,
           max_mb |-> 0, back |-> "idle"]

\* Program points inside the mutex: __log, check_file_size, log_init.
InFile == {"fhead", "fbody", "stat", "close"}
InCut  == {"stat2", "open", "mkstemp", "copy_out", "truncate", "copy_back",
           "ending"}
InInit == {"init_close", "init_open", "init_set"}
PC == {"idle", "lock", "thead", "tbody", "finish", "unlock"}
        \cup InFile \cup InCut \cup InInit

\* t is inside a log_init called by the application, or by check_file_size.
UserInit(t) == pc[t] \in InInit /\ arg[t].back = "idle"
Reopening(t) == pc[t] \in InInit /\ arg[t].back = "finish"

Holding(t) == \/ pc[t] \in {"thead", "tbody", "finish", "unlock"}
              \/ pc[t] \in InFile \cup InCut
              \/ Reopening(t)

ConfigOK ==
  /\ g_log_file \in File \cup {NULL}
  /\ g_log_level \in 0..4
  /\ g_log_fd \in Handle \cup {NULL}
  /\ g_max_mb \in Uint16

CuttingOK ==
  /\ max_size \in IntMbs \cup {NULL}
  /\ tmp \in Seq(Unit)
  /\ fd_log \in File \cup {NULL}
  /\ half_point \in Nat /\ len \in Nat

StdioOK ==
  /\ streams \in SUBSET Handle
  /\ path \in [Handle -> File \cup {NULL}]
  /\ buf \in [Handle -> Seq(Unit)]
  /\ disk \in [File -> Seq(Unit)]
  /\ term \in Seq(Unit)

ThreadOK ==
  /\ mutex \in Thread \cup {NULL}
  /\ check_tick \in Nat
  /\ pc \in [Thread -> PC]
  /\ arg \in [Thread -> InitArgs]
  /\ calls \in [Thread -> 0..MaxCalls]
  /\ inits \in Nat
  /\ dest \in File \cup {NULL}
  /\ ub \in BOOLEAN

TypeOK == ConfigOK /\ CuttingOK /\ StdioOK /\ ThreadOK

Init ==
  /\ g_log_file = NULL /\ g_log_level = DEFAULT_LOG_LEVEL
  /\ g_log_fd = NULL /\ g_max_mb = 10
  /\ mutex = NULL
  /\ max_size = NULL
  /\ check_tick = 0
  /\ pc = [t \in Thread |-> "idle"]
  /\ arg = [t \in Thread |-> NoArgs]
  /\ calls = [t \in Thread |-> 0]
  /\ inits = 0
  /\ streams = {}
  /\ path = [h \in Handle |-> NULL]
  /\ buf = [h \in Handle |-> <<>>]
  /\ \E n \in [File -> 0..MaxOld] : disk = [f \in File |-> OldLog(n[f])]
  /\ tmp = <<>>
  /\ fd_log = NULL /\ half_point = 0 /\ len = 0
  /\ term = <<>>
  /\ dest = NULL
  /\ ub = FALSE

\* Thread t is at program point l and the behaviour is still defined.
At(t, l) == ~ub /\ pc[t] = l

Goto(t, l) == pc' = [pc EXCEPT ![t] = l]

-----------------------------------------------------------------------------
(* The C library and the kernel, as far as log.cpp uses them.              *)

\* fprintf / vfprintf: a full buffer is written out before u is stored.
Fprintf(h, u) ==
  LET full == Len(buf[h]) >= BufCap IN
  /\ disk' = IF full THEN [disk EXCEPT ![path[h]] = @ \o buf[h]] ELSE disk
  /\ buf' = [buf EXCEPT ![h] = IF full THEN <<u>> ELSE Append(@, u)]
  /\ UNCHANGED <<streams, path, term>>

\* fclose flushes the buffer and invalidates the FILE.
Fclose(h) ==
  /\ disk' = [disk EXCEPT ![path[h]] = @ \o buf[h]]
  /\ buf' = [buf EXCEPT ![h] = <<>>]
  /\ streams' = streams \ {h}
  /\ UNCHANGED <<path, term>>

\* fopen(f, "a") returning the FILE h.
Fopen(h, f) ==
  /\ h \notin streams
  /\ streams' = streams \cup {h}
  /\ path' = [path EXCEPT ![h] = f]
  /\ buf' = [buf EXCEPT ![h] = <<>>]
  /\ UNCHANGED <<disk, term>>

Printf(u) ==
  /\ term' = Append(term, u)
  /\ UNCHANGED <<streams, path, buf, disk>>

\* What sendfile reads from s: at most n units from offset off, k of them
\* short when the transfer is partial.
Sent(s, off, n, k) ==
  SubSeq(s, off + 1, (IF off + n < Len(s) THEN off + n ELSE Len(s)) - k)

Shortfall(n) == IF "short" \in Faults THEN 0..n ELSE {0}

\* A write of w at offset 0 of a file holding s.
Overlay(s, w) == w \o SubSeq(s, Len(w) + 1, Len(s))

-----------------------------------------------------------------------------
(* log_init                                                                *)

\* The application calls log_init.  Under SerialInit it does so only while no
\* other call is in progress, as 002/main.cpp does before it starts threads.
InitCall(t, log_level, log_file, max_mb) ==
  /\ At(t, "idle") /\ inits < MaxInits
  /\ SerialInit => \A u \in Thread : pc[u] = "idle"
  /\ arg' = [arg EXCEPT ![t] = [log_level |-> log_level, log_file |-> log_file,
                               max_mb |-> max_mb, back |-> "idle"]]
  /\ Goto(t, IF log_file = NULL THEN "init_set" ELSE "init_close")
  /\ inits' = inits + 1
  /\ dest' = log_file
  /\ UNCHANGED <<config, mutex, cutting, check_tick, stdio, calls, ub>>

\* log_init returns to its caller; no caller of __log sees the result.
Return(t) == Goto(t, arg[t].back) /\ arg' = [arg EXCEPT ![t] = NoArgs]

\* Mutant: log_init forgets to close the previous stream.
InitCloseSkipped(t) ==
  /\ At(t, "init_close")
  /\ Goto(t, "init_open")
  /\ UNCHANGED <<config, mutex, cutting, check_tick, arg, stdio, counters, ub>>

InitClose(t) ==
  /\ At(t, "init_close")
  /\ \/ (g_log_file = NULL \/ g_log_fd = NULL) /\ UNCHANGED stdio
     \/ g_log_file # NULL /\ g_log_fd \in streams /\ Fclose(g_log_fd)
  /\ Goto(t, "init_open")
  /\ UNCHANGED <<config, mutex, cutting, check_tick, arg, counters, ub>>

\* Mutant: log_init opens the file without recording its name.
InitOpenUnnamed(t) ==
  /\ At(t, "init_open")
  /\ \E h \in Handle : Fopen(h, arg[t].log_file) /\ g_log_fd' = h
  /\ Goto(t, "init_set")
  /\ UNCHANGED <<g_log_file, g_log_level, g_max_mb, mutex, cutting, check_tick,
                 arg, counters, ub>>

InitOpen(t) ==
  /\ At(t, "init_open")
  /\ g_log_file' = arg[t].log_file
  /\ \/ \E h \in Handle : /\ Fopen(h, arg[t].log_file)
                          /\ g_log_fd' = h
                          /\ Goto(t, "init_set") /\ UNCHANGED arg
     \/ /\ "fopen" \in Faults \/ streams = Handle
        /\ g_log_fd' = NULL
        /\ Return(t)
        /\ UNCHANGED stdio
  /\ UNCHANGED <<g_log_level, g_max_mb, mutex, cutting, check_tick, counters, ub>>

InitSet(t) ==
  /\ At(t, "init_set")
  /\ g_log_level' = arg[t].log_level
  /\ g_max_mb' = arg[t].max_mb
  /\ Return(t)
  /\ UNCHANGED <<g_log_file, g_log_fd, mutex, cutting, check_tick, stdio,
                 counters, ub>>

-----------------------------------------------------------------------------
(* __log                                                                   *)

Str(t) == [from |-> t, n |-> calls[t], part |-> "head"]
Text(t) == [from |-> t, n |-> calls[t], part |-> "body"]

\* The level is compared before the mutex is taken.
LogCall(t, level) ==
  /\ At(t, "idle") /\ calls[t] < MaxCalls
  /\ SerialInit => \A u \in Thread : ~UserInit(u)
  /\ calls' = [calls EXCEPT ![t] = @ + 1]
  /\ Goto(t, IF level > g_log_level THEN "idle" ELSE "lock")
  /\ UNCHANGED <<config, mutex, cutting, check_tick, arg, stdio, inits, dest, ub>>

\* Mutant: the mutex is not waited for.
LockRacy(t) ==
  /\ At(t, "lock")
  /\ mutex' = t
  /\ Goto(t, IF g_log_fd # NULL THEN "fhead" ELSE "thead")
  /\ UNCHANGED <<config, cutting, check_tick, arg, stdio, counters, ub>>

Lock(t) ==
  /\ At(t, "lock") /\ mutex = NULL
  /\ mutex' = t
  /\ Goto(t, IF g_log_fd # NULL THEN "fhead" ELSE "thead")
  /\ UNCHANGED <<config, cutting, check_tick, arg, stdio, counters, ub>>

FHead(t) ==
  /\ At(t, "fhead") /\ g_log_fd \in streams
  /\ Fprintf(g_log_fd, Str(t))
  /\ Goto(t, "fbody")
  /\ UNCHANGED <<config, mutex, cutting, check_tick, arg, counters, ub>>

CheckDue == EveryRecord \/ check_tick > TickLimit

FBody(t) ==
  /\ At(t, "fbody") /\ g_log_fd \in streams
  /\ Fprintf(g_log_fd, Text(t))
  /\ Goto(t, IF CheckDue THEN "stat" ELSE "finish")
  /\ UNCHANGED <<config, mutex, cutting, check_tick, arg, counters, ub>>

\* Mutant: check_tick++ is forgotten.
FinishUncounted(t) ==
  /\ At(t, "finish")
  /\ check_tick' = IF CheckDue THEN 0 ELSE check_tick
  /\ Goto(t, "unlock")
  /\ UNCHANGED <<config, mutex, cutting, arg, stdio, counters, ub>>

\* The counter is zeroed after a check, then incremented.
Finish(t) ==
  /\ At(t, "finish")
  /\ check_tick' = IF EveryRecord THEN check_tick
                    ELSE (IF CheckDue THEN 0 ELSE check_tick) + 1
  /\ Goto(t, "unlock")
  /\ UNCHANGED <<config, mutex, cutting, arg, stdio, counters, ub>>

THead(t) ==
  /\ At(t, "thead")
  /\ Printf(Str(t))
  /\ Goto(t, "tbody")
  /\ UNCHANGED <<config, mutex, cutting, check_tick, arg, counters, ub>>

TBody(t) ==
  /\ At(t, "tbody")
  /\ Printf(Text(t))
  /\ Goto(t, "unlock")
  /\ UNCHANGED <<config, mutex, cutting, check_tick, arg, counters, ub>>

\* Mutant: the mutex is not released.
UnlockForgotten(t) ==
  /\ At(t, "unlock")
  /\ Goto(t, "idle")
  /\ UNCHANGED <<config, mutex, cutting, check_tick, arg, stdio, counters, ub>>

Unlock(t) ==
  /\ At(t, "unlock")
  /\ mutex' = NULL
  /\ Goto(t, "idle")
  /\ UNCHANGED <<config, cutting, check_tick, arg, stdio, counters, ub>>

-----------------------------------------------------------------------------
(* check_file_size, called with the mutex held                             *)

\* 1024 * 1024 * g_max_mb is an int product: in megabytes it wraps at
\* 2^32 / 2^20 = 4096 and is negative from 2048 on.
IntMb(mb) == LET w == mb % 4096 IN IF w < 2048 THEN w ELSE w - 4096

\* st_size < max_size, where a negative product became a huge size_t.
Below(size, mb) == mb < 0 \/ size < mb * MB

Stat(t) ==
  /\ At(t, "stat")
  /\ max_size' = IF max_size = NULL THEN IntMb(g_max_mb) ELSE max_size
  /\ \/ "stat" \in Faults /\ Goto(t, "finish")
     \/ Goto(t, IF Below(Len(disk[g_log_file]), max_size')
                  THEN "finish" ELSE "close")
  /\ UNCHANGED <<config, mutex, tmp, fd_log, half_point, len, check_tick, arg,
                 stdio, counters, ub>>

\* Mutant: g_log_fd keeps the closed stream.
CloseLogKept(t) ==
  /\ At(t, "close") /\ g_log_fd \in streams
  /\ Fclose(g_log_fd)
  /\ Goto(t, "stat2")
  /\ UNCHANGED <<config, mutex, cutting, check_tick, arg, counters, ub>>

\* Mutant: the stream is dropped but not closed.
CloseLogDropped(t) ==
  /\ At(t, "close")
  /\ g_log_fd' = NULL
  /\ Goto(t, "stat2")
  /\ UNCHANGED <<g_log_file, g_log_level, g_max_mb, mutex, cutting, check_tick,
                 arg, stdio, counters, ub>>

CloseLog(t) ==
  /\ At(t, "close") /\ g_log_fd \in streams
  /\ Fclose(g_log_fd)
  /\ g_log_fd' = NULL
  /\ Goto(t, "stat2")
  /\ UNCHANGED <<g_log_file, g_log_level, g_max_mb, mutex, cutting, check_tick,
                 arg, counters, ub>>

\* Mutant: the operands of the subtraction are swapped.
Stat2Swapped(t) ==
  /\ At(t, "stat2")
  /\ LET size == Len(disk[g_log_file]) IN
     half_point' = size \div 2 /\ len' = size \div 2 - size
  /\ Goto(t, "open")
  /\ UNCHANGED <<config, mutex, max_size, tmp, fd_log, check_tick, arg, stdio,
                 counters, ub>>

\* A failing stat returns at once: g_log_fd stays NULL.
Stat2(t) ==
  /\ At(t, "stat2")
  /\ \/ /\ "stat2" \in Faults
        /\ Goto(t, "finish")
        /\ UNCHANGED <<half_point, len>>
     \/ LET size == Len(disk[g_log_file]) IN
        /\ half_point' = size \div 2
        /\ len' = size - size \div 2
        /\ Goto(t, "open")
  /\ UNCHANGED <<config, mutex, max_size, tmp, fd_log, check_tick, arg, stdio,
                 counters, ub>>

OpenLog(t) ==
  /\ At(t, "open")
  /\ \/ "open" \in Faults /\ Goto(t, "ending") /\ UNCHANGED fd_log
     \/ fd_log' = g_log_file /\ Goto(t, "mkstemp")
  /\ UNCHANGED <<config, mutex, max_size, tmp, half_point, len, check_tick, arg,
                 stdio, counters, ub>>

Mkstemp(t) ==
  /\ At(t, "mkstemp")
  /\ tmp' = <<>>
  /\ \/ "mkstemp" \in Faults /\ Goto(t, "ending")
     \/ Goto(t, "copy_out")
  /\ UNCHANGED <<config, mutex, max_size, fd_log, half_point, len, check_tick,
                 arg, stdio, counters, ub>>

\* Mutant: the error exit returns instead of going to the label ending.
CopyOutReturns(t) ==
  /\ At(t, "copy_out")
  /\ \/ "copy_out" \in Faults /\ Goto(t, "finish") /\ UNCHANGED tmp
     \/ /\ tmp' = Sent(disk[fd_log], half_point, len, 0)
        /\ Goto(t, "truncate")
  /\ UNCHANGED <<config, mutex, max_size, fd_log, half_point, len, check_tick,
                 arg, stdio, counters, ub>>

\* Mutant: the offset of the first sendfile is not set.
CopyOutFromStart(t) ==
  /\ At(t, "copy_out")
  /\ tmp' = Sent(disk[fd_log], 0, len, 0)
  /\ Goto(t, "truncate")
  /\ UNCHANGED <<config, mutex, max_size, fd_log, half_point, len, check_tick,
                 arg, stdio, counters, ub>>

CopyOut(t) ==
  /\ At(t, "copy_out")
  /\ \/ "copy_out" \in Faults /\ Goto(t, "ending") /\ UNCHANGED tmp
     \/ /\ \E k \in Shortfall(len) :
             tmp' = Sent(disk[fd_log], half_point, len, k)
        /\ Goto(t, "truncate")
  /\ UNCHANGED <<config, mutex, max_size, fd_log, half_point, len, check_tick,
                 arg, stdio, counters, ub>>

\* Mutant: the log is not truncated before the copy is written back.
TruncateSkipped(t) ==
  /\ At(t, "truncate")
  /\ Goto(t, "copy_back")
  /\ UNCHANGED <<config, mutex, cutting, check_tick, arg, stdio, counters, ub>>

Truncate(t) ==
  /\ At(t, "truncate")
  /\ \/ "truncate" \in Faults /\ Goto(t, "ending") /\ UNCHANGED disk
     \/ disk' = [disk EXCEPT ![fd_log] = <<>>] /\ Goto(t, "copy_back")
  /\ UNCHANGED <<config, mutex, cutting, check_tick, arg, streams, path, buf,
                 term, counters, ub>>

CopyBack(t) ==
  /\ At(t, "copy_back")
  /\ \/ "copy_back" \in Faults /\ UNCHANGED disk
     \/ \E k \in Shortfall(Len(tmp)) :
          disk' = [disk EXCEPT ![fd_log] = Overlay(@, Sent(tmp, 0, len, k))]
  /\ Goto(t, "ending")
  /\ UNCHANGED <<config, mutex, cutting, check_tick, arg, streams, path, buf,
                 term, counters, ub>>

\* The label ending: both descriptors are closed, the locals are dead, and
\* log_init reopens the log.
Ending(t) ==
  /\ At(t, "ending")
  /\ arg' = [arg EXCEPT ![t] = [log_level |-> g_log_level,
                               log_file |-> g_log_file,
                               max_mb |-> g_max_mb, back |-> "finish"]]
  /\ fd_log' = NULL /\ tmp' = <<>> /\ half_point' = 0 /\ len' = 0
  /\ Goto(t, "init_close")
  /\ UNCHANGED <<config, mutex, max_size, check_tick, stdio, counters, ub>>

-----------------------------------------------------------------------------
\* Undefined behaviour.  What the program does after it is not modelled: no
\* thread takes a step once ub holds.

\* fprintf, vfprintf or fclose on a FILE that was closed, or on NULL.
UseClosed(t) ==
  /\ ~ub
  /\ \/ pc[t] \in {"fhead", "fbody", "close"}
     \/ pc[t] = "init_close" /\ g_log_file # NULL /\ g_log_fd # NULL
  /\ g_log_fd \notin streams
  /\ ub' = TRUE
  /\ UNCHANGED <<config, mutex, cutting, check_tick, pc, arg, stdio, counters>>

\* A thread reads the std::string g_log_file while log_init, which takes no
\* mutex, assigns it in another thread.
StringRace(t) ==
  /\ ~ub
  /\ pc[t] \in {"init_close", "init_open", "stat", "stat2", "open", "ending"}
  /\ \E u \in Thread \ {t} : pc[u] = "init_open"
  /\ ub' = TRUE
  /\ UNCHANGED <<config, mutex, cutting, check_tick, pc, arg, stdio, counters>>

\* One step of a thread that is inside __log or log_init.
Step(t) ==
  \/ InitClose(t) \/ InitOpen(t) \/ InitSet(t)
  \/ Lock(t) \/ FHead(t) \/ FBody(t) \/ Finish(t)
  \/ THead(t) \/ TBody(t) \/ Unlock(t)
  \/ Stat(t) \/ CloseLog(t) \/ Stat2(t) \/ OpenLog(t) \/ Mkstemp(t)
  \/ CopyOut(t) \/ Truncate(t) \/ CopyBack(t) \/ Ending(t)
  \/ UseClosed(t) \/ StringRace(t)

Call(t) ==
  \/ \E level \in Level : LogCall(t, level)
  \/ \E level \in Level, log_file \in File \cup {NULL}, max_mb \in MaxMb :
       InitCall(t, level, log_file, max_mb)

Next == \E t \in Thread : Step(t) \/ Call(t)

Spec == Init /\ [][Next]_vars

\* Every thread inside a call is scheduled again and again.  The mutex need
\* not be fair: a thread can be overtaken only MaxCalls times by each other one.
Fairness == \A t \in Thread : WF_vars(Step(t))

FairSpec == Spec /\ Fairness

-----------------------------------------------------------------------------
(* Properties                                                              *)

\* What a log file holds for its readers once every buffer is flushed.  While
\* the file is truncated its contents live in the temporary file.
Content(f) ==
  (IF \E t \in Thread : pc[t] = "copy_back" /\ fd_log = f THEN tmp ELSE disk[f])
    \o (IF g_log_fd \in streams /\ path[g_log_fd] = f THEN buf[g_log_fd] ELSE <<>>)

\* No thread ever hands a closed or null FILE to stdio: check_file_size closes
\* g_log_fd and log_init replaces it while other threads log through it.
StreamSafe == ~ub

\* No FILE is leaked: every open FILE is the one g_log_fd designates, on each
\* path through check_file_size, its error exits and log_init.
NoStreamLeak == streams \subseteq {g_log_fd}

Paired(s) ==
  \A i \in 1..Len(s) :
    /\ s[i].part = "head" /\ i < Len(s)
         => s[i + 1] = [s[i] EXCEPT !.part = "body"]
    /\ s[i].part = "body" /\ i > 1
         => s[i - 1] = [s[i] EXCEPT !.part = "head"]

\* s consists of whole records; the first may be torn by a cut, the last may be
\* one that a thread at program point l is about to complete.
Whole(s, l) ==
  /\ Paired(s)
  /\ s # <<>> /\ s[Len(s)].part = "head"
       => \E t \in Thread : pc[t] = l /\ s[Len(s)] = Str(t)

\* Records written by several threads are never interleaved in a log file, and
\* neither a cut nor a failed cut tears a record except the file's first.
RecordsWhole == \A f \in File : Whole(Content(f), "fbody")

\* Records are never interleaved on the terminal either, even while another
\* thread runs log_init unprotected.
TerminalWhole == Whole(term, "tbody")

\* After the application directed the log to a file, the logger has that file
\* open whenever the mutex is free: every error exit of check_file_size that
\* passes through the label ending restores the stream.
LogStaysOpen ==
  /\ mutex = NULL
  /\ \A t \in Thread : ~UserInit(t)
  /\ dest # NULL
  => g_log_fd \in streams /\ path[g_log_fd] = dest

Larger(a, b) == IF a > b THEN a ELSE b

\* The limit in force, in MB: the static, once it has been computed.
Limit == IF max_size = NULL THEN IntMb(g_max_mb) ELSE max_size

\* What the threads can write between two checks.
Period == 2 * (TickLimit + 2)

\* The calls whose failure leaves a log uncut.
CutFaults == {"stat", "stat2", "open", "mkstemp", "copy_out", "truncate"}

\* As long as no cut fails, the log of a program that logs to one file never
\* outgrows its limit (or, if that is more, the records of one checking period,
\* since half of them survive a cut) by more than the stdio buffer and one
\* period, whatever the threads do.  The limit is the int product of the max_mb
\* that the first check found, whatever log_init was told later; a negative
\* product is no limit.  With two files there is no bound: check_tick counts the
\* records of both, and each check may fall on the other one.
SizeBound ==
  Limit >= 0 /\ Faults \cap CutFaults = {} =>
    \A f \in File : File = {f} =>
      Len(Content(f)) <= Larger(Larger(MaxOld, Period), Limit * MB - 1 + BufCap) + Period

\* Every call of __log and log_init returns.
CallsReturn == \A t \in Thread : pc[t] # "idle" ~> pc[t] = "idle"

Store == INSTANCE LogStore WITH log <- [f \in File |-> Content(f)]

\* A log file only grows at its end or loses exactly its older half.
CutKeepsNewestHalf == Store!Spec

-----------------------------------------------------------------------------
(* The inductive invariant behind the theorems of LogProofs                *)

\* Only the owner of the mutex is between pthread_mutex_lock and _unlock.
LockInv == \A t \in Thread : Holding(t) => mutex = t

\* Wherever a file name is used it is there.
FileInv ==
  /\ g_log_fd # NULL => g_log_file # NULL
  /\ \A h \in streams : path[h] # NULL
  /\ \A t \in Thread :
       /\ pc[t] \in InFile \cup InCut => g_log_file # NULL
       /\ pc[t] \in {"init_close", "init_open"} => arg[t].log_file # NULL
       /\ pc[t] \in {"mkstemp", "copy_out", "truncate", "copy_back"}
            => fd_log # NULL

\* A log_init of the application runs alone.
SerialInv ==
  \A t \in Thread : UserInit(t) => \A u \in Thread \ {t} : pc[u] = "idle"

\* g_log_fd dangles only between the fclose and the fopen of log_init; it is
\* set on the file branch of __log and null while the file is cut.
StreamInv ==
  /\ streams \subseteq {g_log_fd}
  /\ g_log_fd # NULL =>
       g_log_fd \in streams \/ \E t \in Thread : UserInit(t) /\ pc[t] = "init_open"
  /\ \A t \in Thread :
       /\ pc[t] \in InFile => g_log_fd # NULL
       /\ pc[t] \in InCut => g_log_fd = NULL
       /\ Reopening(t) /\ pc[t] # "init_set" => g_log_fd = NULL
       /\ pc[t] = "init_open" => streams = {}
  /\ ~ub

\* The terminal: a record is torn only by the owner of the mutex, who is about
\* to complete it.
TermInv ==
  /\ Whole(term, "tbody")
  /\ \A t \in Thread : pc[t] = "tbody" => term # <<>> /\ term[Len(term)] = Str(t)

Inv == TypeOK /\ LockInv /\ FileInv /\ TermInv

SafeInv == Inv /\ SerialInv /\ StreamInv

\* The name and the stream of the last log_init, where it is not being closed,
\* cut or opened.  A failing fopen or second stat leaves the log closed.
OpenInv ==
  dest # NULL /\ Faults \cap {"fopen", "stat2"} = {} /\ Handle # {} =>
    /\ \A t \in Thread : pc[t] \in InInit => arg[t].log_file = dest
    /\ \/ \E t \in Thread : UserInit(t) /\ pc[t] # "init_set"
       \/ g_log_file = dest
    /\ \/ \E t \in Thread : pc[t] \in InCut \cup (InInit \ {"init_set"})
       \/ g_log_fd \in streams /\ path[g_log_fd] = dest

\* The file being cut is the log, nobody else writes to it, and the temporary
\* file holds its newer half from the first sendfile to the second one.
CutInv ==
  \A t \in Thread :
    /\ pc[t] \in {"mkstemp", "copy_out", "truncate", "copy_back"}
         => fd_log = g_log_file
    /\ pc[t] \in {"open", "mkstemp", "copy_out", "truncate"}
         => LET size == Len(disk[g_log_file]) IN
            half_point = size \div 2 /\ len = size - size \div 2
    /\ pc[t] = "truncate" =>
         \E k \in Shortfall(len) : tmp = Sent(disk[g_log_file], half_point, len, k)
    /\ pc[t] = "copy_back" => disk[g_log_file] = <<>> /\ Len(tmp) <= len
    /\ pc[t] = "copy_back" /\ "short" \notin Faults => Len(tmp) = len

\* A log file ends in a prefix only while the owner of the mutex is about to
\* write the text that belongs to it, to that file.
RecordInv ==
  "short" \notin Faults =>
    \A f \in File :
      LET s == Content(f) IN
      /\ Paired(s)
      /\ s # <<>> /\ s[Len(s)].part = "head" =>
           \E t \in Thread : pc[t] = "fbody" /\ path[g_log_fd] = f
      /\ \A t \in Thread :
           pc[t] = "fbody" /\ path[g_log_fd] = f => s # <<>> /\ s[Len(s)] = Str(t)

LogInv == SafeInv /\ OpenInv /\ CutInv /\ RecordInv

\* The records counted since the last check, or since the program started.
Since == IF EveryRecord THEN 0
         ELSE IF max_size = NULL THEN check_tick ELSE check_tick - 1

\* What a log file may hold right after a check.
Base == IF max_size = NULL THEN MaxOld
        ELSE Larger(Larger(MaxOld, Period), max_size * MB - 1 + BufCap)

\* The units of an uncounted record that the owner of the mutex has written.
Written(t) == IF pc[t] = "fbody" THEN 1
              ELSE IF pc[t] \in {"stat", "finish"} THEN 2 ELSE 0

Uncounted == IF mutex = NULL THEN 0 ELSE Written(mutex)

\* t found the log too large, and has not reopened it yet.
TooLarge(t) == pc[t] \in {"close"} \cup InCut

\* t has checked the size, and cut the log if need be, but not said so yet.
Sized(t) ==
  \/ pc[t] \in {"copy_back", "ending"} \/ Reopening(t)
  \/ pc[t] = "finish" /\ CheckDue

\* The size is checked in time, and the limit remembered.
TickInv ==
  Faults \cap CutFaults = {} =>
    /\ Since \in 0..(TickLimit + 1)
    /\ \A t \in Thread :
         /\ pc[t] = "stat" \/ TooLarge(t) \/ Reopening(t) => CheckDue
         /\ TooLarge(t) \/ Sized(t) => max_size # NULL

\* The size of the log, record by record, between two checks and in the cut.
SizeInv ==
  /\ \A h \in Handle : Len(buf[h]) <= BufCap
  /\ Faults \cap CutFaults = {} /\ (max_size = NULL \/ max_size >= 0) =>
       \A f \in File : File = {f} =>
         /\ \/ \E t \in Thread : TooLarge(t)
            \/ Len(Content(f)) <= Base + 2 * Since + Uncounted
         /\ \A t \in Thread :
              /\ TooLarge(t) => Len(Content(f)) <= Base + Period
              /\ Sized(t) => Len(Content(f)) <= Base

FullInv == Inv /\ TickInv /\ SizeInv
=============================================================================
