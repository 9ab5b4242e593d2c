------------------------------- MODULE Log009 -------------------------------
(***************************************************************************)
(* 009/log/log.cpp, the copy of the logger beside the echo server: the     *)
(* logger of Log with EveryRecord = TRUE, since it has no check_tick and   *)
(* check_file_size runs after every record.  Its functions are the         *)
(* disjunctions of their steps, and each thread is scheduled by itself.    *)
(***************************************************************************)
EXTENDS Log

log_init(t) ==
  \/ \E level \in Level, log_file \in File \cup {NULL}, max_mb \in MaxMb :
       InitCall(t, level, log_file, max_mb)
  \/ InitClose(t) \/ InitOpen(t) \/ InitSet(t)

check_file_size(t) ==
  \/ Stat(t) \/ CloseLog(t) \/ Stat2(t) \/ OpenLog(t) \/ Mkstemp(t)
  \/ CopyOut(t) \/ Truncate(t) \/ CopyBack(t) \/ Ending(t)

log(t) ==
  \/ \E level \in Level : LogCall(t, level)
  \/ Lock(t) \/ FHead(t) \/ FBody(t) \/ Finish(t)
  \/ THead(t) \/ TBody(t) \/ Unlock(t)

\* Every thread is scheduled again and again while it is in one of its calls.
Inside(t) == pc[t] # "idle" /\ (log_init(t) \/ check_file_size(t) \/ log(t))

Next009 ==
  \E t \in Thread :
    log_init(t) \/ check_file_size(t) \/ log(t) \/ UseClosed(t) \/ StringRace(t)

Spec009 == Init /\ [][Next009]_vars /\ \A t \in Thread : WF_vars(Inside(t))

-----------------------------------------------------------------------------
(* Properties                                                              *)

\* t has written its record and not released the mutex yet.
Wrote(t) ==
  pc[t] \in {"stat", "close", "finish", "unlock"} \cup InCut \/ Reopening(t)

\* The record a thread has just written reaches its reader: it is in the log or
\* on the terminal when the mutex is released, although check_file_size has cut
\* the file meanwhile, could not reopen it (002/log.cpp:73, 009/log/log.cpp:72)
\* or left by one of its error exits.  A cut may take the record's prefix.
RecordKept ==
  \A t \in Thread : Wrote(t) =>
    \E s \in {term} \cup {Content(f) : f \in File} : \E i \in 1..Len(s) : s[i] = Text(t)
=============================================================================
