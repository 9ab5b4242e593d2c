------------------------------- MODULE TailF -------------------------------
(***************************************************************************)
(* 011/main.cpp, a "tail -f" on inotify and epoll, with the quit flag of   *)
(* 011/debug/debug.cpp that a SIGUSR1 handler sets.  The process, the      *)
(* program that writes the followed file and the sender of signals are     *)
(* interleaved; one action is one system call of the process.              *)
(*                                                                         *)
(* The k-th byte ever written to the file is the number k, so that what    *)
(* was printed can be compared with what was written.                      *)
(***************************************************************************)
EXTENDS Integers, Sequences, FiniteSets

CONSTANTS
  MaxBytes,     \* bound: bytes written to the file
  Nul,          \* the bytes among them that are '\0'
  Chunk,        \* bytes one read returns at most, sizeof (buff) - 1
  CanTruncate,  \* TRUE: the writer may truncate the file
  MaxSignals,   \* bound: SIGUSR1 sent to the process
  MaxStops,     \* bound: times the process is stopped and continued
  Faults        \* the calls that may fail

\* The calls whose failure the code tests; "stdout": a failing printf sets errno.
FaultPoint == {"sigaction", "access", "inotify_init", "add_watch", "epoll_create",
               "epoll_ctl", "stat", "open", "read", "stdout"}

ASSUME TailAssumption ==
  /\ MaxBytes \in Nat /\ Nul \subseteq 1..MaxBytes
  /\ Chunk \in Nat \ {0}
  /\ CanTruncate \in BOOLEAN
  /\ MaxSignals \in Nat /\ MaxStops \in Nat
  /\ Faults \subseteq FaultPoint

VARIABLES
  pc,            \* where the process is
  handled,       \* the handler of SIGUSR1 is installed
  g_debug_quit,  \* the flag it sets
  open,          \* what tail_f has open
  file,          \* contents of the followed file
  written,       \* number of bytes ever written to it
  off,           \* read offset of fd
  shown,         \* bytes printed
  pending,       \* an IN_MODIFY event is queued; equal events are merged
  ep_evout,      \* what the descriptor in ep_evout designates
  signals, stops \* counts of the environment's actions

process == <<pc, handled, open, off, shown, ep_evout>>
env == <<file, written, signals, stops>>
vars == <<process, env, g_debug_quit, pending>>

Descriptor == {"nty_fd", "watch_fd", "epoll_fd", "fd"}

\* ep_evout is not initialised: until the first event its descriptor may be the
\* inotify one, a terminal or other open descriptor, or none at all.
Designated == {"nty_fd", "tty", "none"}

Setup == {"access", "inotify_init", "add_watch", "epoll_create", "epoll_ctl",
          "stat", "open"}
Loop == {"read", "epoll_wait", "interrupted", "drain"}
PC == {"start", "ending", "quit_test", "pause", "exit", "killed"} \cup Setup \cup Loop

TypeOK ==
  /\ pc \in PC
  /\ handled \in BOOLEAN /\ g_debug_quit \in BOOLEAN /\ pending \in BOOLEAN
  /\ open \subseteq Descriptor
  /\ file \in Seq(1..MaxBytes) /\ shown \in Seq(1..MaxBytes)
  /\ written \in 0..MaxBytes
  /\ off \in Nat
  /\ ep_evout \in Designated
  /\ signals \in 0..MaxSignals /\ stops \in 0..MaxStops

Init ==
  /\ pc = "start"
  /\ handled = FALSE /\ g_debug_quit = FALSE /\ pending = FALSE
  /\ open = {}
  /\ file = <<>> /\ shown = <<>> /\ written = 0 /\ off = 0
  /\ ep_evout \in Designated
  /\ signals = 0 /\ stops = 0

-----------------------------------------------------------------------------
(* The process                                                             *)

\* main ignores the result of debug_init.
debug_init ==
  /\ pc = "start"
  /\ pc' = "access"
  /\ handled' \in {TRUE} \cup (IF "sigaction" \in Faults THEN {FALSE} ELSE {})
  /\ UNCHANGED <<open, off, shown, ep_evout, env, g_debug_quit, pending>>

\* access and inotify_init fail before there is anything to clean up.
Access ==
  /\ pc = "access"
  /\ \/ pc' = "inotify_init"
     \/ "access" \in Faults /\ pc' = "quit_test"
  /\ UNCHANGED <<handled, open, off, shown, ep_evout, env, g_debug_quit, pending>>

\* One call of the set-up that yields descriptor d; l is where its error exit
\* leads and next where it goes on.
Acquire(call, d, l, next) ==
  /\ pc = call
  /\ \/ open' = open \cup {d} /\ pc' = next
     \/ call \in Faults /\ UNCHANGED open /\ pc' = l
  /\ UNCHANGED <<handled, off, shown, ep_evout, env, g_debug_quit, pending>>

InotifyInit == Acquire("inotify_init", "nty_fd", "quit_test", "add_watch")
AddWatch == Acquire("add_watch", "watch_fd", "ending", "epoll_create")

\* Mutant: returns without the clean-up.
EpollCreateReturns == Acquire("epoll_create", "epoll_fd", "quit_test", "epoll_ctl")

EpollCreate == Acquire("epoll_create", "epoll_fd", "ending", "epoll_ctl")

\* epoll_ctl and stat: the size stat finds is only printed.
Prepare ==
  /\ pc \in {"epoll_ctl", "stat"}
  /\ \/ pc' = IF pc = "epoll_ctl" THEN "stat" ELSE "open"
     \/ pc \in Faults /\ pc' = "ending"
  /\ UNCHANGED <<handled, open, off, shown, ep_evout, env, g_debug_quit, pending>>

OpenFile == Acquire("open", "fd", "ending", "read")

\* Where a read that starts at the offset off ends.
ReadEnd == IF off + Chunk < Len(file) THEN off + Chunk ELSE Len(file)

\* printf("%s") of the bytes between the offsets b and e: it stops at a '\0'.
Printf(b, e) ==
  \E n \in b..e :
    /\ \A i \in (b + 1)..n : file[i] \notin Nul
    /\ n < e => file[n + 1] \in Nul
    /\ shown' = shown \o SubSeq(file, b + 1, n)

\* Mutant: the last byte is read again.
ReadAgain ==
  /\ pc = "read"
  /\ \/ /\ off < Len(file)
        /\ off' = ReadEnd
        /\ Printf(IF off = 0 THEN 0 ELSE off - 1, ReadEnd)
        /\ UNCHANGED pc
     \/ off >= Len(file) /\ pc' = "epoll_wait" /\ UNCHANGED <<off, shown>>
  /\ UNCHANGED <<handled, open, ep_evout, env, g_debug_quit, pending>>

\* Mutant: one read per event, whatever is left in the file.
ReadOnce ==
  /\ pc = "read"
  /\ \/ off < Len(file) /\ off' = ReadEnd /\ Printf(off, ReadEnd)
     \/ off >= Len(file) /\ UNCHANGED <<off, shown>>
  /\ pc' = "epoll_wait"
  /\ UNCHANGED <<handled, open, ep_evout, env, g_debug_quit, pending>>

\* The inner loop: read until the end of the file, or an error.
Read ==
  /\ pc = "read"
  /\ \/ /\ off < Len(file)
        /\ off' = ReadEnd
        /\ Printf(off, ReadEnd)
        /\ UNCHANGED pc
     \/ /\ off >= Len(file) \/ "read" \in Faults
        /\ pc' = "epoll_wait"
        /\ UNCHANGED <<off, shown>>
  /\ UNCHANGED <<handled, open, ep_evout, env, g_debug_quit, pending>>

\* epoll_wait returns when the inotify queue is not empty.
EpollWait ==
  /\ pc = "epoll_wait" /\ pending
  /\ ep_evout' = "nty_fd"
  /\ pc' = "drain"
  /\ UNCHANGED <<handled, open, off, shown, env, g_debug_quit, pending>>

\* Mutant: an interrupted wait is only logged.
InterruptedIgnored ==
  /\ pc = "interrupted"
  /\ pc' = "drain"
  /\ UNCHANGED <<handled, open, off, shown, ep_evout, env, g_debug_quit, pending>>

\* epoll_wait returned -1.  Two printf stand between it and the test of errno.
\* Unless the loop ends it goes on to read from whatever ep_evout holds.
Interrupted ==
  /\ pc = "interrupted"
  /\ \/ g_debug_quit /\ pc' = "ending"
     \/ (~g_debug_quit \/ "stdout" \in Faults) /\ pc' = "drain"
  /\ UNCHANGED <<handled, open, off, shown, ep_evout, env, g_debug_quit, pending>>

\* read of one inotify event; it blocks while there is none.  A descriptor that
\* is not open fails at once.
Drain ==
  /\ pc = "drain"
  /\ \/ ep_evout = "nty_fd" /\ pending /\ pending' = FALSE
     \/ ep_evout = "none" /\ UNCHANGED pending
  /\ pc' = "read"
  /\ UNCHANGED <<handled, open, off, shown, ep_evout, env, g_debug_quit>>

\* The label ending: what was opened is closed.
Ending ==
  /\ pc = "ending"
  /\ open' = open \ ({"fd", "epoll_fd"}
                     \cup IF "nty_fd" \in open THEN {"nty_fd", "watch_fd"} ELSE {})
  /\ pc' = "quit_test"
  /\ pending' = FALSE
  /\ UNCHANGED <<handled, off, shown, ep_evout, env, g_debug_quit>>

\* main: while (!g_debug_quit) pause();
QuitTest ==
  /\ pc = "quit_test"
  /\ pc' = IF g_debug_quit THEN "exit" ELSE "pause"
  /\ UNCHANGED <<handled, open, off, shown, ep_evout, env, g_debug_quit, pending>>

Process ==
  \/ debug_init \/ Access \/ InotifyInit \/ AddWatch \/ EpollCreate \/ Prepare
  \/ OpenFile \/ Read \/ EpollWait \/ Interrupted \/ Drain \/ Ending \/ QuitTest

-----------------------------------------------------------------------------
(* The environment                                                         *)

Running == pc \notin {"exit", "killed"}

\* A signal that runs its handler makes a blocked call return; one that comes
\* before the call is entered does not.
Interrupt ==
  \/ UNCHANGED pc
  \/ pc = "epoll_wait" /\ ~pending /\ pc' = "interrupted"
  \/ /\ pc = "drain" /\ (ep_evout = "nty_fd" => ~pending) /\ ep_evout # "none"
     /\ pc' = "read"
  \/ pc = "pause" /\ pc' = "quit_test"

\* SIGUSR1: the handler runs, or the process dies while there is none.
debug_sig_handle ==
  /\ Running /\ signals < MaxSignals
  /\ signals' = signals + 1
  /\ \/ handled /\ g_debug_quit' = TRUE /\ Interrupt
     \/ ~handled /\ pc' = "killed" /\ UNCHANGED g_debug_quit
  /\ UNCHANGED <<handled, open, off, shown, ep_evout, file, written, stops, pending>>

\* A stop signal and SIGCONT: epoll_wait fails with EINTR, no handler runs.
StopAndContinue ==
  /\ pc = "epoll_wait" /\ ~pending /\ stops < MaxStops
  /\ stops' = stops + 1
  /\ pc' = "interrupted"
  /\ UNCHANGED <<handled, open, off, shown, ep_evout, file, written, signals,
                 g_debug_quit, pending>>

\* Input arrives at the terminal the process happens to read from.
TerminalInput ==
  /\ pc = "drain" /\ ep_evout = "tty"
  /\ pc' = "read"
  /\ UNCHANGED <<handled, open, off, shown, ep_evout, env, g_debug_quit, pending>>

\* A change of a watched file queues an event.
Notify == pending' = (pending \/ "watch_fd" \in open)

Write ==
  /\ Running /\ written < MaxBytes
  /\ written' = written + 1
  /\ file' = Append(file, written + 1)
  /\ Notify
  /\ UNCHANGED <<process, signals, stops, g_debug_quit>>

Truncate ==
  /\ Running /\ CanTruncate
  /\ \E n \in 0..(Len(file) - 1) : file' = SubSeq(file, 1, n)
  /\ Notify
  /\ UNCHANGED <<process, written, signals, stops, g_debug_quit>>

Environment ==
  debug_sig_handle \/ StopAndContinue \/ TerminalInput \/ Write \/ Truncate

Next == Process \/ Environment

Spec == Init /\ [][Next]_vars

\* The process is scheduled again and again; nobody else owes anything.
FairSpec == Spec /\ WF_vars(Process)

-----------------------------------------------------------------------------
(* Properties                                                              *)

\* Every descriptor tail_f opened is closed when it returns to main, on each of
\* its error exits too.
NoFdLeak == pc \in {"quit_test", "pause", "exit"} => open = {}

\* The process never waits for an event while the file has data it has not
\* read: no write slips in between the last read and epoll_wait, none is lost
\* when events are merged or when a wait is interrupted.
NothingMissed ==
  pc \in {"epoll_wait", "interrupted", "drain"} /\ off < Len(file) => pending

\* No byte is printed twice or out of order, even if the file is truncated
\* while it is followed.
InOrder == \A i, j \in 1..Len(shown) : i < j => shown[i] < shown[j]

InFile(k) == \E i \in 1..Len(file) : file[i] = k
Unread(k) == \E i \in (off + 1)..Len(file) : file[i] = k
Shown(k) == \E i \in 1..Len(shown) : shown[i] = k

\* tail_f has returned, or was killed before it installed its handler.
Over == pc \in {"quit_test", "pause", "exit", "killed"}

\* After an interrupted wait the uninitialised ep_evout may make the process
\* read its terminal.
ReadsTerminal == pc = "drain" /\ ep_evout = "tty"

\* "do what like tail -f do" (011/README.md): a byte written beyond the read
\* offset is printed in the end, unless it is truncated away first, tail_f
\* returns, or the process is blocked on its terminal.
BytesShown ==
  \A k \in 1..MaxBytes :
    Unread(k) ~> Shown(k) \/ ~InFile(k) \/ Over \/ ReadsTerminal

\* A wait that SIGUSR1 interrupted ends in the clean-up and the exit of main.
InterruptedQuits == (pc = "interrupted" /\ g_debug_quit) ~> (pc = "exit")

\* "A gloabal quit flag, if true, your thread should do clean-up" (debug.h).
QuitCleansUp == g_debug_quit ~> (pc = "exit")
=============================================================================
