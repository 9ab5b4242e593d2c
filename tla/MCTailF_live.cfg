\* main ends.
CHECK_DEADLOCK FALSE
SPECIFICATION FairSpec
CONSTANTS
  MaxBytes = 4
  Nul = {}
  Chunk = 2
  CanTruncate = TRUE
  MaxSignals = 2
  MaxStops = 2
  Faults = {"sigaction", "access", "inotify_init", "add_watch", "epoll_create",
            "epoll_ctl", "stat", "open"}
INVARIANTS NoFdLeak InOrder NothingMissed
PROPERTIES  InterruptedQuits
