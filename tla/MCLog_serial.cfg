\* Threads make a bounded number of calls.
CHECK_DEADLOCK FALSE
CONSTANTS
  Thread = {t1, t2}
  File = {f1}
  Handle = {h1, h2}
  NULL = NULL
  Level = {1}
  DEFAULT_LOG_LEVEL = 1
  MaxMb = {1}
  MB = 4
  BufCap = 2
  TickLimit = 0
  EveryRecord = FALSE
  Faults = {"stat", "open", "mkstemp", "copy_out", "truncate"}
  SerialInit = TRUE
  MaxCalls = 3
  MaxInits = 2
  MaxOld = 2
SYMMETRY Symmetry
SPECIFICATION Spec
INVARIANTS LogInv StreamSafe NoStreamLeak RecordsWhole LogStaysOpen
