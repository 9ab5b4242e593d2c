\* Threads make a bounded number of calls.
CHECK_DEADLOCK FALSE
CONSTANTS
  Thread = {t1, t2}
  File = {f1, f2}
  Handle = {h1, h2}
  NULL = NULL
  Level = {1}
  DEFAULT_LOG_LEVEL = 0
  MaxMb = {1}
  MB = 4
  BufCap = 2
  TickLimit = 0
  EveryRecord = TRUE
  Faults = {"fopen", "stat", "stat2", "open", "mkstemp", "copy_out", "truncate"}
  SerialInit = TRUE
  MaxCalls = 2
  MaxInits = 2
  MaxOld = 1
SPECIFICATION Spec009
INVARIANT RecordKept
PROPERTIES CutKeepsNewestHalf CallsReturn
