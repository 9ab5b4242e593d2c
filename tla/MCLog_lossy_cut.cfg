\* Threads make a bounded number of calls.
CHECK_DEADLOCK FALSE
CONSTANTS
  Thread = {t1, t2}
  File = {f1}
  Handle = {h1, h2}
  NULL = NULL
  Level = {1}
  DEFAULT_LOG_LEVEL = 1
  MaxMb = {1}
  MB = 4
  BufCap = 2
  TickLimit = 0
  EveryRecord = FALSE
  Faults = {"copy_back"}
  SerialInit = TRUE
  MaxCalls = 2
  MaxInits = 2
  MaxOld = 2
SPECIFICATION FairSpec
PROPERTY CutKeepsNewestHalf
