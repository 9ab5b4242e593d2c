\* Threads make a bounded number of calls.
CHECK_DEADLOCK FALSE
CONSTANTS
  Thread = {t1, t2}
  File = {f1}
  Handle = {h1, h2}
  NULL = NULL
  Level = {1}
  DEFAULT_LOG_LEVEL = 1
  MaxMb = {1, 4096}
  MB = 3
  BufCap = 2
  TickLimit = 0
  EveryRecord = FALSE
  Faults = {"fopen", "copy_back", "short"}
  SerialInit = FALSE
  MaxCalls = 2
  MaxInits = 3
  MaxOld = 2
SYMMETRY Symmetry
SPECIFICATION Spec
INVARIANTS FullInv TerminalWhole SizeBound
