\* main ends.
CHECK_DEADLOCK FALSE
SPECIFICATION FairSpec
CONSTANTS
  MaxBytes = 2
  Nul = {}
  Chunk = 2
  CanTruncate = FALSE
  MaxSignals = 1
  MaxStops = 0
  Faults = {}
PROPERTY QuitCleansUp
