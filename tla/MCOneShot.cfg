\* The programs end.
CHECK_DEADLOCK FALSE
SPECIFICATION OneSpec
CONSTANTS
  Faults <- AllCalls
  CurlFaults <- AllCurl
  MaxRequests = 3
  MaxPieces = 2
  NetFaults <- AllNet
  FdMax = 2
  MaxNetCalls = 3
  MaxEntries = 2
  MaxNode = 3
  Links = 1
  st_size <- SizeOf
INVARIANTS
  NoLeak SafeFrees 
  OwnOnly StaleListOnly CurlNoLeak
  NetResources  RtpOnWire
  NsBetween
PROPERTY ToolsEnd
