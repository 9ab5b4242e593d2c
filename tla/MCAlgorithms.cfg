\* Every algorithm ends, and a text that has its full length stays as it is.
CHECK_DEADLOCK FALSE
SPECIFICATION MCSpec
CONSTANTS
  Node = {1, 2, 3, 4, 5, 6, 7, 8}
  Key <- Keys
  SizeT = 16
  Char = {"/", "a", "b"}
  MaxPath = 7
  CfgChar <- CfgChars
  MAX_LINE_LEN = 5
  MaxFile = 7
  SplitChar = {"a", ",", ";"}
  NUL = "NUL"
  Calls <- SplitCalls
  MaxBlock = 8
  width = 2
  InfoByte = {31, 65, 127, 128}
  MaxInfo = 6
  Byte = {1, 2, 3}
  MaxData = 5
  MaxBuf = 3
  Letter = {".", "j", "p", "e", "g"}
  MaxName = 6
INVARIANTS
  RbTreeKept RbLookups SpTreeKept RbWalkComplete
  Pathnames CfgRead Splits DumpComplete PicturesRead
