\* The processes return or crash.
CHECK_DEADLOCK FALSE
SPECIFICATION Spec
CONSTANTS
  Actor = {p1, p2}
  N = 3
  Late = {4}
  Kind = {"reg", "dir", "link", "special"}
  Name = {"plain", "hidden", "star"}
  FdLimit = 3
  LinkLimit = 1
  Nowhere = Nowhere
CONSTRAINT NotBoth
SYMMETRY Symmetry
INVARIANTS Confined 
