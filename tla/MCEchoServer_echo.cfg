\* Clients send a bounded number of bytes.
CHECK_DEADLOCK FALSE
SPECIFICATION FairSpec
CONSTANTS
  Client = {c1, c2}
  Server = Server
  HomeLen = 1
  MaxBytes = 2
  Nul = {2}
  Chunk = 2
  MaxEmpty = 1
  Faults = {"malloc"}
INVARIANT EchoesOwn
PROPERTY Echoed
