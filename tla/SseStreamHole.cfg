SPECIFICATION Spec
CONSTANTS
  Clients = {c1}
  Cap = 2
  LogMax = 4
  IdMod = 100
  Sentinel = Sentinel
  KeepAlive = KeepAlive
  MaxSeq = 6
  MaxRestarts = 0
INVARIANTS
  NoStreamHole
