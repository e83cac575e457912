SPECIFICATION MCSpec
CONSTANTS
  Requests = {r1, r2, r3}
  MaxListeners = 2
  Sentinel = Sentinel
  KeepAlive = KeepAlive
PROPERTIES
  SlotComesBack
  BudgetSpec
  DroppedStreamEnds
  StreamReachesLoop
