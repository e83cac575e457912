SPECIFICATION MCSpec
CONSTANTS
  Loops = {l1}
  Workers = {w1}
  Requesters = {r1, r2}
  QueueSize = 3
  NoOne = NoOne
  Absent = Absent
  Name = Name
  NoFile = NoFile
  WorkerSlots = {"w1", "w2", "w3"}
  WorkerCrashes = 2
  ListSymbols = {"s1", "s2"}
  ListDefaults = {"s2"}
  ListRequests = {"r1", "r2"}
  ListCapacity = 1
  ListLoads = 1
  FetchListed <- CheckedListed
  FetchDead = {"b", "c"}
  RemovalThreshold = 2
  SingleFetches = 2
  FetchEdits = 1
  FetchOutages = 2
INVARIANTS
  SyncingHasRunner
  ExactlyOneJob
PROPERTIES
  RequestsAreServed
  ProducersComeBack
  UnreadIsKept
  LiveStays
