SPECIFICATION MCSpec
CONSTANTS
  Clients = {c1, c2}
  Syms = {a, b}
  Syncs = {"sync"}
  Routes = {"route"}
  Interps = {"interp"}
  Streams = {"s"}
  FullEvery = 2
  MaxWrites = 3
  MaxQuotes = 1
  Cap = 2
  LogMax = 2
  IdMod = 4
  Sentinel = Sentinel
  KeepAlive = KeepAlive
  MaxSeq = 3
  MaxRestarts = 0
SYMMETRY Symmetry
INVARIANTS
  NoFrameBetweenReplayAndQueue
  DroppedIsTold
  ListenerTracksBase
  SnapshotCoversGeneration
  BoundRowHasOwner
  ClientCatchesUp
