SPECIFICATION Spec
CONSTANTS
  Syms = {a, b}
  Syncs = {sync}
  Routes = {}
  Interps = {interp}
  Streams = {}
  FullEvery = 6
  MaxWrites = 6
CHECK_DEADLOCK FALSE
INVARIANTS
  InvalidationIsPublished
