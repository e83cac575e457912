SPECIFICATION Spec
CONSTANTS
  Procs = {"p1", "p2"}
  Keys = {"a"}
  Births = {"absent", "good"}
  FirstStarts = "alone"
  MaxFaults = 0
  MaxReadFailures = 0
  MaxEdits = 1
INVARIANT KeyOpensData
CHECK_DEADLOCK FALSE
