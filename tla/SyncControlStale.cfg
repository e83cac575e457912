SPECIFICATION Spec
CONSTANTS
  Loops = {l1}
  Workers = {w1}
  Requesters = {r1}
  QueueSize = 3
  NoOne = NoOne
PROPERTIES
  OverdueRunIsTakenOver
