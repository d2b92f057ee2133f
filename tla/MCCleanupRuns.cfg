SPECIFICATION Spec
CONSTANTS
  Workers = {w1, w2}
  RunIds = {r1}
  Backends = {"openshell"}
  Storing = {}
  MaxAttempts = 3
  MaxFaults = 1
  MaxCrashes = 0
  MaxEvents = 1
  MaxEgress = 0
SYMMETRY Symmetry
INVARIANT CleanupRuns
CHECK_DEADLOCK FALSE
