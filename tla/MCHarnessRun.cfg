\* Two workers on either runtime, three calls, two faults and a crash.
SPECIFICATION Spec
CONSTANTS
  Workers = {w1, w2}
  RunIds = {r1, r2}
  Backends = {"openshell", "cloudflare"}
  Storing = {"openshell"}
  MaxAttempts = 3
  MaxFaults = 2
  MaxCrashes = 1
  MaxEvents = 2
  MaxEgress = 3
SYMMETRY Symmetry
CONSTRAINT Bounded
INVARIANTS TypeOK SandboxOfItsOwn LeftoversExplained VerdictHasEvidence
PROPERTIES ColdMeansOwn DeniedIsCollected
CHECK_DEADLOCK FALSE
