CONSTANTS
  Runners = {r1, r2}
  Contracts <- MCContracts
  None = None
  MaxCallbacks = 2
  MaxKills = 1
  MaxTampers = 1
SPECIFICATION Spec
INVARIANTS TypeOK PassHidesNothing ArtifactsOfOneRun DiskBounded DeniedIsNoticed
PROPERTIES AcceptedAsWritten RunnerEnds
CHECK_DEADLOCK FALSE
