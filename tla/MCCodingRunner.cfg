SPECIFICATION FairSpec
CONSTANTS
  Paths = {src, tests}
  Allowed = {src, tests}
  Protected = {tests}
  MaxChangedFiles = 1
  Tests = 2
  MaxWrites = 2
  MaxSpawns = 1
INVARIANTS TypeOK PassIsFinal
PROPERTIES TerminatedMeansDead RunnerEnds
CHECK_DEADLOCK FALSE
