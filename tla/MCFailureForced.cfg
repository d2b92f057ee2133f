SPECIFICATION FairSpec
CONSTANTS
  Paths = {src, tests}
  Allowed = {src, tests}
  Protected = {tests}
  MaxChangedFiles = 1
  Tests = 1
  MaxWrites = 0
  MaxSpawns = 1
PROPERTY FailureForced
CHECK_DEADLOCK FALSE
