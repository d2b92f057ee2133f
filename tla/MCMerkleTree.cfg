SPECIFICATION Spec
CONSTANTS
  Leaves = {a, b}
  MaxLeaves = 9
INVARIANTS RootIsReference PathProvesItsLeaf RootCommits
CHECK_DEADLOCK FALSE
