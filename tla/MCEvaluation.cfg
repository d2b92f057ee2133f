\* Two publishers, at most one of which is killed, two runs, two files a bundle.
SPECIFICATION Spec
CONSTANTS
  None = None
  Publishers = {w1, w2}
  Inputs <- MCInputs
  Happenings <- MCHappenings
  Authorities <- MCAuthorities
  Keys = {"k1", "k2"}
  Identities <- MCIdentities
  Policies <- MCPolicies
  Files <- MCFiles
  Tried <- MCTried
  MaxRuns = 2
  MaxKills = 1
SYMMETRY Symmetry
INVARIANTS
  TypeOK
  RankMeansClean
  MixAgrees
  WholeUnlessInterrupted
  ReceiptMeansSigned
  CompiledPlanCanPass
PROPERTY CollisionExplained
\* Every publisher ends.
CHECK_DEADLOCK FALSE
