\* One publisher and one run: what a run that fails the gate leaves is enough.
SPECIFICATION Spec
CONSTANTS
  None = None
  Publishers = {w1}
  Inputs <- MCInputs
  Happenings <- MCHappenings
  Authorities <- MCAuthorities
  Keys = {"k1"}
  Identities <- MCIdentities
  Policies <- MCPolicies
  Files <- MCFiles
  Tried <- MCTried
  MaxRuns = 1
  MaxKills = 0
INVARIANT DiagnosticsKept
CHECK_DEADLOCK FALSE
