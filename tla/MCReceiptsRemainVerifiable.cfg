SPECIFICATION Spec
CONSTANTS
  Procs = {p1, p2}
  Envelopes = {e1, e2}
  Authentic = {e1, e2}
  None = None
  Garbage = Garbage
  MerkleRoot <- Root
  MerklePath <- Path
  DirFsyncSupported = TRUE
  MaxFaults = 1
  MaxTampers = 0
INVARIANT ReceiptsRemainVerifiable
